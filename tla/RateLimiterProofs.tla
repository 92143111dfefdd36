-------------------------- MODULE RateLimiterProofs --------------------------
(***************************************************************************)
(* The safety of the shared pause, for any number of requests, any waits   *)
(* and any number of pauses.                                               *)
(*                                                                         *)
(* What makes it work is that the channel of the current pause is open,    *)
(* and that its goroutine is still to come and comes no earlier than       *)
(* pauseUntil (Current).  Extend and TimerFires both leave it so.          *)
(***************************************************************************)
EXTENDS RateLimiter, TLAPS

\* Only channels that were made are in use.
Made ==
  /\ pauseCh <= made
  /\ \A c \in closed : c <= made
  /\ \A c \in Channels : c > made => timer[c] = Never

Current ==
  /\ pauseCh = Nil => pauseUntil = Never
  /\ pauseCh # Nil => /\ pauseCh \notin closed
                      /\ timer[pauseCh] = pauseUntil /\ pauseUntil # Never

WaitsForChannel == \A r \in Requests : pc[r] = "waiting" => waitsOn[r] \in Channels

IInv == TypeOK /\ Made /\ Current /\ ClosedOnce /\ NobodyStranded /\ WaitsForChannel

LEMMA InitIInv == Init => IInv
<1> SUFFICES ASSUME Init PROVE IInv
  OBVIOUS
<1>1. 0 \in 0..MaxPauses
  BY LimiterAssumption
<1>2. TypeOK
  BY <1>1 DEF Init, TypeOK, Times
<1>3. Made /\ Current
  BY DEF Init, Made, Current, Nil, Never
<1>4. ClosedOnce /\ NobodyStranded /\ WaitsForChannel
  BY DEF Init, ClosedOnce, NobodyStranded, WaitsForChannel
<1> QED
  BY <1>2, <1>3, <1>4 DEF IInv

-----------------------------------------------------------------------------
\* The steps of a request leave the pause alone, and it waits on a channel
\* that somebody is still going to close.
LEMMA RequestStep ==
  ASSUME IInv, NEW r \in Requests, RoundTrip(r) \/ Go(r) \/ Cancelled(r)
  PROVE  IInv'
<1>1. UNCHANGED limiter
  BY DEF RoundTrip, Go, Cancelled, Wait, Released, Answered
<1>2. UNCHANGED <<pauseUntil, pauseCh, closed, made, timer, panicked>>
  BY <1>1 DEF limiter
<1>3. CASE Wait(r)
  <2>1. /\ waitsOn' = [waitsOn EXCEPT ![r] = pauseCh]
        /\ pc' = [pc EXCEPT ![r] = IF pauseCh = Nil THEN "sent" ELSE "waiting"]
        /\ owed' = owed
    BY <1>3 DEF Wait, Goto
  <2>2. TypeOK'
    BY <1>2, <2>1 DEF IInv, TypeOK
  <2> QED
    BY <1>2, <2>1, <2>2
    DEF IInv, TypeOK, Made, Current, ClosedOnce, NobodyStranded, WaitsForChannel
<1>4. CASE RoundTrip(r) \/ Released(r) \/ Cancelled(r) \/ Answered(r)
  <2>1. /\ waitsOn' = waitsOn
        /\ \E label \in {"idle", "start", "sent"} : pc' = [pc EXCEPT ![r] = label]
        /\ owed' \in [Requests -> Nat]
    BY <1>4 DEF RoundTrip, Released, Cancelled, Answered, Goto, IInv, TypeOK
  <2> QED
    BY <1>2, <2>1
    DEF IInv, TypeOK, Made, Current, ClosedOnce, NobodyStranded, WaitsForChannel
<1> QED
  BY <1>3, <1>4 DEF Go

\* A response that says rate limited.
LEMMA LimitedStep ==
  ASSUME IInv, NEW r \in Requests, NEW d \in Durations, Limited(r, d)
  PROVE  IInv'
<1>1. d \in Nat
  BY LimiterAssumption
<1>2. /\ waitsOn' = waitsOn
      /\ pc' = [pc EXCEPT ![r] = "start"]
      /\ owed' \in [Requests -> Nat]
  BY <1>1 DEF Limited, Goto, IInv, TypeOK
<1>3. CASE UNCHANGED limiter
  BY <1>2, <1>3
  DEF limiter, IInv, TypeOK, Made, Current, ClosedOnce, NobodyStranded, WaitsForChannel
<1>4. CASE Extend(d)
  <2>1. /\ made + 1 \in Channels /\ made + 1 \notin closed
        /\ pauseCh # made + 1 /\ d # Never
    BY <1>1, <1>4, LimiterAssumption
    DEF Extend, IInv, TypeOK, Made, Channels, Never, Nil
  <2>2. pauseCh \notin closed
    BY DEF IInv, TypeOK, Current, Channels, Nil
  <2>3. TypeOK'
    BY <1>1, <1>2, <1>4, <2>1 DEF Extend, IInv, TypeOK, Times, Channels, Nil
  <2>4. Made'
    BY <1>4, <2>1 DEF Extend, IInv, TypeOK, Made, Channels, Nil
  <2>5. Current'
    BY <1>1, <1>4, <2>1 DEF Extend, IInv, TypeOK, Current, Channels, Nil, Never
  <2>6. ClosedOnce'
    BY <1>4, <2>2 DEF Extend, IInv, ClosedOnce
  <2>7. WaitsForChannel'
    BY <1>2 DEF IInv, TypeOK, WaitsForChannel
  <2>8. NobodyStranded'
    <3> SUFFICES ASSUME NEW q \in Requests, pc'[q] = "waiting"
                 PROVE  waitsOn'[q] \in closed'
      BY DEF NobodyStranded
    <3>1. pc[q] = "waiting"
      BY <1>2 DEF IInv, TypeOK
    <3>2. waitsOn[q] \in Channels /\ (waitsOn[q] \in closed \/ waitsOn[q] = pauseCh)
      BY <3>1 DEF IInv, NobodyStranded, WaitsForChannel
    <3> QED
      BY <1>2, <1>4, <3>2 DEF Extend, Channels, Nil
  <2> QED
    BY <2>3, <2>4, <2>5, <2>6, <2>7, <2>8 DEF IInv
<1> QED
  BY <1>3, <1>4 DEF Limited, PauseFor

\* The goroutine of a pause ends it, or finds that it was replaced.
LEMMA TimerStep ==
  ASSUME IInv, NEW c \in Channels, TimerFires(c)
  PROVE  IInv'
<1>1. /\ UNCHANGED <<made, pc, waitsOn, owed>>
      /\ timer' = [timer EXCEPT ![c] = Never]
  BY DEF TimerFires
<1>2. CASE c = pauseCh
  <2>1. /\ closed' = closed \union {c} /\ panicked' = (panicked \/ c \in closed)
        /\ pauseCh' = Nil /\ pauseUntil' = Never
    BY <1>2 DEF TimerFires
  <2>2. c \notin closed /\ c # Nil /\ c <= made
    BY <1>2 DEF IInv, Current, Made, Channels, Nil
  <2>3. TypeOK' /\ Current' /\ WaitsForChannel'
    BY <1>1, <2>1 DEF IInv, TypeOK, Times, Current, WaitsForChannel
  <2>4. Made'
    BY <1>1, <2>1, <2>2 DEF IInv, TypeOK, Made, Nil
  <2>5. ClosedOnce'
    BY <2>1, <2>2 DEF IInv, ClosedOnce
  <2>6. NobodyStranded'
    BY <1>1, <1>2, <2>1 DEF IInv, NobodyStranded
  <2> QED
    BY <2>3, <2>4, <2>5, <2>6 DEF IInv
<1>3. CASE c # pauseCh
  <2>1. UNCHANGED <<closed, panicked, pauseCh, pauseUntil>>
    BY <1>3 DEF TimerFires
  <2>2. pauseCh # Nil => timer'[pauseCh] = timer[pauseCh]
    BY <1>1, <1>3 DEF IInv, TypeOK
  <2>3. TypeOK' /\ WaitsForChannel' /\ ClosedOnce'
    BY <1>1, <2>1 DEF IInv, TypeOK, Times, WaitsForChannel, ClosedOnce
  <2>4. Made' /\ Current'
    BY <1>1, <2>1, <2>2 DEF IInv, TypeOK, Made, Current
  <2>5. NobodyStranded'
    <3> SUFFICES ASSUME NEW q \in Requests, pc'[q] = "waiting"
                 PROVE  \/ waitsOn'[q] \in closed'
                        \/ waitsOn'[q] = pauseCh' /\ timer'[pauseCh'] # Never
      BY DEF NobodyStranded
    <3>1. waitsOn[q] \in Channels
      BY <1>1 DEF IInv, WaitsForChannel
    <3>2. waitsOn[q] \in closed \/ (waitsOn[q] = pauseCh /\ timer[pauseCh] # Never)
      BY <1>1 DEF IInv, NobodyStranded
    <3>3. Nil \notin Channels
      BY DEF Nil, Channels
    <3> QED
      BY <1>1, <2>1, <2>2, <3>1, <3>2, <3>3
  <2> QED
    BY <2>3, <2>4, <2>5 DEF IInv
<1> QED
  BY <1>2, <1>3

\* Time keeps the goroutine of the pause and pauseUntil together.
LEMMA LessProps ==
  ASSUME NEW t \in Times
  PROVE  Less(t) \in Times /\ (Less(t) = Never <=> t = Never) /\ (t \in Nat => Less(t) \in Nat)
  BY DEF Less, Times, Never

LEMMA TickStep ==
  ASSUME IInv, Tick
  PROVE  IInv'
<1>1. /\ UNCHANGED <<pauseCh, closed, made, panicked, pc, waitsOn>>
      /\ pauseUntil' = Less(pauseUntil)
      /\ timer' = [c \in Channels |-> Less(timer[c])]
      /\ owed' = [r \in Requests |-> Less(owed[r])]
  BY DEF Tick
<1>2. /\ \A c \in Channels : timer'[c] \in Times /\ (timer'[c] = Never <=> timer[c] = Never)
      /\ pauseUntil' \in Times /\ (pauseUntil' = Never <=> pauseUntil = Never)
  BY <1>1, LessProps DEF IInv, TypeOK
<1>3. owed' \in [Requests -> Nat]
  BY <1>1, LessProps DEF IInv, TypeOK, Times
<1>4. TypeOK' /\ ClosedOnce' /\ WaitsForChannel'
  BY <1>1, <1>2, <1>3 DEF IInv, TypeOK, ClosedOnce, WaitsForChannel
<1>5. Made'
  BY <1>1, <1>2 DEF IInv, Made
<1>6. Current'
  BY <1>1, <1>2 DEF IInv, TypeOK, Current
<1>7. NobodyStranded'
  BY <1>1, <1>2 DEF IInv, NobodyStranded, WaitsForChannel
<1> QED
  BY <1>4, <1>5, <1>6, <1>7 DEF IInv

LEMMA NextIInv == IInv /\ [Next]_vars => IInv'
<1> SUFFICES ASSUME IInv, [Next]_vars PROVE IInv'
  OBVIOUS
<1>1. CASE UNCHANGED vars
  BY <1>1 DEF vars, limiter, IInv, TypeOK, Made, Current, ClosedOnce, NobodyStranded,
     WaitsForChannel
<1>2. CASE Next
  BY <1>2, RequestStep, LimitedStep, TimerStep, TickStep DEF Next
<1> QED
  BY <1>1, <1>2

-----------------------------------------------------------------------------
\* The state of the limiter and of its requests is well typed.
THEOREM TypeCorrect == Spec => []TypeOK
<1>1. IInv => TypeOK
  BY DEF IInv
<1> QED
  BY InitIInv, NextIInv, <1>1, PTL DEF Spec

\* No channel is closed twice, so PauseFor and its goroutines never panic.
THEOREM ChannelsClosedOnce == Spec => []ClosedOnce
<1>1. IInv => ClosedOnce
  BY DEF IInv
<1> QED
  BY InitIInv, NextIInv, <1>1, PTL DEF Spec

\* Every waiting request waits for a channel that is closed or will be.
THEOREM AllAreReleased == Spec => []NobodyStranded
<1>1. IInv => NobodyStranded
  BY DEF IInv
<1> QED
  BY InitIInv, NextIInv, <1>1, PTL DEF Spec

\* A pause that is on is not cut short by a later, shorter one nor by the
\* goroutine of one that was replaced.
THEOREM PausesLast == Spec => PauseNotCutShort
<1>1. ASSUME IInv, [Next]_vars
      PROVE  [pauseUntil > 0 => Tick \/ (pauseUntil' >= pauseUntil /\ pauseCh' # Nil)]_vars
  <2> SUFFICES ASSUME Next, pauseUntil > 0, ~Tick
               PROVE  pauseUntil' >= pauseUntil /\ pauseCh' # Nil
    BY <1>1
  <2>1. pauseUntil \in Nat /\ pauseCh \in Channels /\ timer[pauseCh] = pauseUntil
    BY <1>1 DEF IInv, TypeOK, Times, Current, Never
  <2>2. ASSUME UNCHANGED limiter PROVE pauseUntil' >= pauseUntil /\ pauseCh' # Nil
    BY <2>1, <2>2 DEF limiter, Channels, Nil
  <2>3. ASSUME NEW r \in Requests, RoundTrip(r) \/ Go(r) \/ Cancelled(r)
        PROVE  UNCHANGED limiter
    BY <2>3 DEF RoundTrip, Go, Cancelled, Wait, Released, Answered
  <2>4. ASSUME NEW r \in Requests, NEW d \in Durations, Limited(r, d), ~UNCHANGED limiter
        PROVE  pauseUntil' >= pauseUntil /\ pauseCh' # Nil
    <3>1. d >= pauseUntil /\ Extend(d) /\ d \in Nat
      BY <2>4, LimiterAssumption DEF Limited, PauseFor
    <3>2. pauseUntil' = d /\ pauseCh' = made + 1 /\ made \in Nat
      BY <1>1, <3>1, LimiterAssumption DEF Extend, IInv, TypeOK
    <3> QED
      BY <2>1, <3>1, <3>2 DEF Nil
  <2>5. ASSUME NEW c \in Channels, TimerFires(c)
        PROVE  pauseUntil' >= pauseUntil /\ pauseCh' # Nil
    BY <2>1, <2>5 DEF TimerFires, Channels, Nil
  <2> QED
    BY <2>2, <2>3, <2>4, <2>5 DEF Next
<1> QED
  BY InitIInv, NextIInv, <1>1, PTL DEF Spec, PauseNotCutShort
=============================================================================
