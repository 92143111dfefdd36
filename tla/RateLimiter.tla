----------------------------- MODULE RateLimiter -----------------------------
(***************************************************************************)
(* The pause that the requests of one GitHub client share:                 *)
(* SecondaryRateLimitWaiter, modules/github-bots/sdk/ratelimit.go.         *)
(*                                                                         *)
(* A response that says "rate limited" begins a pause, or extends the one  *)
(* that is on.  Requests wait for the end of a pause on a channel that is  *)
(* closed then.  Every pause has a channel of its own and a goroutine that *)
(* closes it; an extension closes the channel of the pause it replaces.    *)
(*                                                                         *)
(* Times are what is left of them.  The zero time of pauseUntil is Never,  *)
(* which is before every time.                                             *)
(***************************************************************************)
EXTENDS Integers

CONSTANTS
  Requests,
  Durations,   \* waits that responses ask for, 0 for a reset time gone by
  MaxPauses    \* bound: pauses and extensions, a channel each

ASSUME LimiterAssumption == Durations \subseteq Nat /\ MaxPauses \in Nat

Channels == 1..MaxPauses
Nil == 0
Never == -1

VARIABLES
  pauseUntil,  \* time left until then, Never for the zero time
  pauseCh,     \* the channel of the pause, or Nil
  closed,      \* the channels that are closed
  made,        \* channels made so far, at most MaxPauses
  timer,       \* timer[c]: time left for the goroutine of c, Never when it has none
  pc, waitsOn, \* where request r is, and the channel it waits on
  panicked,    \* a channel was closed twice
  owed         \* auxiliary: time left until the time the last response gave

limiter == <<pauseUntil, pauseCh, closed, made, timer, panicked>>
vars == <<limiter, pc, waitsOn, owed>>

Init ==
  /\ pauseUntil = Never /\ pauseCh = Nil
  /\ closed = {} /\ made = 0 /\ panicked = FALSE
  /\ timer = [c \in Channels |-> Never]
  /\ pc = [r \in Requests |-> "idle"]
  /\ waitsOn = [r \in Requests |-> Nil]
  /\ owed = [r \in Requests |-> 0]

Goto(r, label) == pc' = [pc EXCEPT ![r] = label]

-----------------------------------------------------------------------------
(* A request begins: RoundTrip. *)
RoundTrip(r) ==
  /\ pc[r] = "idle"
  /\ Goto(r, "start")
  /\ owed' = [owed EXCEPT ![r] = 0]
  /\ UNCHANGED <<limiter, waitsOn>>

(* Wait: take the channel of the pause under the lock, wait if there is one. *)
Wait(r) ==
  /\ pc[r] = "start"
  /\ waitsOn' = [waitsOn EXCEPT ![r] = pauseCh]
  /\ Goto(r, IF pauseCh = Nil THEN "sent" ELSE "waiting")
  /\ UNCHANGED <<limiter, owed>>

(* The channel is closed.  The limiter below it lets everything pass. *)
Released(r) ==
  /\ pc[r] = "waiting"
  /\ waitsOn[r] \in closed
  /\ Goto(r, "sent")
  /\ UNCHANGED <<limiter, waitsOn, owed>>

(* The context of the request ends. *)
Cancelled(r) ==
  /\ pc[r] = "waiting"
  /\ Goto(r, "idle")
  /\ UNCHANGED <<limiter, waitsOn, owed>>

(* Any other response, or an error. *)
Answered(r) ==
  /\ pc[r] = "sent"
  /\ Goto(r, "idle")
  /\ UNCHANGED <<limiter, waitsOn, owed>>

\* Mistake: the channel of the pause that is replaced stays open.
ExtendLeavesWaiters(d) ==
  /\ made < MaxPauses
  /\ pauseUntil' = d
  /\ pauseCh' = made + 1
  /\ made' = made + 1
  /\ timer' = [timer EXCEPT ![made + 1] = d]
  /\ UNCHANGED <<closed, panicked>>

(* PauseFor, for a time after pauseUntil. *)
Extend(d) ==
  /\ made < MaxPauses
  /\ pauseUntil' = d
  /\ closed' = closed \union ({pauseCh} \ {Nil})
  /\ panicked' = (panicked \/ pauseCh \in closed)
  /\ pauseCh' = made + 1
  /\ made' = made + 1
  /\ timer' = [timer EXCEPT ![made + 1] = d]

\* Mistake: the last response decides, also when it asks for less.
PauseForLast(d) == Extend(d)

(* Which of two times in the same tick is the later one is left open. *)
PauseFor(d) ==
  \/ d >= pauseUntil /\ Extend(d)
  \/ d <= pauseUntil /\ UNCHANGED limiter

(* A response that says rate limited: pause, and try again. *)
Limited(r, d) ==
  /\ pc[r] = "sent"
  /\ PauseFor(d)
  /\ Goto(r, "start")
  /\ owed' = [owed EXCEPT ![r] = d]
  /\ UNCHANGED waitsOn

\* Mistake: the goroutine does not look whether its pause was replaced.
TimerFiresUnchecked(c) ==
  /\ timer[c] = 0
  /\ timer' = [timer EXCEPT ![c] = Never]
  /\ closed' = closed \union {c} /\ panicked' = (panicked \/ c \in closed)
  /\ pauseCh' = Nil /\ pauseUntil' = Never
  /\ UNCHANGED <<made, pc, waitsOn, owed>>

(* The goroutine of c: end the pause if it still is the one of c. *)
TimerFires(c) ==
  /\ timer[c] = 0
  /\ timer' = [timer EXCEPT ![c] = Never]
  /\ \/ /\ c = pauseCh
        /\ closed' = closed \union {c} /\ panicked' = (panicked \/ c \in closed)
        /\ pauseCh' = Nil /\ pauseUntil' = Never
     \/ /\ c # pauseCh
        /\ UNCHANGED <<closed, panicked, pauseCh, pauseUntil>>
  /\ UNCHANGED <<made, pc, waitsOn, owed>>

\* Mistake: a timer that has fired goes on.
LessForever(t) == t - 1

Less(t) == IF t > 0 THEN t - 1 ELSE t

Tick ==
  /\ pauseUntil' = Less(pauseUntil)
  /\ timer' = [c \in Channels |-> Less(timer[c])]
  /\ owed' = [r \in Requests |-> Less(owed[r])]
  /\ UNCHANGED <<pauseCh, closed, made, panicked, pc, waitsOn>>

Go(r) == Wait(r) \/ Released(r) \/ Answered(r)

Next ==
  \/ \E r \in Requests :
       RoundTrip(r) \/ Go(r) \/ Cancelled(r) \/ \E d \in Durations : Limited(r, d)
  \/ \E c \in Channels : TimerFires(c)
  \/ Tick

Spec == Init /\ [][Next]_vars

(***************************************************************************)
(* Fairness: requests that can go on do and are answered, time passes, and *)
(* the goroutine of a timer runs once the timer has fired.                 *)
(***************************************************************************)
Fairness ==
  /\ \A r \in Requests : WF_vars(Go(r))
  /\ \A c \in Channels : WF_vars(TimerFires(c))
  /\ WF_vars(Tick)

FairSpec == Spec /\ Fairness

-----------------------------------------------------------------------------
Times == Nat \union {Never}

TypeOK ==
  /\ pauseUntil \in Times /\ pauseCh \in Channels \union {Nil}
  /\ closed \subseteq Channels /\ made \in 0..MaxPauses /\ panicked \in BOOLEAN
  /\ timer \in [Channels -> Times]
  /\ pc \in [Requests -> {"idle", "start", "waiting", "sent"}]
  /\ waitsOn \in [Requests -> Channels \union {Nil}]
  /\ owed \in [Requests -> Nat]

\* close panics on a closed channel.  An extension and the goroutine of the
\* pause it replaces both mean to close the same one (ratelimit.go 161, 172):
\* exactly one of them does, whichever is first.
ClosedOnce == ~panicked

\* A request that waits does so on the channel of the current pause, which
\* some goroutine is still going to close, or on one that is closed: no
\* replacement of one pause by another leaves a request behind.
NobodyStranded ==
  \A r \in Requests : pc[r] = "waiting" =>
    waitsOn[r] \in closed \/ (waitsOn[r] = pauseCh /\ timer[pauseCh] # Never)

\* A pause only ends by time: no shorter pause asked for later and no
\* goroutine of a pause that was replaced cuts it short, so that a request
\* that begins meanwhile waits (ratelimit.go 158, 171).
PauseNotCutShort ==
  [][pauseUntil > 0 => Tick \/ (pauseUntil' >= pauseUntil /\ pauseCh' # Nil)]_vars

\* Every request returns, once GitHub stops limiting.
EveryRequestReturns == \A r \in Requests : pc[r] = "start" ~> pc[r] = "idle"

\* The comment on x-ratelimit-reset, ratelimit.go 93: don't retry until after
\* the time specified.  A request is not sent before the time that its last
\* response gave.
RetriesInTime == \A r \in Requests : pc[r] = "sent" => owed[r] = 0
=============================================================================
