----------------------- MODULE DispatchHandlerProofs -----------------------
(***************************************************************************)
(* The safety of DispatchHandler for any set of requests and any number of *)
(* failures.  NoTriggerLost is not inductive alone: a request may only be  *)
(* deduplicated because whoever holds doWait has not begun its scan, so    *)
(* the locks must be tied to the program counters (LocksMatch), and a scan *)
(* in progress must cover the request that runs it (ScanCoversSelf).       *)
(***************************************************************************)
EXTENDS DispatchHandler, TLAPS

LocksMatch ==
  \A r \in Requests :
    /\ r \in doWork <=> pc[r] \in {"vacate", "locked", "scanning"}
    /\ r \in doWait <=> pc[r] \in {"waiting", "vacate"}

ScanCoversSelf ==
  \A r \in Requests :
    /\ pc[r] = "scanning" /\ r \in owed => r \in scope[r]
    /\ pc[r] = "launched" => r \notin owed

IInv == TypeOK /\ LocksMatch /\ ScanCoversSelf /\ OkWasScanned /\ NoTriggerLost

LEMMA InitIInv == Init => IInv
  BY HandlerAssumption
  DEF Init, IInv, TypeOK, Mutex, States, LocksMatch, ScanCoversSelf,
      OkWasScanned, NoTriggerLost

\* Every step keeps IInv: one step per action of Next.
LEMMA NextIInv == IInv /\ [Next]_vars => IInv'
<1> SUFFICES ASSUME IInv, [Next]_vars PROVE IInv'
  OBVIOUS
<1> USE HandlerAssumption
    DEF IInv, TypeOK, Mutex, States, LocksMatch, ScanCoversSelf, OkWasScanned,
        NoTriggerLost, Goto
<1>1. ASSUME NEW r \in Requests, Arrive(r) PROVE IInv'
  BY <1>1 DEF Arrive
<1>2. ASSUME NEW r \in Requests, TryWork(r) PROVE IInv'
  BY <1>2 DEF TryWork
<1>3. ASSUME NEW r \in Requests, WorkBusy(r) PROVE IInv'
  BY <1>3 DEF WorkBusy
<1>4. ASSUME NEW r \in Requests, EnterWaitingRoom(r) PROVE IInv'
  BY <1>4 DEF EnterWaitingRoom
<1>5. ASSUME NEW r \in Requests, Deduplicate(r) PROVE IInv'
  BY <1>5 DEF Deduplicate
<1>6. ASSUME NEW r \in Requests, LockWork(r) PROVE IInv'
  BY <1>6 DEF LockWork
<1>7. ASSUME NEW r \in Requests, VacateWaitingRoom(r) PROVE IInv'
  BY <1>7 DEF VacateWaitingRoom
<1>8. ASSUME NEW r \in Requests, BeginScan(r) PROVE IInv'
  BY <1>8 DEF BeginScan
<1>9. ASSUME NEW r \in Requests, Launch(r) PROVE IInv'
  BY <1>9 DEF Launch
<1>10. ASSUME NEW r \in Requests, ScanFails(r) PROVE IInv'
  BY <1>10 DEF ScanFails
<1>11. ASSUME NEW r \in Requests, RoundSucceeds(r) PROVE IInv'
  BY <1>11 DEF RoundSucceeds
<1>12. ASSUME NEW r \in Requests, RoundFails(r) PROVE IInv'
  BY <1>12 DEF RoundFails
<1>13. CASE Crash
  BY <1>13 DEF Crash
<1>14. CASE UNCHANGED vars
  BY <1>14 DEF vars
<1> QED
  BY <1>1, <1>2, <1>3, <1>4, <1>5, <1>6, <1>7, <1>8, <1>9, <1>10, <1>11,
     <1>12, <1>13, <1>14 DEF Next, ServeHTTP

THEOREM IInvHolds == Spec => []IInv
<1>1. Init => IInv
  BY InitIInv
<1>2. IInv /\ [Next]_vars => IInv'
  BY NextIInv
<1> QED
  BY <1>1, <1>2, PTL DEF Spec

\* Type correctness, with both locks held by at most one request
\* (handler.go 39-58).
THEOREM TypeCorrect == Spec => []TypeOK
<1>1. IInv => TypeOK
  BY DEF IInv
<1> QED
  BY <1>1, IInvHolds, PTL

\* Two requests are never between doWork.Lock and its deferred Unlock.
THEOREM DispatchIsExclusive == Spec => []OneRoundLaunches
<1>1. IInv => OneRoundLaunches
  BY DEF IInv, TypeOK, Mutex, LocksMatch, OneRoundLaunches, Dispatching
<1> QED
  BY <1>1, IInvHolds, PTL

\* Answering 200 to a burst loses no trigger, for any number of requests.
THEOREM CoalescingIsSafe == Spec => []NoTriggerLost
<1>1. IInv => NoTriggerLost
  BY DEF IInv
<1> QED
  BY <1>1, IInvHolds, PTL

\* A round's 200 is never given for a scan that failed.
THEOREM OkIsHonest == Spec => []OkWasScanned
<1>1. IInv => OkWasScanned
  BY DEF IInv
<1> QED
  BY <1>1, IInvHolds, PTL
=============================================================================
