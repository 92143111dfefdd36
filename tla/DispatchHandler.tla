-------------------------- MODULE DispatchHandler --------------------------
(***************************************************************************)
(* The HTTP front of the dispatcher: pkg/workqueue/dispatcher/handler.go.  *)
(*                                                                         *)
(* Every request asks for one round of dispatching.  Two mutexes coalesce  *)
(* bursts: doWork is held while a round scans the queue and launches keys, *)
(* doWait by the single request that waits for doWork.  A request that     *)
(* finds both taken is answered 200 at once and relies on the waiting one. *)
(*                                                                         *)
(* "owed" is an auxiliary variable: the requests no scan that began after  *)
(* their arrival has answered yet.  It says what coalescing must not lose. *)
(***************************************************************************)
EXTENDS Naturals, FiniteSets

CONSTANTS
  Requests,      \* deliveries of the object-change subscription and the cron
  MaxFailures    \* bound: failed scans, panics, failed rounds and crashes

ASSUME HandlerAssumption == MaxFailures \in Nat

VARIABLES
  pc,        \* pc[r]: where request r is in ServeHTTP
  doWork,    \* the requests that hold doWork
  doWait,    \* the requests that hold doWait
  scope,     \* scope[r]: the requests that had arrived when r began its scan
  owed,      \* auxiliary: requests not covered by a successful scan yet
  failures   \* failures so far, at most MaxFailures

vars == <<pc, doWork, doWait, scope, owed, failures>>

States == {"idle", "arrived", "waitingRoom", "waiting", "vacate", "locked",
           "scanning", "launched", "ok", "deduplicated", "failed"}

\* Requests inside the section that doWork protects.
Dispatching == {r \in Requests : pc[r] \in {"vacate", "locked", "scanning"}}

Goto(r, label) == pc' = [pc EXCEPT ![r] = label]

Init ==
  /\ pc = [r \in Requests |-> "idle"]
  /\ doWork = {}
  /\ doWait = {}
  /\ scope = [r \in Requests |-> {}]
  /\ owed = {}
  /\ failures = 0

-----------------------------------------------------------------------------
(* The environment delivers a request, again when the last answer was 500. *)
Arrive(r) ==
  /\ pc[r] \in {"idle", "failed"}
  /\ Goto(r, "arrived")
  /\ owed' = owed \union {r}
  /\ UNCHANGED <<doWork, doWait, scope, failures>>

\* Mistake: TryLock that does not look whether the lock is taken.
TryWorkUnchecked(r) ==
  /\ pc[r] = "arrived"
  /\ doWork' = doWork \union {r}
  /\ Goto(r, "locked")
  /\ UNCHANGED <<doWait, scope, owed, failures>>

(* doWork.TryLock() succeeds: the request dispatches without waiting. *)
TryWork(r) ==
  /\ pc[r] = "arrived"
  /\ doWork = {}
  /\ doWork' = doWork \union {r}
  /\ Goto(r, "locked")
  /\ UNCHANGED <<doWait, scope, owed, failures>>

(* doWork.TryLock() fails.  It fails when the lock is taken, and Go also   *)
(* lets it fail on a free lock that a blocked Lock() is about to be given. *)
WorkBusy(r) ==
  /\ pc[r] = "arrived"
  /\ doWork # {} \/ \E w \in Requests : pc[w] = "waiting"
  /\ Goto(r, "waitingRoom")
  /\ UNCHANGED <<doWork, doWait, scope, owed, failures>>

(* doWait.TryLock() succeeds: the request occupies the waiting room. *)
EnterWaitingRoom(r) ==
  /\ pc[r] = "waitingRoom"
  /\ doWait = {}
  /\ doWait' = doWait \union {r}
  /\ Goto(r, "waiting")
  /\ UNCHANGED <<doWork, scope, owed, failures>>

(* doWait.TryLock() fails: answered 200, the occupant's round stands in. *)
Deduplicate(r) ==
  /\ pc[r] = "waitingRoom"
  /\ doWait # {}
  /\ Goto(r, "deduplicated")
  /\ UNCHANGED <<doWork, doWait, scope, owed, failures>>

(* doWork.Lock() returns to the occupant. *)
LockWork(r) ==
  /\ pc[r] = "waiting"
  /\ doWork = {}
  /\ doWork' = doWork \union {r}
  /\ Goto(r, "vacate")
  /\ UNCHANGED <<doWait, scope, owed, failures>>

\* Mistake: the occupant never leaves the waiting room.
VacateForgotten(r) ==
  /\ pc[r] = "vacate"
  /\ Goto(r, "locked")
  /\ UNCHANGED <<doWork, doWait, scope, owed, failures>>

(* doWait.Unlock(), before the round begins. *)
VacateWaitingRoom(r) ==
  /\ pc[r] = "vacate"
  /\ doWait' = doWait \ {r}
  /\ Goto(r, "locked")
  /\ UNCHANGED <<doWork, scope, owed, failures>>

\* Mistake: doWork is released before HandleAsync, not after it.
BeginScanUnlocked(r) ==
  /\ pc[r] = "locked"
  /\ scope' = [scope EXCEPT ![r] = owed]
  /\ doWork' = doWork \ {r}
  /\ Goto(r, "scanning")
  /\ UNCHANGED <<doWait, owed, failures>>

(* HandleAsync calls Enumerate: the listing starts now and ends later. *)
BeginScan(r) ==
  /\ pc[r] = "locked"
  /\ scope' = [scope EXCEPT ![r] = owed]
  /\ Goto(r, "scanning")
  /\ UNCHANGED <<doWork, doWait, owed, failures>>

(* The listing succeeds; HandleAsync launches its goroutines and returns   *)
(* the future, and the deferred doWork.Unlock() runs.                      *)
Launch(r) ==
  /\ pc[r] = "scanning"
  /\ owed' = owed \ scope[r]
  /\ scope' = [scope EXCEPT ![r] = {}]
  /\ doWork' = doWork \ {r}
  /\ Goto(r, "launched")
  /\ UNCHANGED <<doWait, failures>>

\* Mistake: the error of Enumerate is dropped and the answer is 200.
ScanErrorDropped(r) ==
  /\ pc[r] \in {"locked", "scanning"}
  /\ failures < MaxFailures
  /\ failures' = failures + 1
  /\ scope' = [scope EXCEPT ![r] = {}]
  /\ doWork' = doWork \ {r}
  /\ Goto(r, "ok")
  /\ UNCHANGED <<doWait, owed>>

\* Mistake: Unlock without defer, skipped when HandleAsync panics.
ScanFailsLocked(r) ==
  /\ pc[r] \in {"locked", "scanning"}
  /\ failures < MaxFailures
  /\ failures' = failures + 1
  /\ scope' = [scope EXCEPT ![r] = {}]
  /\ Goto(r, "failed")
  /\ UNCHANGED <<doWork, doWait, owed>>

(* The listing fails (the future returns its error) or HandleAsync panics: *)
(* doWork is released by the defer and the request is answered 500.        *)
ScanFails(r) ==
  /\ pc[r] \in {"locked", "scanning"}
  /\ failures < MaxFailures
  /\ failures' = failures + 1
  /\ scope' = [scope EXCEPT ![r] = {}]
  /\ doWork' = doWork \ {r}
  /\ Goto(r, "failed")
  /\ UNCHANGED <<doWait, owed>>

(* future() returns nil: every key the round launched has been dealt with. *)
RoundSucceeds(r) ==
  /\ pc[r] = "launched"
  /\ Goto(r, "ok")
  /\ UNCHANGED <<doWork, doWait, scope, owed, failures>>

(* future() returns the error of one of the round's goroutines. *)
RoundFails(r) ==
  /\ pc[r] = "launched"
  /\ failures < MaxFailures
  /\ failures' = failures + 1
  /\ Goto(r, "failed")
  /\ UNCHANGED <<doWork, doWait, scope, owed>>

(* The instance dies: its locks are gone and what it had not answered has  *)
(* failed.  What it had answered stays answered.                           *)
Crash ==
  /\ failures < MaxFailures
  /\ failures' = failures + 1
  /\ pc' = [r \in Requests |->
              IF pc[r] \in {"idle", "ok", "deduplicated"} THEN pc[r] ELSE "failed"]
  /\ doWork' = {}
  /\ doWait' = {}
  /\ scope' = [r \in Requests |-> {}]
  /\ UNCHANGED owed

ServeHTTP(r) ==
  \/ TryWork(r) \/ WorkBusy(r)
  \/ EnterWaitingRoom(r) \/ Deduplicate(r)
  \/ LockWork(r) \/ VacateWaitingRoom(r)
  \/ BeginScan(r) \/ Launch(r) \/ RoundSucceeds(r)

Next ==
  \/ \E r \in Requests : Arrive(r) \/ ServeHTTP(r) \/ ScanFails(r) \/ RoundFails(r)
  \/ Crash

Spec == Init /\ [][Next]_vars

(***************************************************************************)
(* Fairness.  A goroutine that can run runs.  A blocked Lock() gets the    *)
(* mutex although others TryLock it in between: after 1ms Go hands the     *)
(* mutex over to the waiter, hence SF.  A failed push is redelivered.      *)
(***************************************************************************)
Fairness ==
  \A r \in Requests :
    /\ WF_vars(ServeHTTP(r))
    /\ SF_vars(LockWork(r))
    /\ WF_vars(pc[r] = "failed" /\ Arrive(r))

FairSpec == Spec /\ Fairness

-----------------------------------------------------------------------------
\* A mutex is free or has one holder.
Mutex(lock) == lock \subseteq Requests /\ \A r, s \in lock : r = s

TypeOK ==
  /\ pc \in [Requests -> States]
  /\ Mutex(doWork)
  /\ Mutex(doWait)
  /\ scope \in [Requests -> SUBSET Requests]
  /\ owed \subseteq Requests
  /\ failures \in 0..MaxFailures

\* Two rounds never scan and launch at the same time, so that none counts
\* the open slots of a queue another round is filling (HandleAsync under
\* doWork, handler.go 61-66).
OneRoundLaunches == \A r, s \in Dispatching : r = s

\* A request that was answered 200 without a round of its own, and that no
\* scan has covered yet, is covered by someone: the request in the waiting
\* room or one about to scan, a scan that began after it arrived, or, after a
\* failure, a request that is delivered again.  This is the "isn't really a
\* risk of data loss" of handler.go 54: breaking it leaves a key in the bucket
\* with no dispatch to come.
NoTriggerLost ==
  \A r \in owed : pc[r] = "deduplicated" =>
    \E w \in Requests :
      \/ pc[w] \in {"waiting", "vacate", "locked"}
      \/ pc[w] = "scanning" /\ r \in scope[w]
      \/ failures > 0 /\ pc[w] \in {"failed", "arrived", "waitingRoom"}

\* A request that ran its own round and was answered 200 has been scanned
\* for: a 200 never hides a listing that failed (handler.go 70-74).
OkWasScanned == \A r \in Requests : pc[r] = "ok" => r \notin owed

\* Every request that arrives is followed by a successful scan that began
\* after it arrived, whatever is deduplicated, overtaken, failed or crashed
\* on the way.
EveryTriggerScanned == \A r \in Requests : r \in owed ~> r \notin owed
=============================================================================
