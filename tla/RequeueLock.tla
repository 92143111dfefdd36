---------------------------- MODULE RequeueLock ----------------------------
(***************************************************************************)
(* The lock of an inProgressKey of pkg/workqueue/gcs/gcs.go, between the   *)
(* goroutine that owns the key and the one that heartbeats it.  GcsQueue   *)
(* takes each of their calls to the bucket for one step; here is the       *)
(* RWMutex they take around them.  Of the bucket there are the two objects *)
(* of one key; other processes may take the key over once its lease has    *)
(* run out, as they do in GcsDispatch when it is not Timely.               *)
(***************************************************************************)
EXTENDS Naturals

CONSTANT MaxOthers   \* bound: steps of other processes

VARIABLES
  prioritized, \* the key has a priority
  op,          \* the method the owner ends its work with
  step,        \* where the owner is in it
  held,        \* read locks the owner holds
  beat,        \* where the heartbeat is
  cancelled,   \* ownerCancel was called
  queued,      \* queued/k exists
  inProgress,  \* whose object in-progress/k is
  expired,     \* the lease of the owner has run out
  others       \* steps of others so far

owner == <<prioritized, op, step, held>>
objects == <<queued, inProgress, expired>>
vars == <<owner, beat, cancelled, objects, others>>

Init ==
  /\ prioritized \in BOOLEAN
  /\ op = "none" /\ step = "running" /\ held = 0
  /\ beat = "select" /\ cancelled = FALSE
  /\ queued = FALSE /\ inProgress = "owner" /\ expired = FALSE
  /\ others = 0

Methods == {"Requeue", "RequeueWithOptions", "Complete", "Deadletter"}

-----------------------------------------------------------------------------
(* The owner. *)

\* The callback is over, and ownerCancel() comes first.
Call ==
  /\ step = "running"
  /\ op' \in Methods
  /\ step' = "RLock" /\ cancelled' = TRUE
  /\ UNCHANGED <<prioritized, held, beat, objects, others>>

(* rw.RLock: a reader waits for the writer that has the lock, and for one  *)
(* that waits for it.                                                      *)
RLock ==
  /\ step = "RLock" /\ beat \notin {"Lock", "update"}
  /\ held' = held + 1
  /\ step' = IF op \in {"Complete", "Deadletter"} THEN "delete" ELSE "copy"
  /\ UNCHANGED <<prioritized, op, beat, cancelled, objects, others>>

\* copier.Run, if queued/k does not exist.
Copy ==
  /\ step = "copy"
  /\ IF queued THEN step' = "merge" /\ UNCHANGED queued
     ELSE IF inProgress = "nobody" THEN step' = "return" /\ UNCHANGED queued
     ELSE step' = "delete" /\ queued' = TRUE
  /\ UNCHANGED <<prioritized, op, held, beat, cancelled, inProgress, expired, others>>

\* What updateMetadata merges: a delay, which RequeueWithOptions is given, or
\* the priority, which a plain Requeue keeps.  With neither it does nothing.
Merges == op = "RequeueWithOptions" \/ prioritized

(* updateMetadata of the key that is queued already.  If queued/k is gone  *)
(* by now the method calls itself, under its read lock.                    *)
Merge ==
  /\ step = "merge"
  /\ step' = IF Merges /\ ~queued THEN "RLock" ELSE "delete"
  /\ UNCHANGED <<prioritized, op, held, beat, cancelled, objects, others>>

\* Delete in-progress/k, whosever it is.
Delete ==
  /\ step = "delete"
  /\ inProgress' = "nobody" /\ step' = "return"
  /\ UNCHANGED <<prioritized, op, held, beat, cancelled, queued, expired, others>>

\* The deferred RUnlocks.
Return ==
  /\ step = "return"
  /\ held' = 0 /\ step' = "done"
  /\ UNCHANGED <<prioritized, op, beat, cancelled, objects, others>>

-----------------------------------------------------------------------------
(* startHeartbeat's goroutine. *)

\* select: a tick, also when the context is done, or the end.
Tick ==
  /\ beat = "select"
  /\ beat' = "Lock"
  /\ UNCHANGED <<owner, cancelled, objects, others>>
Stop ==
  /\ beat = "select" /\ cancelled
  /\ beat' = "stopped"
  /\ UNCHANGED <<owner, cancelled, objects, others>>

\* rw.Lock
Lock ==
  /\ beat = "Lock" /\ held = 0
  /\ beat' = "update"
  /\ UNCHANGED <<owner, cancelled, objects, others>>

\* Update, which fails if the object is another one or the context is done.
Update ==
  /\ beat = "update"
  /\ \/ /\ inProgress = "owner"
        /\ expired' = FALSE /\ beat' = "select"
        /\ UNCHANGED cancelled
     \/ /\ inProgress # "owner" \/ cancelled
        /\ beat' = "stopped" /\ cancelled' = TRUE
        /\ UNCHANGED expired
  /\ UNCHANGED <<owner, queued, inProgress, others>>

-----------------------------------------------------------------------------
(* Receivers and other dispatchers. *)
OthersStep ==
  /\ others < MaxOthers /\ others' = others + 1
  /\ \/ ~queued /\ queued' = TRUE /\ UNCHANGED <<inProgress, expired>>          \* Queue
     \/ expired' = TRUE /\ UNCHANGED <<queued, inProgress>>                     \* a stall
     \/ /\ inProgress = "owner" /\ expired /\ queued                            \* Requeue
        /\ inProgress' = "nobody" /\ UNCHANGED <<queued, expired>>
     \/ /\ inProgress = "nobody" /\ queued                                      \* Start
        /\ inProgress' = "another" /\ UNCHANGED <<queued, expired>>
     \/ /\ inProgress = "another" /\ queued
        /\ queued' = FALSE /\ UNCHANGED <<inProgress, expired>>
  /\ UNCHANGED <<owner, beat, cancelled>>

-----------------------------------------------------------------------------
Owner == RLock \/ Copy \/ Merge \/ Delete \/ Return
Heartbeat == Stop \/ Lock \/ Update

Next == Call \/ Owner \/ Tick \/ Heartbeat \/ OthersStep

\* Goroutines run, and an RWMutex lets waiting readers in when a writer unlocks.
Spec == Init /\ [][Next]_vars /\ SF_vars(Owner) /\ WF_vars(Heartbeat)

\* interface.go 75-79: "Requeue returns this key to the queue": a call of an
\* owner's Requeue, Complete or Deadletter comes to its end.
OwnerReturns == step = "RLock" ~> step = "done"
=============================================================================
