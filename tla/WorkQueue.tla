----------------------------- MODULE WorkQueue -----------------------------
(***************************************************************************)
(* What pkg/workqueue/interface.go promises, with no implementation: a key *)
(* is queued at most once, and in progress at most once, under one owner   *)
(* that keeps it until it completes, dead-letters or requeues it.  The     *)
(* same key may be queued again while it is in progress.                   *)
(*                                                                         *)
(* An owner is whoever called Start with success.  An owner that is gone   *)
(* leaves the key orphaned until somebody requeues it.                     *)
(***************************************************************************)
CONSTANTS
  Keys,
  Owners     \* whoever may call Start

VARIABLES
  queued,      \* keys waiting to be processed
  inProgress,  \* keys being processed, or orphaned
  owns         \* pairs <<w, k>>: w owns k

vars == <<queued, inProgress, owns>>

Init ==
  /\ queued = {}
  /\ inProgress = {}
  /\ owns = {}

\* Interface.Queue, also for a key that is already queued or in progress.
Queue(k) ==
  /\ queued' = queued \union {k}
  /\ UNCHANGED <<inProgress, owns>>

\* QueuedKey.Start: nobody else may be processing the key.
Start(k, w) ==
  /\ k \in queued
  /\ k \notin inProgress
  /\ queued' = queued \ {k}
  /\ inProgress' = inProgress \union {k}
  /\ owns' = owns \union {<<w, k>>}

\* OwnedInProgressKey.Complete and Deadletter.
Finish(k, w) ==
  /\ <<w, k>> \in owns
  /\ inProgress' = inProgress \ {k}
  /\ owns' = owns \ {<<w, k>>}
  /\ UNCHANGED queued

\* Nobody owns k any more although it is in progress.
Orphaned(k) == k \in inProgress /\ \A w \in Owners : <<w, k>> \notin owns

\* InProgressKey.Requeue, by the owner, or by anyone when there is none.
Requeue(k, w) ==
  /\ <<w, k>> \in owns \/ Orphaned(k)
  /\ queued' = queued \union {k}
  /\ inProgress' = inProgress \ {k}
  /\ owns' = owns \ {<<w, k>>}

\* The owner is gone and leaves the key in progress; one that had not finished
\* its Start leaves it queued as well.
Abandon(k, w) ==
  /\ <<w, k>> \in owns
  /\ owns' = owns \ {<<w, k>>}
  /\ queued' \in {queued, queued \union {k}}
  /\ UNCHANGED inProgress

Next ==
  \E k \in Keys :
    \/ Queue(k)
    \/ \E w \in Owners : Start(k, w) \/ Finish(k, w) \/ Requeue(k, w) \/ Abandon(k, w)

Spec == Init /\ [][Next]_vars

-----------------------------------------------------------------------------
TypeOK ==
  /\ queued \subseteq Keys
  /\ inProgress \subseteq Keys
  /\ owns \subseteq Owners \X Keys

\* interface.go 91: the key is owned "until it completes": an owned key is in
\* progress, and it has one owner.
OwnedUntilDone ==
  /\ \A p \in owns : p[2] \in inProgress
  /\ \A p, q \in owns : p[2] = q[2] => p = q
=============================================================================
