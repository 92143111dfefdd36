----------------------------- MODULE InMemQueue -----------------------------
(***************************************************************************)
(* The in-memory workqueue, pkg/workqueue/inmem/inmem.go.  Every operation *)
(* holds the write lock from start to end, so each is one step.            *)
(*                                                                         *)
(* Times are kept as what is left of them: item[k].wait is the time until  *)
(* k's NotBefore, 0 once it has passed, and passing time lowers it.  The   *)
(* queued timestamps only break ties; older[k] keeps their order as the    *)
(* set of queued keys that were queued before k.                           *)
(***************************************************************************)
EXTENDS Integers, FiniteSets

CONSTANTS
  Keys,
  Priorities,      \* priorities callers give
  BackoffPeriod,   \* interface.go: unit of backoff after a failure
  MaximumBackoff,  \* interface.go: cap of the backoff
  RequeueDelay     \* delay a callback asks for with RequeueAfter

ASSUME QueueAssumption ==
  /\ Priorities \subseteq Int
  /\ BackoffPeriod \in Nat
  /\ MaximumBackoff \in Nat
  /\ RequeueDelay \in Nat \ {0}

VARIABLES
  queue,   \* keys in the queue map
  item,    \* item[k]: the queueItem of k, NoItem when k is not queued
  older,   \* older[k]: queued keys with an earlier timestamp than k
  wip      \* keys in the wip map

queueVars == <<queue, item, older, wip>>

Smaller(a, b) == IF a < b THEN a ELSE b
Larger(a, b) == IF a < b THEN b ELSE a

NoItem == [prio |-> 0, wait |-> 0, attempts |-> 0]

QueueInit ==
  /\ queue = {}
  /\ item = [k \in Keys |-> NoItem]
  /\ older = [k \in Keys |-> {}]
  /\ wip = {}

\* w.queue[k] = it, for a k that is not in the map.
Insert(k, it) ==
  /\ queue' = queue \union {k}
  /\ item' = [item EXCEPT ![k] = it]
  /\ older' = [older EXCEPT ![k] = queue]

\* w.queue[k] = it, for a k that is: the timestamp stays.
Replace(k, it) ==
  /\ item' = [item EXCEPT ![k] = it]
  /\ UNCHANGED <<queue, older>>

\* Mistake: the others keep k among the keys queued before them.
RemoveKeepsAge(k) ==
  /\ queue' = queue \ {k}
  /\ item' = [item EXCEPT ![k] = NoItem]
  /\ older' = [older EXCEPT ![k] = {}]

\* delete(w.queue, k).
Remove(k) ==
  /\ queue' = queue \ {k}
  /\ item' = [item EXCEPT ![k] = NoItem]
  /\ older' = [j \in Keys |-> IF j = k THEN {} ELSE older[j] \ {k}]

(* Queue: insert, or merge into the queued item.  A raised priority hides *)
(* a later NotBefore of the same call: the second test is an else-if.     *)
Queue(k, prio, wait) ==
  /\ IF k \notin queue
     THEN Insert(k, [prio |-> prio, wait |-> wait, attempts |-> 0])
     ELSE IF item[k].prio < prio
     THEN Replace(k, [item[k] EXCEPT !.prio = prio])
     ELSE Replace(k, [item[k] EXCEPT !.wait = Larger(@, wait)])
  /\ UNCHANGED wip

\* Enumerate: the keys whose NotBefore has passed, by priority then age.
Ready == {k \in queue : item[k].wait = 0}

Before == {p \in Keys \X Keys :
  \/ item[p[1]].prio > item[p[2]].prio
  \/ item[p[1]].prio = item[p[2]].prio /\ p[1] \in older[p[2]]}

\* Mistake: Start does not look at wip.
StartUnchecked(k) ==
  /\ k \in queue
  /\ Remove(k)
  /\ wip' = wip \union {k}

(* Start succeeds: it fails, changing nothing, when k is in progress or   *)
(* has left the queue since it was enumerated.                            *)
Start(k) ==
  /\ k \notin wip
  /\ k \in queue
  /\ Remove(k)
  /\ wip' = wip \union {k}

StartFails(k) == k \in wip \/ k \notin queue

\* The NotBefore of a requeue, as time from now.
RequeueWait(prio, attempts, delay) ==
  IF delay > 0 THEN delay
  ELSE IF prio > 0 THEN Smaller(attempts * BackoffPeriod, MaximumBackoff)
  ELSE 0

\* Mistake: the key leaves wip and is not put back.
RequeueForgets(k, prio, attempts, delay) ==
  /\ wip' = wip \ {k}
  /\ UNCHANGED <<queue, item, older>>

\* Mistake: the item queued meanwhile is replaced.
RequeueOverwrites(k, prio, attempts, delay) ==
  /\ LET it == [prio |-> prio, wait |-> RequeueWait(prio, attempts, delay),
                attempts |-> attempts] IN
     IF k \notin queue THEN Insert(k, it) ELSE Replace(k, it)
  /\ wip' = wip \ {k}

(* RequeueWithOptions: insert with the attempts so far, or merge into the *)
(* item queued meanwhile, whose own attempts stay.  delay = 0 for none.   *)
RequeueWithOptions(k, prio, attempts, delay) ==
  /\ LET wait == RequeueWait(prio, attempts, delay) IN
     IF k \notin queue
     THEN Insert(k, [prio |-> prio, wait |-> wait, attempts |-> attempts])
     ELSE Replace(k, [item[k] EXCEPT !.prio = Larger(@, prio),
                                     !.wait = Larger(@, wait)])
  /\ wip' = wip \ {k}

\* Mistake: Complete cancels the context and forgets the wip map.
CompleteKeepsWip(k) == UNCHANGED queueVars

(* Complete and Deadletter only take the key out of wip. *)
Complete(k) == wip' = wip \ {k} /\ UNCHANGED <<queue, item, older>>
Deadletter(k) == wip' = wip \ {k} /\ UNCHANGED <<queue, item, older>>

\* Time passes for the queued items.
QueueTick ==
  /\ item' = [k \in Keys |-> [item[k] EXCEPT !.wait = IF @ = 0 THEN 0 ELSE @ - 1]]
  /\ UNCHANGED <<queue, older, wip>>

QueueTypeOK(Attempts) ==
  /\ queue \subseteq Keys
  /\ item \in [Keys -> [prio : Priorities \union {0}, wait : Nat, attempts : Attempts]]
  /\ older \in [Keys -> SUBSET queue]
  /\ wip \subseteq Keys
=============================================================================
