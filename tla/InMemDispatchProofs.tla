------------------------ MODULE InMemDispatchProofs ------------------------
(***************************************************************************)
(* The safety of the in-memory workqueue under the dispatcher, for any     *)
(* keys, rounds, priorities and limits.                                    *)
(*                                                                         *)
(* Everything rests on one fact: wip is exactly the set of keys some round *)
(* runs, and no two rounds run the same key (OneOwnerPerKey).  Start keeps *)
(* it because it refuses a key in wip; Complete, Deadletter and Requeue    *)
(* keep it because the goroutine that calls them is the key's only owner.  *)
(*                                                                         *)
(* The limit on goroutines rests on it too: when a round finds those of    *)
(* all the others started, wip counts every one of them (ConcurrencyIsKept *)
(* needs Finite beside it, for a cardinality to be a number).              *)
(*                                                                         *)
(* Options are kept (OptionsAreKept) because a key that waits for a        *)
(* callback is in the queue, so that whoever asks for it merges.  Slots    *)
(* are filled (SlotsAreFilled) because a round passes over no more keys    *)
(* than are in progress, and these have taken slots themselves.            *)
(***************************************************************************)
EXTENDS InMemDispatch, FiniteSetTheorems, TLAPS

Items == [prio : Priorities \union {0}, wait : Nat, attempts : Nat]

Tasks == [pc : {"idle", "launched", "running"}, prio : Priorities \union {0}, attempts : Nat]

Options == [prio : Priorities \union {0}, wait : Nat]

\* The queue's part of TypeOK; an attempt count in the queue or in a round's
\* snapshot leaves room for the attempt that Start adds.
QueueTypes ==
  /\ queue \subseteq Keys
  /\ item \in [Keys -> Items]
  /\ older \in [Keys -> SUBSET queue]
  /\ wip \subseteq Keys
  /\ \A k \in Keys : item[k].attempts < MaxAttempts

TaskTypes ==
  /\ task \in [Rounds -> [Keys -> Tasks]]
  /\ \A h \in Rounds, k \in Keys :
       /\ task[h][k].pc # "running" => task[h][k].attempts < MaxAttempts
       /\ task[h][k].attempts <= MaxAttempts

Types ==
  /\ QueueTypes
  /\ TaskTypes
  /\ queues \in 0..MaxQueues
  /\ unserved \subseteq Keys
  /\ due \in [Keys -> Options]
  /\ settled \in BOOLEAN

\* The wait a requeue computes is a time from now, for any priority.
LEMMA RequeueWaitType ==
  ASSUME NEW prio \in Int, NEW attempts \in Nat, NEW delay \in Nat
  PROVE  RequeueWait(prio, attempts, delay) \in Nat
  BY QueueAssumption DEF RequeueWait, Smaller

\* The priorities that are kept are integers, so that they can be compared.
LEMMA PrioritiesAreInts ==
  ASSUME NEW p \in Priorities \union {0}
  PROVE  p \in Int
  BY QueueAssumption

-----------------------------------------------------------------------------
\* What is due of a key stays a priority and a wait.
LEMMA DueTypes ==
  ASSUME due \in [Keys -> Options],
         NEW k \in Keys, NEW prio \in Priorities \union {0}, NEW wait \in Nat
  PROVE  MoreDue(k, prio, wait) \in [Keys -> Options]
<1>1. Larger(due[k].prio, prio) \in Priorities \union {0} /\ Larger(due[k].wait, wait) \in Nat
  BY DEF Options, Larger
<1> QED
  BY <1>1 DEF MoreDue, Options

LEMMA InitTypes == Init => Types
<1> SUFFICES ASSUME Init PROVE Types
  OBVIOUS
<1>1. QueueTypes /\ TaskTypes
  BY BoundAssumption, QueueAssumption
  DEF Init, QueueInit, QueueTypes, TaskTypes, Items, Tasks, NoItem, Idle
<1>2. due \in [Keys -> Options]
  BY BoundAssumption DEF Init, NothingDue, Options, Attempts
<1> QED
  BY <1>1, <1>2, BoundAssumption DEF Init, Types

LEMMA InsertTypes ==
  ASSUME QueueTypes, NEW k \in Keys, NEW it \in Items,
         it.attempts < MaxAttempts, Insert(k, it)
  PROVE  /\ queue' \subseteq Keys
         /\ item' \in [Keys -> Items]
         /\ older' \in [Keys -> SUBSET queue']
         /\ \A j \in Keys : item'[j].attempts < MaxAttempts
  BY DEF QueueTypes, Items, Insert

LEMMA ReplaceTypes ==
  ASSUME QueueTypes, NEW k \in Keys, NEW it \in Items,
         it.attempts < MaxAttempts, Replace(k, it)
  PROVE  /\ queue' \subseteq Keys
         /\ item' \in [Keys -> Items]
         /\ older' \in [Keys -> SUBSET queue']
         /\ \A j \in Keys : item'[j].attempts < MaxAttempts
  BY DEF QueueTypes, Items, Replace

LEMMA RemoveTypes ==
  ASSUME QueueTypes, NEW k \in Keys, Remove(k)
  PROVE  /\ queue' \subseteq Keys
         /\ item' \in [Keys -> Items]
         /\ older' \in [Keys -> SUBSET queue']
         /\ \A j \in Keys : item'[j].attempts < MaxAttempts
  BY BoundAssumption DEF QueueTypes, Remove, NoItem, Items

\* A step of the queue that does not touch the tasks.
LEMMA EnqueueTypes ==
  ASSUME Types,
         NEW k \in Keys, NEW prio \in Priorities, NEW wait \in Waits,
         Enqueue(k, prio, wait)
  PROVE  Types'
<1>1. wait \in Nat /\ prio \in Int
  BY BoundAssumption, QueueAssumption
<1>2. QueueTypes'
  <2>1. CASE k \notin queue
    <3> DEFINE it == [prio |-> prio, wait |-> wait, attempts |-> 0]
    <3>1. it \in Items /\ it.attempts < MaxAttempts
      BY <1>1, BoundAssumption DEF Items
    <3>2. Insert(k, it)
      BY <2>1 DEF Enqueue, Queue
    <3> HIDE DEF it
    <3> QED
      BY <3>1, <3>2, InsertTypes DEF Enqueue, Queue, Types, QueueTypes
  <2>2. ASSUME k \in queue, item[k].prio < prio  PROVE QueueTypes'
    <3> DEFINE it == [item[k] EXCEPT !.prio = prio]
    <3>1. it \in Items /\ it.attempts < MaxAttempts
      BY <1>1, BoundAssumption DEF Items, Types, QueueTypes
    <3>2. Replace(k, it)
      BY <2>2 DEF Enqueue, Queue
    <3> HIDE DEF it
    <3> QED
      BY <3>1, <3>2, ReplaceTypes DEF Enqueue, Queue, Types, QueueTypes
  <2>3. ASSUME k \in queue, ~(item[k].prio < prio)  PROVE QueueTypes'
    <3> DEFINE it == [item[k] EXCEPT !.wait = Larger(@, wait)]
    <3>1. it \in Items /\ it.attempts < MaxAttempts
      BY <1>1, BoundAssumption DEF Items, Types, QueueTypes, Larger
    <3>2. Replace(k, it)
      BY <2>3 DEF Enqueue, Queue
    <3> HIDE DEF it
    <3> QED
      BY <3>1, <3>2, ReplaceTypes DEF Enqueue, Queue, Types, QueueTypes
  <2> QED
    BY <2>1, <2>2, <2>3
<1>3. TaskTypes' /\ UNCHANGED settled /\ queues' \in 0..MaxQueues /\ unserved' \subseteq Keys
  BY BoundAssumption DEF Enqueue, Types, TaskTypes
<1>4. due' \in [Keys -> Options]
  BY <1>1, DueTypes DEF Enqueue, Types
<1> QED
  BY <1>2, <1>3, <1>4 DEF Types

LEMMA HandleAsyncTypes ==
  ASSUME Types, NEW h \in Rounds, HandleAsync(h)
  PROVE  Types'
<1>1. PICK L : task' = [task EXCEPT ![h] = [k \in Keys |->
                  IF k \in L THEN [pc |-> "launched", prio |-> item[k].prio,
                                   attempts |-> item[k].attempts]
                             ELSE Idle]]
  BY DEF HandleAsync
<1>2. \A k \in Keys : item[k] \in Items
  BY DEF Types, QueueTypes, TaskTypes
<1> QED
  BY <1>1, <1>2, BoundAssumption
  DEF HandleAsync, queueVars, Types, QueueTypes, TaskTypes, Items, Tasks, Idle

LEMMA BeginTypes ==
  ASSUME Types, NEW h \in Rounds, NEW k \in Keys, Begin(h, k)
  PROVE  Types'
<1>1. Remove(k)
  BY DEF Begin, Start
<1>2. task[h][k] \in Tasks
  BY DEF Types, QueueTypes, TaskTypes
<1>3. QueueTypes'
  BY <1>1, RemoveTypes DEF Begin, Start, Types, QueueTypes
<1>4. TaskTypes'
  BY <1>2, BoundAssumption DEF Begin, Types, TaskTypes, Tasks
<1>5. due' \in [Keys -> Options]
  BY DEF Begin, Types, NothingDue, Options
<1> QED
  BY <1>3, <1>4, <1>5 DEF Begin, Types

LEMMA SkipTypes ==
  ASSUME Types, NEW h \in Rounds, NEW k \in Keys, Skip(h, k)
  PROVE  Types'
  BY BoundAssumption DEF Skip, queueVars, history, Types, QueueTypes, TaskTypes, Idle, Tasks

LEMMA RequeueTypes ==
  ASSUME QueueTypes, NEW k \in Keys, NEW prio \in Priorities \union {0},
         NEW attempts \in Nat, attempts < MaxAttempts, NEW delay \in Nat,
         RequeueWithOptions(k, prio, attempts, delay)
  PROVE  QueueTypes'
<1> DEFINE wait == RequeueWait(prio, attempts, delay)
<1>1. prio \in Int
  BY QueueAssumption
<1>2. wait \in Nat
  BY <1>1, RequeueWaitType
<1> HIDE DEF wait
<1>3. CASE k \notin queue
  <2> DEFINE it == [prio |-> prio, wait |-> wait, attempts |-> attempts]
  <2>1. it \in Items
    BY <1>2 DEF Items
  <2>2. Insert(k, it)
    BY <1>3 DEF RequeueWithOptions, wait
  <2> QED
    BY <2>1, <2>2, InsertTypes DEF Insert, Types, QueueTypes, TaskTypes, RequeueWithOptions
<1>4. CASE k \in queue
  <2> DEFINE it == [item[k] EXCEPT !.prio = Larger(@, prio), !.wait = Larger(@, wait)]
  <2>1. item[k] \in Items
    BY DEF Types, QueueTypes, TaskTypes
  <2>2. it \in Items /\ it.attempts = item[k].attempts
    BY <1>1, <1>2, <2>1 DEF Items, Larger
  <2>3. Replace(k, it)
    BY <1>4 DEF RequeueWithOptions, wait
  <2> HIDE DEF it
  <2> QED
    BY <2>2, <2>3, ReplaceTypes DEF Replace, Types, QueueTypes, TaskTypes, RequeueWithOptions
<1> QED
  BY <1>3, <1>4

LEMMA FinishTypes ==
  ASSUME Types, NEW h \in Rounds, NEW k \in Keys,
         NEW r \in Results, Finish(h, k, r)
  PROVE  Types'
<1>1. task[h][k] \in Tasks
  BY DEF Types, QueueTypes, TaskTypes
<1>2. TaskTypes'
  BY <1>1, BoundAssumption DEF Finish, Types, TaskTypes, Idle, Tasks
<1>3. unserved' \subseteq Keys /\ UNCHANGED <<queues, settled>>
  BY DEF Finish, Types
<1>4. QueueTypes'
  <2>1. CASE wip' = wip \ {k} /\ UNCHANGED <<queue, item, older>>
    BY <2>1 DEF Types, QueueTypes
  <2>2. ASSUME NEW delay \in Nat, task[h][k].attempts < MaxAttempts,
               RequeueWithOptions(k, task[h][k].prio, task[h][k].attempts, delay)
        PROVE  QueueTypes'
    BY <2>2, <1>1, RequeueTypes DEF Tasks, Types
  <2> QED
    BY <2>1, <2>2, QueueAssumption DEF Finish, Complete, Deadletter
<1>5. due' \in [Keys -> Options]
  <2> DEFINE delay == IF Disposition(r, task[h][k].attempts) = "requeueAfter"
                      THEN RequeueDelay ELSE 0
             wait == RequeueWait(task[h][k].prio, task[h][k].attempts, delay)
  <2>1. delay \in Nat
    BY QueueAssumption
  <2>2. task[h][k].prio \in Priorities \union {0} /\ task[h][k].prio \in Int /\ task[h][k].attempts \in Nat
    BY <1>1, PrioritiesAreInts DEF Tasks
  <2>3. wait \in Nat
    BY <2>1, <2>2, RequeueWaitType
  <2>4. due' \in {due, MoreDue(k, task[h][k].prio, wait)}
    BY DEF Finish
  <2> HIDE DEF wait
  <2> QED
    BY <2>2, <2>3, <2>4, DueTypes DEF Types
<1> QED
  BY <1>2, <1>3, <1>4, <1>5 DEF Types

LEMMA TickTypes ==
  ASSUME Types, Tick
  PROVE  Types'
<1> DEFINE Aged(k) == [item[k] EXCEPT !.wait = IF @ = 0 THEN 0 ELSE @ - 1]
<1>1. \A k \in Keys : Aged(k) \in Items /\ Aged(k).attempts = item[k].attempts
  BY DEF Types, QueueTypes, Items
<1>2. item' = [k \in Keys |-> Aged(k)]
  BY DEF Tick, QueueTick
<1>3. UNCHANGED <<queue, older, wip>>
  BY DEF Tick, QueueTick
<1> HIDE DEF Aged
<1>4. QueueTypes'
  BY <1>1, <1>2, <1>3 DEF Types, QueueTypes
<1> DEFINE Sooner(k) == [due[k] EXCEPT !.wait = IF @ = 0 THEN 0 ELSE @ - 1]
<1>5. \A k \in Keys : Sooner(k) \in Options
  BY DEF Types, Options
<1>6. due' = [k \in Keys |-> Sooner(k)]
  BY DEF Tick
<1> HIDE DEF Sooner
<1>7. due' \in [Keys -> Options]
  BY <1>5, <1>6
<1> QED
  BY <1>4, <1>7 DEF Tick, Types, TaskTypes

LEMMA NextTypes == Types /\ [Next]_vars => Types'
<1> SUFFICES ASSUME Types, [Next]_vars
             PROVE  Types'
  OBVIOUS
<1>1. CASE UNCHANGED vars
  BY <1>1 DEF vars, queueVars, history, Types, QueueTypes, TaskTypes
<1> QED
  BY <1>1, EnqueueTypes, HandleAsyncTypes, BeginTypes, SkipTypes, FinishTypes, TickTypes
  DEF Next, Step

LEMMA TypesHold == Spec => []Types
<1>1. Init => Types
  BY InitTypes
<1>2. Types /\ [Next]_vars => Types'
  BY NextTypes
<1> QED
  BY <1>1, <1>2, PTL DEF Spec

-----------------------------------------------------------------------------
\* A step either leaves the running goroutines and wip alone, or starts a key
\* that was not in wip, or ends the goroutine that runs its key.
LEMMA OwnershipStep ==
  ASSUME Types, [Next]_vars
  PROVE  \/ /\ wip' = wip
            /\ \A h \in Rounds, k \in Keys : Running(h, k)' <=> Running(h, k)
         \/ \E h \in Rounds, k \in Keys :
              /\ k \notin wip
              /\ wip' = wip \union {k}
              /\ \A g \in Rounds, j \in Keys :
                   Running(g, j)' <=> (Running(g, j) \/ (g = h /\ j = k))
         \/ \E h \in Rounds, k \in Keys :
              /\ Running(h, k)
              /\ wip' = wip \ {k}
              /\ \A g \in Rounds, j \in Keys :
                   Running(g, j)' <=> (Running(g, j) /\ ~(g = h /\ j = k))
<1> USE DEF Types, TaskTypes, Running
<1>1. CASE UNCHANGED vars
  BY <1>1 DEF vars, queueVars
<1>2. ASSUME NEW k \in Keys, NEW prio \in Priorities, NEW wait \in Waits, Enqueue(k, prio, wait)
      PROVE  wip' = wip /\ task' = task
  BY <1>2 DEF Enqueue, Queue
<1>3. ASSUME NEW h \in Rounds, HandleAsync(h)
      PROVE  /\ wip' = wip
             /\ \A g \in Rounds, k \in Keys : Running(g, k)' <=> Running(g, k)
  BY <1>3 DEF HandleAsync, queueVars, Idle
<1>4. ASSUME NEW h \in Rounds, NEW k \in Keys, Begin(h, k)
      PROVE  /\ k \notin wip
             /\ wip' = wip \union {k}
             /\ \A g \in Rounds, j \in Keys :
                  Running(g, j)' <=> (Running(g, j) \/ (g = h /\ j = k))
  BY <1>4 DEF Begin, Start, Tasks
<1>5. ASSUME NEW h \in Rounds, NEW k \in Keys, Skip(h, k)
      PROVE  /\ wip' = wip
             /\ \A g \in Rounds, j \in Keys : Running(g, j)' <=> Running(g, j)
  BY <1>5 DEF Skip, queueVars, Idle
<1>6. ASSUME NEW h \in Rounds, NEW k \in Keys, NEW r \in Results, Finish(h, k, r)
      PROVE  /\ Running(h, k)
             /\ wip' = wip \ {k}
             /\ \A g \in Rounds, j \in Keys :
                  Running(g, j)' <=> (Running(g, j) /\ ~(g = h /\ j = k))
  BY <1>6 DEF Finish, Complete, Deadletter, RequeueWithOptions, Idle
<1>7. ASSUME Tick PROVE wip' = wip /\ task' = task
  BY <1>7 DEF Tick, QueueTick
<1> HIDE DEF Types, TaskTypes
<1>8. Next => \/ \E k \in Keys, prio \in Priorities, wait \in Waits : Enqueue(k, prio, wait)
              \/ \E h \in Rounds : HandleAsync(h)
              \/ \E h \in Rounds, k \in Keys : Begin(h, k)
              \/ \E h \in Rounds, k \in Keys : Skip(h, k)
              \/ \E h \in Rounds, k \in Keys, r \in Results : Finish(h, k, r)
              \/ Tick
  BY DEF Next, Step
<1> QED
  BY <1>1, <1>2, <1>3, <1>4, <1>5, <1>6, <1>7, <1>8

LEMMA OwnerStep ==
  ASSUME Types, OneOwnerPerKey, [Next]_vars
  PROVE  OneOwnerPerKey'
<1> USE DEF OneOwnerPerKey
<1>1. CASE wip' = wip /\ \A h \in Rounds, k \in Keys : Running(h, k)' <=> Running(h, k)
  BY <1>1
<1>2. ASSUME NEW h \in Rounds, NEW k \in Keys, k \notin wip, wip' = wip \union {k},
             \A g \in Rounds, j \in Keys :
               Running(g, j)' <=> (Running(g, j) \/ (g = h /\ j = k))
      PROVE  OneOwnerPerKey'
  BY <1>2
<1>3. ASSUME NEW h \in Rounds, NEW k \in Keys, Running(h, k), wip' = wip \ {k},
             \A g \in Rounds, j \in Keys :
               Running(g, j)' <=> (Running(g, j) /\ ~(g = h /\ j = k))
      PROVE  OneOwnerPerKey'
  BY <1>3
<1> HIDE DEF OneOwnerPerKey
<1> QED
  BY <1>1, <1>2, <1>3, OwnershipStep

\* The queue keeps every unserved key: only Begin removes a key, and then its
\* callback begins.
LEMMA ServedStep ==
  ASSUME Types, NoLostWork, [Next]_vars
  PROVE  NoLostWork'
<1> USE DEF NoLostWork, Types, QueueTypes
<1>1. CASE UNCHANGED vars
  BY <1>1 DEF vars, queueVars, history
<1>2. ASSUME NEW k \in Keys, NEW prio \in Priorities, NEW wait \in Waits, Enqueue(k, prio, wait)
      PROVE  NoLostWork'
  BY <1>2 DEF Enqueue, Queue, Insert, Replace
<1>3. ASSUME NEW h \in Rounds, HandleAsync(h) PROVE NoLostWork'
  BY <1>3 DEF HandleAsync, queueVars
<1>4. ASSUME NEW h \in Rounds, NEW k \in Keys, Begin(h, k) PROVE NoLostWork'
  BY <1>4 DEF Begin, Start, Remove
<1>5. ASSUME NEW h \in Rounds, NEW k \in Keys, Skip(h, k) PROVE NoLostWork'
  BY <1>5 DEF Skip, queueVars, history
<1>6. ASSUME NEW h \in Rounds, NEW k \in Keys, NEW r \in Results, Finish(h, k, r)
      PROVE  NoLostWork'
  <2>1. ASSUME NEW prio, NEW attempts, NEW delay,
               RequeueWithOptions(k, prio, attempts, delay)
        PROVE  queue' = queue \union {k}
    BY <2>1 DEF RequeueWithOptions, Insert, Replace
  <2>2. CASE Disposition(r, task[h][k].attempts) \in {"requeue", "requeueAfter"}
    <3>1. queue' = queue \union {k}
      BY <1>6, <2>1, <2>2 DEF Finish
    <3>2. unserved' = unserved \union {k}
      BY <1>6, <2>2 DEF Finish
    <3> QED
      BY <3>1, <3>2
  <2>3. CASE Disposition(r, task[h][k].attempts) \notin {"requeue", "requeueAfter"}
    BY <1>6, <2>3 DEF Finish, Complete, Deadletter
  <2> QED
    BY <2>2, <2>3
<1>7. CASE Tick
  BY <1>7 DEF Tick, QueueTick
<1> QED
  BY <1>1, <1>2, <1>3, <1>4, <1>5, <1>6, <1>7 DEF Next, Step

-----------------------------------------------------------------------------
\* Type correctness, with every attempt count within its bound.
THEOREM TypeCorrect == Spec => []TypeOK
<1>1. Types => TypeOK
  BY BoundAssumption
  DEF Types, QueueTypes, TaskTypes, TypeOK, QueueTypeOK, Items, Tasks, Attempts, Options
<1> QED
  BY <1>1, TypesHold, PTL

\* No key is ever processed by two goroutines, and none stays in wip without
\* one, whatever rounds overlap (inmem.go 263-287).
THEOREM OwnerIsUnique == Spec => []OneOwnerPerKey
<1>1. Init => OneOwnerPerKey
  BY DEF Init, QueueInit, OneOwnerPerKey, Running, Idle
<1>2. Types /\ OneOwnerPerKey /\ [Next]_vars => OneOwnerPerKey'
  BY OwnerStep
<1> QED
  BY <1>1, <1>2, TypesHold, PTL DEF Spec

\* A key that was queued or requeued stays queued until its callback begins.
THEOREM WorkIsNeverLost == Spec => []NoLostWork
<1>1. Init => NoLostWork
  BY DEF Init, QueueInit, NoLostWork
<1>2. Types /\ NoLostWork /\ [Next]_vars => NoLostWork'
  BY ServedStep
<1> QED
  BY <1>1, <1>2, TypesHold, PTL DEF Spec

\* Whatever is asked of a key in between, what was asked before holds: the
\* merges of Queue and of RequeueWithOptions never fall below either side.
LEMMA OptionsStep ==
  ASSUME Types, NoLostWork, OptionsKept, [Next]_vars
  PROVE  OptionsKept'
<1> USE DEF OptionsKept
<1>1. /\ queue \subseteq Keys /\ unserved \subseteq queue
      /\ item \in [Keys -> Items] /\ due \in [Keys -> Options]
  BY DEF Types, QueueTypes, NoLostWork
<1>2. CASE UNCHANGED <<item, unserved, due>>
  BY <1>2
<1>3. ASSUME NEW k \in Keys, NEW prio \in Priorities \union {0}, NEW wait \in Nat, NEW it \in Items,
             unserved' = unserved \union {k}, due' = MoreDue(k, prio, wait),
             item' = [item EXCEPT ![k] = it],
             it.prio >= prio /\ it.wait >= wait,
             k \in unserved => it.prio >= item[k].prio /\ it.wait >= item[k].wait
      PROVE  OptionsKept'
  <2>1. SUFFICES ASSUME NEW j \in unserved'
                 PROVE  item'[j].prio >= due'[j].prio /\ item'[j].wait >= due'[j].wait
    OBVIOUS
  <2>2. CASE j # k
    BY <1>1, <1>3, <2>1, <2>2 DEF MoreDue
  <2>3. CASE j = k /\ k \notin unserved
    BY <1>1, <1>3, <2>3 DEF MoreDue
  <2>4. CASE j = k /\ k \in unserved
    <3>1. /\ item'[j] = it
          /\ due'[j].prio = Larger(due[k].prio, prio) /\ due'[j].wait = Larger(due[k].wait, wait)
      BY <1>1, <1>3, <2>4 DEF MoreDue
    <3>2. /\ item[k].prio >= due[k].prio /\ item[k].wait >= due[k].wait
          /\ it.prio >= item[k].prio /\ it.wait >= item[k].wait
      BY <1>3, <2>4
    <3>3. /\ it.prio \in Int /\ item[k].prio \in Int /\ due[k].prio \in Int /\ prio \in Int
          /\ it.wait \in Nat /\ item[k].wait \in Nat /\ due[k].wait \in Nat
      BY <1>1, <1>3, PrioritiesAreInts DEF Items, Options
    <3> QED
      BY <1>3, <3>1, <3>2, <3>3 DEF Larger
  <2> QED
    BY <2>2, <2>3, <2>4
<1>4. ASSUME NEW k \in Keys, NEW prio \in Priorities, NEW wait \in Waits, Enqueue(k, prio, wait)
      PROVE  OptionsKept'
  <2>1. item[k] \in Items /\ wait \in Nat /\ prio \in Int /\ item[k].prio \in Int
    BY <1>1, BoundAssumption, PrioritiesAreInts DEF Items
  <2> USE <1>4, <2>1 DEF Enqueue, Queue, Items
  <2>2. CASE k \notin queue
    <3> DEFINE it == [prio |-> prio, wait |-> wait, attempts |-> 0]
    <3>1. it \in Items /\ it.prio >= prio /\ it.wait >= 0 /\ k \notin unserved
      BY <1>1, <2>2
    <3>2. item' = [item EXCEPT ![k] = it]
      BY <2>2 DEF Insert
    <3> HIDE DEF it
    <3> QED
      BY <1>3, <3>1, <3>2
  <2>3. CASE k \in queue /\ item[k].prio < prio
    <3> DEFINE it == [item[k] EXCEPT !.prio = prio]
    <3>1. /\ it \in Items /\ it.prio >= prio /\ it.wait >= 0
          /\ it.prio >= item[k].prio /\ it.wait >= item[k].wait
      BY <2>3
    <3>2. item' = [item EXCEPT ![k] = it]
      BY <2>3 DEF Replace
    <3> HIDE DEF it
    <3> QED
      BY <1>3, <3>1, <3>2
  <2>4. CASE k \in queue /\ ~(item[k].prio < prio)
    <3> DEFINE it == [item[k] EXCEPT !.wait = Larger(@, wait)]
    <3>1. /\ it \in Items /\ it.prio >= prio /\ it.wait >= 0
          /\ it.prio >= item[k].prio /\ it.wait >= item[k].wait
      BY <2>4 DEF Larger
    <3>2. item' = [item EXCEPT ![k] = it]
      BY <2>4 DEF Replace
    <3> HIDE DEF it
    <3> QED
      BY <1>3, <3>1, <3>2
  <2> QED
    BY <2>2, <2>3, <2>4
<1>5. ASSUME NEW h \in Rounds, HandleAsync(h) PROVE OptionsKept'
  BY <1>2, <1>5 DEF HandleAsync, queueVars
<1>6. ASSUME NEW h \in Rounds, NEW k \in Keys, Begin(h, k) PROVE OptionsKept'
  BY <1>1, <1>6 DEF Begin, Start, Remove
<1>7. ASSUME NEW h \in Rounds, NEW k \in Keys, Skip(h, k) PROVE OptionsKept'
  BY <1>2, <1>7 DEF Skip, queueVars, history
<1>8. ASSUME NEW h \in Rounds, NEW k \in Keys, NEW r \in Results, Finish(h, k, r) PROVE OptionsKept'
  <2> DEFINE d == Disposition(r, task[h][k].attempts)
             delay == IF d = "requeueAfter" THEN RequeueDelay ELSE 0
             prio == task[h][k].prio
             wait == RequeueWait(prio, task[h][k].attempts, delay)
  <2>1. CASE d \notin {"requeue", "requeueAfter"}
    BY <1>2, <1>8, <2>1 DEF Finish, Complete, Deadletter
  <2>2. CASE d \in {"requeue", "requeueAfter"}
    <3>1. /\ RequeueWithOptions(k, prio, task[h][k].attempts, delay)
          /\ unserved' = unserved \union {k} /\ due' = MoreDue(k, prio, wait)
      BY <1>8, <2>2 DEF Finish
    <3>2. item[k] \in Items /\ task[h][k] \in Tasks /\ delay \in Nat
      BY <1>1, QueueAssumption DEF Types, TaskTypes
    <3>3. /\ prio \in Priorities \union {0} /\ prio \in Int /\ task[h][k].attempts \in Nat
          /\ item[k].prio \in Int /\ item[k].prio \in Priorities \union {0}
          /\ item[k].wait \in Nat /\ item[k].attempts \in Nat
      BY <3>2, PrioritiesAreInts DEF Tasks, Items
    <3>4. wait \in Nat
      BY <3>2, <3>3, RequeueWaitType
    <3>5. CASE k \notin queue
      <4> DEFINE it == [prio |-> prio, wait |-> wait, attempts |-> task[h][k].attempts]
      <4>1. item' = [item EXCEPT ![k] = it] /\ k \notin unserved
        BY <1>1, <3>1, <3>5 DEF RequeueWithOptions, Insert
      <4> HIDE DEF prio, wait
      <4>2. it \in Items /\ it.prio >= prio /\ it.wait >= wait
        BY <3>3, <3>4 DEF Items
      <4> HIDE DEF it
      <4> QED
        BY <1>3, <3>1, <3>3, <3>4, <4>1, <4>2
    <3>6. CASE k \in queue
      <4> DEFINE it == [item[k] EXCEPT !.prio = Larger(@, prio), !.wait = Larger(@, wait)]
      <4>1. item' = [item EXCEPT ![k] = it]
        BY <3>1, <3>6 DEF RequeueWithOptions, Replace
      <4> HIDE DEF prio, wait
      <4>2. /\ it.prio = Larger(item[k].prio, prio) /\ it.wait = Larger(item[k].wait, wait)
            /\ it.attempts = item[k].attempts
            /\ it \in [prio : {it.prio}, wait : {it.wait}, attempts : {it.attempts}]
        BY <3>2 DEF Items
      <4>3. /\ it.prio \in Priorities \union {0} /\ it.prio >= item[k].prio /\ it.prio >= prio
            /\ it.wait \in Nat /\ it.wait >= item[k].wait /\ it.wait >= wait
        BY <3>3, <3>4, <4>2 DEF Larger
      <4>4. it \in Items
        BY <3>3, <4>2, <4>3 DEF Items
      <4> HIDE DEF it
      <4> QED
        BY <1>3, <3>1, <3>3, <3>4, <4>1, <4>3, <4>4
    <3> QED
      BY <3>5, <3>6
  <2> QED
    BY <2>1, <2>2
<1>9. CASE Tick
  <2>1. SUFFICES ASSUME NEW j \in unserved
                 PROVE  item'[j].prio >= due'[j].prio /\ item'[j].wait >= due'[j].wait
    BY <1>9 DEF Tick
  <2>2. /\ item'[j] = [item[j] EXCEPT !.wait = IF @ = 0 THEN 0 ELSE @ - 1]
        /\ due'[j] = [due[j] EXCEPT !.wait = IF @ = 0 THEN 0 ELSE @ - 1]
    BY <1>1, <1>9, <2>1 DEF Tick, QueueTick
  <2>3. item[j] \in Items /\ due[j] \in Options
    BY <1>1, <2>1
  <2> QED
    BY <2>1, <2>2, <2>3 DEF Items, Options
<1>10. CASE UNCHANGED vars
  BY <1>2, <1>10 DEF vars, queueVars, history
<1> QED
  BY <1>4, <1>5, <1>6, <1>7, <1>8, <1>9, <1>10 DEF Next, Step

\* What was asked of a key holds until its callback begins, whoever asks for
\* something less in between (inmem.go 47-65 and 182-200).
THEOREM OptionsAreKept == Spec => []OptionsKept
<1>1. Init => OptionsKept
  BY DEF Init, OptionsKept
<1>2. Types /\ NoLostWork /\ OptionsKept /\ [Next]_vars => OptionsKept'
  BY OptionsStep
<1> QED
  BY <1>1, <1>2, TypesHold, WorkIsNeverLost, PTL DEF Spec

\* The in-memory queue under the dispatcher implements interface.go's promise:
\* rounds and ticks are invisible, Begin is Start, Finish is Finish or Requeue.
THEOREM InMemImplementsWorkQueue == Spec => ImplementsWorkQueue
<1> DEFINE owns == {p \in Rounds \X Keys : Running(p[1], p[2])}
<1>1. Init => Promise!Init
  BY DEF Init, QueueInit, Promise!Init, Running, Idle
<1>2. ASSUME Types, OneOwnerPerKey, [Next]_vars PROVE [Promise!Next]_(Promise!vars)
  <2>1. ASSUME wip' = wip, \A h \in Rounds, k \in Keys : Running(h, k)' <=> Running(h, k)
        PROVE  owns' = owns
    BY <2>1
  <2>2. CASE UNCHANGED vars
    BY <2>2 DEF vars, queueVars, Promise!vars, Running
  <2>3. ASSUME NEW k \in Keys, NEW prio \in Priorities, NEW wait \in Waits, Enqueue(k, prio, wait)
        PROVE  Promise!Queue(k)
    BY <2>3 DEF Enqueue, Queue, Insert, Replace, Promise!Queue, Running
  <2>4. ASSUME NEW h \in Rounds, HandleAsync(h) PROVE UNCHANGED Promise!vars
    BY <1>2, <2>4, <2>1 DEF HandleAsync, queueVars, Promise!vars, Running, Idle, Types, TaskTypes
  <2>5. ASSUME NEW h \in Rounds, NEW k \in Keys, Begin(h, k) PROVE Promise!Start(k, h)
    <3>1. \A g \in Rounds, j \in Keys :
            Running(g, j)' <=> (Running(g, j) \/ (g = h /\ j = k))
      BY <1>2, <2>5 DEF Begin, Running, Types, TaskTypes, Tasks
    <3>2. owns' = owns \union {<<h, k>>}
      BY <3>1
    <3> QED
      BY <2>5, <3>2 DEF Begin, Start, Remove, Promise!Start
  <2>6. ASSUME NEW h \in Rounds, NEW k \in Keys, Skip(h, k) PROVE UNCHANGED Promise!vars
    BY <1>2, <2>6, <2>1 DEF Skip, queueVars, Promise!vars, Running, Idle, Types, TaskTypes
  <2>7. ASSUME NEW h \in Rounds, NEW k \in Keys, NEW r \in Results, Finish(h, k, r)
        PROVE  Promise!Finish(k, h) \/ Promise!Requeue(k, h)
    <3>1. \A g \in Rounds, j \in Keys :
            Running(g, j)' <=> (Running(g, j) /\ ~(g = h /\ j = k))
      BY <1>2, <2>7 DEF Finish, Running, Idle, Types, TaskTypes
    <3>2. owns' = owns \ {<<h, k>>} /\ <<h, k>> \in owns
      BY <3>1, <2>7 DEF Finish
    <3>3. wip' = wip \ {k} /\ queue' \in {queue, queue \union {k}}
      BY <2>7 DEF Finish, Complete, Deadletter, RequeueWithOptions, Insert, Replace
    <3> QED
      BY <3>2, <3>3 DEF Promise!Finish, Promise!Requeue
  <2>8. CASE Tick
    BY <2>8 DEF Tick, QueueTick, Promise!vars, Running
  <2> QED
    BY <1>2, <2>2, <2>3, <2>4, <2>5, <2>6, <2>7, <2>8 DEF Next, Step, Promise!Next
<1> QED
  BY <1>1, <1>2, TypesHold, OwnerIsUnique, PTL
  DEF Spec, ImplementsWorkQueue, Promise!Spec

-----------------------------------------------------------------------------
(* The goroutines of all rounds. *)

Busy == {p \in Rounds \X Keys : task[p[1]][p[2]] # Idle}

\* The maps are finite, and so are the goroutines; an idle one holds nothing.
Finite ==
  /\ IsFiniteSet(queue) /\ IsFiniteSet(wip) /\ IsFiniteSet(Busy)
  /\ \A h \in Rounds, k \in Keys : task[h][k].pc = "idle" => task[h][k] = Idle

\* A round launches at most as many keys as there are slots left.
LEMMA LaunchesFit ==
  ASSUME NEW ready, IsFiniteSet(ready), NEW active, IsFiniteSet(active), NEW before,
         NEW L \in Launches(ready, active, before), L # {}
  PROVE  /\ L \subseteq ready /\ IsFiniteSet(L)
         /\ Cardinality(active) + Cardinality(L) <= Concurrency
<1>1. Cardinality(active) \in Nat /\ Cardinality(active) < Concurrency
  BY FS_CardinalityType, DispatchAssumption DEF Launches
<1> DEFINE open == Concurrency - Cardinality(active)
<1>2. PICK next \in Firsts(ready, Limit, before) : L \in Firsts(next \ active, open, before)
  BY <1>1, DispatchAssumption DEF Launches
<1>3. next \subseteq ready /\ L \subseteq next \ active
  BY <1>2 DEF Firsts
<1>4. IsFiniteSet(L)
  BY <1>3, FS_Subset
<1>5. Cardinality(L) <= open
  <2>1. CASE Cardinality(next \ active) <= open
    BY <1>2, <2>1 DEF Firsts
  <2>2. CASE ~(Cardinality(next \ active) <= open)
    BY <1>1, <1>2, <2>2, DispatchAssumption DEF Firsts
  <2> QED
    BY <2>1, <2>2
<1> QED
  BY <1>1, <1>3, <1>4, <1>5, FS_CardinalityType, DispatchAssumption

\* Only a round that enumerates adds goroutines.
LEMMA BusyStep ==
  ASSUME Types, [Next]_vars
  PROVE  \/ UNCHANGED settled /\ Busy' \subseteq Busy
         \/ \E h \in Rounds : HandleAsync(h)
<1> USE DEF Types, TaskTypes
<1>1. CASE task' = task /\ UNCHANGED settled
  BY <1>1 DEF Busy
<1>2. ASSUME NEW h \in Rounds, NEW k \in Keys, Begin(h, k) PROVE UNCHANGED settled /\ Busy' \subseteq Busy
  <2>1. \A g \in Rounds, j \in Keys : task'[g][j] # Idle => task[g][j] # Idle
    BY <1>2 DEF Begin, Idle
  <2> QED
    BY <1>2, <2>1 DEF Begin, Busy
<1>3. ASSUME NEW h \in Rounds, NEW k \in Keys, task' = [task EXCEPT ![h][k] = Idle], UNCHANGED settled
      PROVE  UNCHANGED settled /\ Busy' \subseteq Busy
  <2>1. \A g \in Rounds, j \in Keys : task'[g][j] # Idle => task[g][j] # Idle
    BY <1>3
  <2> QED
    BY <1>3, <2>1 DEF Busy
<1> HIDE DEF Types, TaskTypes
<1> QED
  BY <1>1, <1>2, <1>3 DEF Next, Step, Enqueue, Skip, Finish, Tick, vars, history

\* A round that enumerates adds one goroutine for every key it launches.
LEMMA LaunchStep ==
  ASSUME Types, OneOwnerPerKey, Finite, NEW h \in Rounds, HandleAsync(h)
  PROVE  /\ IsFiniteSet(Busy')
         /\ settled' => Cardinality(Busy') <= Concurrency
<1>1. PICK L \in Launches(Ready, wip, Before) :
        /\ L # {}
        /\ task' = [task EXCEPT ![h] = [k \in Keys |->
                     IF k \in L THEN [pc |-> "launched", prio |-> item[k].prio,
                                      attempts |-> item[k].attempts]
                                ELSE Idle]]
  BY DEF HandleAsync
<1>2. Ready \subseteq queue /\ IsFiniteSet(Ready)
  BY FS_Subset DEF Ready, Finite
<1>3. /\ L \subseteq Keys /\ IsFiniteSet(L) /\ Cardinality(L) \in Nat
      /\ Cardinality(wip) \in Nat /\ Cardinality(wip) + Cardinality(L) <= Concurrency
  BY <1>1, <1>2, LaunchesFit, FS_CardinalityType DEF Finite, Types, QueueTypes
<1> DEFINE new == {h} \X L
<1>4. IsFiniteSet(new) /\ Cardinality(new) <= Cardinality(L)
  <2>1. [p \in new |-> p[2]] \in Injection(new, L)
    BY DEF Injection, IsInjective
  <2> QED
    BY <1>3, <2>1, FS_Injection
<1>5. Busy' \subseteq Busy \union new
  BY <1>1 DEF Busy, Types, TaskTypes
<1>6. IsFiniteSet(Busy \union new)
  BY <1>4, FS_Union DEF Finite
<1>7. IsFiniteSet(Busy')
  BY <1>5, <1>6, FS_Subset
<1>8. ASSUME settled' PROVE Cardinality(Busy') <= Concurrency
  <2>1. \A p \in Busy : p[1] \in Rounds /\ p[2] \in Keys /\ Running(p[1], p[2]) /\ p = <<p[1], p[2]>>
    <3> SUFFICES ASSUME NEW g \in Rounds, NEW k \in Keys, task[g][k] # Idle
                 PROVE  Running(g, k)
      BY DEF Busy
    <3>1. task[g][k].pc # "launched"
      BY <1>8 DEF HandleAsync
    <3>2. task[g][k].pc # "idle" /\ task[g][k] \in Tasks
      BY DEF Finite, Types, TaskTypes
    <3> QED
      BY <3>1, <3>2 DEF Tasks, Running
  <2>2. [p \in Busy |-> p[2]] \in Injection(Busy, wip)
    BY <2>1 DEF Injection, IsInjective, OneOwnerPerKey
  <2>3. Cardinality(Busy) <= Cardinality(wip)
    BY <2>2, FS_Injection DEF Finite
  <2>4. Cardinality(Busy') <= Cardinality(Busy \union new)
    BY <1>5, <1>6, FS_Subset
  <2>5. /\ Cardinality(Busy) \in Nat /\ Cardinality(new) \in Nat
        /\ Cardinality(Busy \cap new) \in Nat
    BY <1>4, FS_CardinalityType, FS_Intersection DEF Finite
  <2>6. Cardinality(Busy \union new) = Cardinality(Busy) + Cardinality(new) - Cardinality(Busy \cap new)
    BY <1>4, FS_Union DEF Finite
  <2>7. IsFiniteSet(Busy') /\ Cardinality(Busy') \in Nat
    BY <1>7, FS_CardinalityType
  <2> QED
    BY <1>3, <1>4, <2>3, <2>4, <2>5, <2>6, <2>7, DispatchAssumption
<1> QED
  BY <1>7, <1>8

LEMMA FiniteStep ==
  ASSUME Types, OneOwnerPerKey, Finite, [Next]_vars
  PROVE  Finite'
<1>1. IsFiniteSet(wip')
  <2>1. \/ wip' = wip
        \/ \E k : wip' = wip \union {k} \/ wip' = wip \ {k}
    BY OwnershipStep
  <2>2. \A k : IsFiniteSet(wip \union {k}) /\ IsFiniteSet(wip \ {k})
    BY FS_AddElement, FS_RemoveElement DEF Finite
  <2> QED
    BY <2>1, <2>2 DEF Finite
<1>2. IsFiniteSet(Busy')
  BY BusyStep, LaunchStep, FS_Subset DEF Finite
<1>3. \E k : queue' \subseteq queue \union {k}
  <2>1. CASE queue' \subseteq queue
    BY <2>1
  <2>2. ASSUME NEW k, \/ \E prio, wait : Queue(k, prio, wait)
                      \/ \E prio, attempts, delay : RequeueWithOptions(k, prio, attempts, delay)
        PROVE  queue' \subseteq queue \union {k}
    BY <2>2 DEF Queue, RequeueWithOptions, Insert, Replace
  <2>3. ASSUME NEW h \in Rounds, Step(h) PROVE \E k : queue' \subseteq queue \union {k}
    BY <2>1, <2>2, <2>3 DEF Step, HandleAsync, Begin, Start, Remove, Skip, Finish, Complete,
                            Deadletter, queueVars
  <2>4. Tick \/ UNCHANGED vars => queue' = queue
    BY DEF Tick, QueueTick, vars, queueVars
  <2> QED
    BY <2>1, <2>2, <2>3, <2>4 DEF Next, Enqueue
<1>4. IsFiniteSet(queue')
  <2>1. PICK k : queue' \subseteq queue \union {k}
    BY <1>3
  <2>2. IsFiniteSet(queue \union {k})
    BY FS_AddElement DEF Finite
  <2> QED
    BY <2>1, <2>2, FS_Subset
<1>5. ASSUME NEW g \in Rounds, NEW j \in Keys, task'[g][j].pc = "idle"
      PROVE  task'[g][j] = Idle
  <2>1. task \in [Rounds -> [Keys -> Tasks]] /\ (task[g][j].pc = "idle" => task[g][j] = Idle)
    BY DEF Types, TaskTypes, Finite
  <2>2. CASE task' = task
    BY <1>5, <2>1, <2>2
  <2>3. ASSUME NEW h \in Rounds, HandleAsync(h) PROVE task'[g][j] = Idle
    BY <1>5, <2>1, <2>3 DEF HandleAsync
  <2>4. ASSUME NEW h \in Rounds, NEW k \in Keys, Begin(h, k) PROVE task'[g][j] = Idle
    BY <1>5, <2>1, <2>4 DEF Begin, Tasks
  <2>5. ASSUME NEW h \in Rounds, NEW k \in Keys, task' = [task EXCEPT ![h][k] = Idle]
        PROVE  task'[g][j] = Idle
    BY <1>5, <2>1, <2>5
  <2> QED
    BY <2>2, <2>3, <2>4, <2>5 DEF Next, Step, Enqueue, Skip, Finish, Tick, vars
<1> QED
  BY <1>1, <1>2, <1>4, <1>5 DEF Finite

LEMMA FiniteHolds == Spec => []Finite
<1>1. Init => Finite
  <2> SUFFICES ASSUME Init PROVE Finite
    OBVIOUS
  <2>1. /\ queue = {} /\ wip = {} /\ Busy = {}
        /\ \A h \in Rounds, k \in Keys : task[h][k] = Idle
    BY DEF Init, QueueInit, Busy
  <2> QED
    BY <2>1, FS_EmptySet DEF Finite
<1>2. Types /\ OneOwnerPerKey /\ Finite /\ [Next]_vars => Finite'
  BY FiniteStep
<1> QED
  BY <1>1, <1>2, TypesHold, OwnerIsUnique, PTL DEF Spec

\* A round leaves no slot open while a key is ready that nobody runs: ready keys
\* that are in progress use up places of what Enumerate returns, not slots.
NoSlotWasted ==
  \A L \in Launches(Ready, wip, Before) :
    \/ Cardinality(L) + Cardinality(wip) >= Concurrency
    \/ L = Ready \ wip

\* A round that enumerates at least as many keys as there are slots fills them:
\* of Concurrency keys at most as many are passed over as slots are taken.
LEMMA LaunchesFill ==
  ASSUME NEW ready, IsFiniteSet(ready), NEW active, IsFiniteSet(active), NEW before,
         NEW L \in Launches(ready, active, before), Limit >= Concurrency
  PROVE  Cardinality(L) + Cardinality(active) >= Concurrency \/ L = ready \ active
<1>1. Cardinality(active) \in Nat
  BY FS_CardinalityType
<1>2. CASE Cardinality(active) >= Concurrency
  <2>1. Cardinality(L) = 0
    BY <1>2, FS_EmptySet DEF Launches
  <2> QED
    BY <1>1, <1>2, <2>1, DispatchAssumption
<1>3. CASE ~(Cardinality(active) >= Concurrency)
  <2> DEFINE open == Concurrency - Cardinality(active)
  <2>1. PICK next \in Firsts(ready, Limit, before) : L \in Firsts(next \ active, open, before)
    BY <1>3 DEF Launches
  <2>2. CASE Cardinality(L) = open
    BY <1>1, <2>2, DispatchAssumption
  <2>3. CASE Cardinality(L) # open
    <3>1. L = next \ active
      BY <2>1, <2>3 DEF Firsts
    <3>2. next \subseteq ready /\ IsFiniteSet(next)
      BY <2>1, FS_Subset DEF Firsts
    <3>3. CASE next = ready
      BY <3>1, <3>3
    <3>4. CASE next # ready
      <4>1. Cardinality(next) = Limit
        BY <2>1, <3>4 DEF Firsts
      <4>2. /\ IsFiniteSet(next \cap active)
            /\ Cardinality(next \cap active) <= Cardinality(active)
            /\ Cardinality(L) = Cardinality(next) - Cardinality(next \cap active)
        BY <3>1, <3>2, FS_Difference, FS_Subset
      <4>3. Cardinality(next \cap active) \in Nat
        BY <4>2, FS_CardinalityType
      <4> QED
        BY <1>1, <4>1, <4>2, <4>3, DispatchAssumption
    <3> QED
      BY <3>3, <3>4
  <2> QED
    BY <2>2, <2>3
<1> QED
  BY <1>2, <1>3

\* A round that enumerates no fewer keys than it may process, as the mains do,
\* leaves no slot open for a ready key that nobody runs (dispatcher.go 73-98).
THEOREM SlotsAreFilled ==
  ASSUME Limit >= Concurrency
  PROVE  Spec => []NoSlotWasted
<1>1. Types /\ Finite => NoSlotWasted
  <2> SUFFICES ASSUME Types, Finite, NEW L \in Launches(Ready, wip, Before)
               PROVE  Cardinality(L) + Cardinality(wip) >= Concurrency \/ L = Ready \ wip
    BY DEF NoSlotWasted
  <2>1. IsFiniteSet(Ready) /\ IsFiniteSet(wip)
    BY FS_Subset DEF Ready, Finite
  <2> QED
    BY <2>1, LaunchesFill
<1> QED
  BY <1>1, TypesHold, FiniteHolds, PTL

\* The goroutines of all rounds stay within Concurrency unless a round
\* enumerates between a launch and its Start: a round that finds all the others'
\* goroutines started counts each of them in wip.
THEOREM ConcurrencyIsKept == Spec => []WithinConcurrencyWhenSettled
<1> DEFINE Within == settled => Cardinality(Busy) <= Concurrency
<1>1. Init => Within
  <2> SUFFICES ASSUME Init PROVE Within
    OBVIOUS
  <2>1. Busy = {}
    BY DEF Init, Busy
  <2> QED
    BY <2>1, FS_EmptySet, DispatchAssumption
<1>2. Types /\ OneOwnerPerKey /\ Finite /\ Within /\ [Next]_vars => Within'
  <2> SUFFICES ASSUME Types, OneOwnerPerKey, Finite, Within, [Next]_vars PROVE Within'
    OBVIOUS
  <2>1. CASE UNCHANGED settled /\ Busy' \subseteq Busy
    <3>1. /\ Cardinality(Busy') <= Cardinality(Busy)
          /\ Cardinality(Busy') \in Nat /\ Cardinality(Busy) \in Nat
      BY <2>1, FS_Subset, FS_CardinalityType DEF Finite
    <3> QED
      BY <2>1, <3>1, DispatchAssumption
  <2>2. CASE \E h \in Rounds : HandleAsync(h)
    BY <2>2, LaunchStep
  <2> QED
    BY <2>1, <2>2, BusyStep
<1>3. Within => WithinConcurrencyWhenSettled
  BY DEF Busy, WithinConcurrencyWhenSettled
<1> QED
  BY <1>1, <1>2, <1>3, TypesHold, OwnerIsUnique, FiniteHolds, PTL DEF Spec
=============================================================================
