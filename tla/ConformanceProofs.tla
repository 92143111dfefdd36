-------------------------- MODULE ConformanceProofs --------------------------
(***************************************************************************)
(* The two queues cannot be told apart, whichever calls are made, one      *)
(* after the other, about whichever keys, priorities and delays.           *)
(*                                                                         *)
(* The queue in memory makes a call in one step, the one in the bucket in  *)
(* several.  Between calls both hold the same, key by key: the same        *)
(* priority, delay and attempts, created after the same keys, and for a    *)
(* key in progress an owner that knows as much (AtRest).  While a call is  *)
(* under way, memory is ahead: the invariant says of each call what is     *)
(* left to be done in the bucket (Queueing, Starting, Refused, Ending),    *)
(* and that the other keys are as at rest.                                 *)
(***************************************************************************)
EXTENDS Conformance, TLAPS

-----------------------------------------------------------------------------
(* Types *)

\* Who calls Start for a key that is in progress already.
Orphan(k) == <<"test", k, "orphan">>

\* Priorities there may be, also that of a call without options.
Ranks == Priorities \union {0}
Items == [prio : Ranks, wait : Nat, attempts : Nat]

\* Where a call is.
Labels == {"idle", "create", "read", "write", "startCopy", "startDelete", "running", "complete",
           "deadletter", "requeue", "requeueRead", "requeueWrite", "delete"}

JobTypes == [pc : Labels, prio : Ranks, priority : Nat, attempts : Nat, gen : Nat,
             lease : Nat, live : BOOLEAN, delay : Nat, wait : Nat, merge : Items]

\* Keys with a queued object.
Existing == {k \in Keys : queued[k].exists}

\* The queue in memory, and its owned keys.
MemTypes ==
  /\ queue \subseteq Keys /\ wip \subseteq Keys
  /\ item \in [Keys -> Items]
  /\ older \in [Keys -> SUBSET queue]
  /\ owned \in [Keys -> [prio : Ranks, attempts : Nat]]

\* A call of Queue to the bucket.
Calls == [pc : Labels, key : Keys, prio : Ranks, wait : Nat, plain : BOOLEAN, merge : Items]

\* The bucket, and who calls it.
BucketTypes ==
  /\ queued \in [Keys -> [exists : BOOLEAN, meta : Items]]
  /\ inProgress \in [Keys -> [gen : Nat, prio : Ranks, attempts : Nat, lease : Nat,
                              by : Gcs!Goroutines \union {Gcs!Nobody}]]
  /\ caller \in [{"test"} -> Calls]
  /\ job \in [Gcs!Goroutines -> JobTypes]
  /\ earlier \in [Keys -> SUBSET Existing]
  /\ \A k \in Keys \ Existing : earlier[k] = {}

Types == MemTypes /\ BucketTypes

-----------------------------------------------------------------------------
(* The invariant *)

\* Nobody has more attempts than there were calls.
Bounded ==
  /\ calls \in 0..MaxCalls
  /\ \A k \in Keys : item[k].attempts + calls <= MaxCalls /\ owned[k].attempts + calls <= MaxCalls

\* k is queued with the same metadata in both, after the same keys.
Aligned(k) ==
  /\ queued[k].exists <=> k \in queue
  /\ queued[k].meta = item[k]
  /\ earlier[k] = older[k]

\* k is in progress in both, and its owners know the same, or in neither.
Working(k) ==
  IF k \in wip
  THEN /\ inProgress[k].gen > 0
       /\ job[Owner(k)].pc = "running"
       /\ job[Owner(k)].prio = owned[k].prio
       /\ job[Owner(k)].attempts = owned[k].attempts
  ELSE inProgress[k].gen = 0 /\ job[Owner(k)].pc = "idle"

\* No call about k is under way.
Resting(k) == Working(k) /\ job[Orphan(k)].pc = "idle"

NoCaller == caller["test"].pc = "idle"

AtRest == NoCaller /\ \A k \in Keys : Aligned(k) /\ Resting(k)

\* But for k, both are as at rest.
Others(k) == \A j \in Keys \ {k} : Aligned(j) /\ Resting(j)

\* Memory has queued k with meta, new or merged; the bucket has not.
Adding(k, meta) ==
  /\ k \in queue
  /\ \/ /\ ~queued[k].exists
        /\ item[k] = meta
        /\ older[k] = Existing
     \/ /\ queued[k].exists
        /\ item[k] = Gcs!Merged(queued[k].meta, meta.prio, meta.wait)
        /\ earlier[k] = older[k]

\* Queue: its object is not yet created, or what was merged not yet written.
Queueing ==
  LET q == caller["test"] IN
  /\ q.pc \in {"create", "read", "write"}
  /\ q.plain <=> (q.prio = 0 /\ q.wait = 0)
  /\ Others(q.key) /\ Resting(q.key)
  /\ Adding(q.key, Gcs!Meta(q.prio, q.wait, 0))
  /\ q.pc # "create" => queued[q.key].exists
  /\ q.pc = "write" => q.merge = item[q.key]

\* Start, successful in memory: the object of the attempt is to be created, and
\* the queued one to be deleted, which only then stops being an earlier one.
Starting(k) ==
  LET j == job[Owner(k)] IN
  /\ NoCaller
  /\ j.pc \in {"startCopy", "startDelete"}
  /\ \A i \in Keys \ {k} :
       /\ Resting(i)
       /\ queued[i].exists <=> i \in queue
       /\ queued[i].meta = item[i]
       /\ earlier[i] \ {k} = older[i]
  /\ job[Orphan(k)].pc = "idle"
  /\ k \in wip /\ k \notin queue
  /\ queued[k].exists
  /\ item[k] = Mem!NoItem /\ older[k] = {}
  /\ owned[k].prio = j.prio
  /\ j.pc = "startCopy" => inProgress[k].gen = 0 /\ owned[k].attempts = j.attempts + 1
  /\ j.pc = "startDelete" => inProgress[k].gen > 0 /\ owned[k].attempts = j.attempts

\* Start of a key in progress, refused in memory: the bucket is about to.
Refused(k) ==
  /\ NoCaller
  /\ Others(k) /\ Aligned(k) /\ Working(k)
  /\ k \in wip
  /\ job[Orphan(k)].pc = "startCopy"

\* Complete, Deadletter or RequeueWithOptions: the object in progress is to be
\* deleted, and for a requeue, a queued one to be created or merged before.
Ending(k) ==
  LET j == job[Owner(k)] IN
  /\ NoCaller
  /\ Others(k) /\ job[Orphan(k)].pc = "idle"
  /\ k \notin wip /\ inProgress[k].gen > 0
  /\ \/ j.pc \in {"complete", "deadletter", "delete"} /\ Aligned(k)
     \/ j.pc = "requeue" /\ Adding(k, Gcs!Meta(j.prio, Gcs!RequeueWait(j), j.attempts))
     \/ j.pc = "requeueRead" /\ queued[k].exists /\ Adding(k, Gcs!Meta(j.prio, j.wait, j.attempts))
     \/ /\ j.pc = "requeueWrite" /\ queued[k].exists /\ Adding(k, Gcs!Meta(j.prio, j.wait, j.attempts))
        /\ j.merge = item[k]

\* One call is under way, or none.
SideBySide == AtRest \/ Queueing \/ \E k \in Keys : Starting(k) \/ Refused(k) \/ Ending(k)

-----------------------------------------------------------------------------
(* The constants, and what the queues compute. *)

\* What the calls are about is within what the padding has room for.
LEMMA Sizes ==
  /\ 0 \in Ranks /\ Priorities \subseteq Ranks /\ \A r \in Ranks : r \in Nat /\ r < Gcs!Unpadded
  /\ MaxCalls \in Nat /\ Waits \subseteq Nat
  BY ConformanceAssumption DEF Ranks, Gcs!Unpadded

\* Who makes the calls.
LEMMA Names ==
  /\ \A k \in Keys : Owner(k) \in Gcs!Goroutines /\ Orphan(k) \in Gcs!Goroutines
  /\ \A k \in Keys : Gcs!KeyOf(Owner(k)) = k /\ Gcs!KeyOf(Orphan(k)) = k
  /\ \A g \in Gcs!Goroutines : \E k \in Keys : g = Owner(k) \/ g = Orphan(k)
  /\ \A k, j \in Keys : Owner(k) # Orphan(j) /\ (Owner(k) = Owner(j) => k = j)
                        /\ (Orphan(k) = Orphan(j) => k = j)
  BY DEF Gcs!Goroutines, Owner, Orphan, Gcs!KeyOf

\* Metadata of both queues are the same.
LEMMA MetaTypes ==
  /\ \A prio \in Ranks, wait, attempts \in Nat : Gcs!Meta(prio, wait, attempts) \in Items
  /\ Gcs!NoMeta \in Items /\ Mem!NoItem = Gcs!NoMeta
  BY Sizes DEF Items, Gcs!Meta, Gcs!NoMeta, Mem!NoItem

\* updateMetadata keeps the attempts, and with no options changes nothing.
LEMMA MergeTypes ==
  ASSUME NEW old \in Items, NEW prio \in Ranks, NEW wait \in Nat
  PROVE  /\ Gcs!Merged(old, prio, wait) =
              [prio |-> Gcs!Larger(old.prio, prio), wait |-> Gcs!Larger(old.wait, wait),
               attempts |-> old.attempts]
         /\ Gcs!Merged(old, prio, wait) \in Items
         /\ prio = 0 /\ wait = 0 => Gcs!Merged(old, prio, wait) = old
<1>1. old.prio \in Ranks /\ old.wait \in Nat /\ old.attempts \in Nat
  BY DEF Items
<1>2. Gcs!Larger(old.prio, prio) \in Ranks /\ Gcs!Larger(old.wait, wait) \in Nat
  BY <1>1 DEF Gcs!Larger
<1> DEFINE new == Gcs!Merged(old, prio, wait)
<1>3. new \in Items /\ new.prio = Gcs!Larger(old.prio, prio) /\ new.wait = Gcs!Larger(old.wait, wait)
      /\ new.attempts = old.attempts
  <2>1. [old EXCEPT !.prio = Gcs!Larger(old.prio, prio)] \in Items
    BY <1>2 DEF Items
  <2> QED
    BY <1>1, <1>2, <2>1 DEF Gcs!Merged, Items
<1>5. \A m \in Items : m = [prio |-> m.prio, wait |-> m.wait, attempts |-> m.attempts]
  BY DEF Items
<1>6. new = [prio |-> Gcs!Larger(old.prio, prio), wait |-> Gcs!Larger(old.wait, wait),
             attempts |-> old.attempts]
  <2> HIDE DEF new
  <2> QED
    BY <1>3, <1>5
<1>4. ASSUME prio = 0, wait = 0 PROVE Gcs!Merged(old, prio, wait) = old
  <2>1. Gcs!Larger(old.prio, prio) = old.prio /\ Gcs!Larger(old.wait, wait) = old.wait
    <3>1. old.prio \in Nat /\ old.wait \in Nat
      BY <1>1, Sizes
    <3> QED
      BY <1>4, <3>1 DEF Gcs!Larger
  <2> HIDE DEF new
  <2>2. new = [prio |-> old.prio, wait |-> old.wait, attempts |-> old.attempts]
    BY <1>6, <2>1
  <2>3. new = old
    BY <1>5, <2>2
  <2> QED
    BY <2>3 DEF new
<1> QED
  BY <1>3, <1>4, <1>6

\* Both queues compute the same delay of a requeue.
LEMMA SameWait ==
  ASSUME NEW j \in JobTypes
  PROVE  /\ Gcs!RequeueWait(j) \in Nat
         /\ Mem!RequeueWait(j.prio, j.attempts, j.delay) = Gcs!RequeueWait(j)
         /\ j.prio = 0 /\ j.delay = 0 => Gcs!RequeueWait(j) = 0
<1>1. j.prio \in Nat /\ j.attempts \in Nat /\ j.delay \in Nat
  BY Sizes DEF JobTypes
<1> QED
  BY <1>1 DEF Gcs!RequeueWait, Mem!RequeueWait, Gcs!Smaller, Mem!Smaller, BackoffPeriod, MaximumBackoff

\* What a call adds to the bookkeeping of creation times.
Aging ==
  LET now == {k \in Keys : queued'[k].exists} IN
  earlier' = [k \in Keys |-> IF k \notin now THEN {}
                             ELSE IF k \in Existing THEN earlier[k] \intersect now
                             ELSE Existing \intersect now]

\* Where nothing is created nor deleted, it stays as it is.
LEMMA AgesStay ==
  ASSUME Types, Aging, \A k \in Keys : queued'[k].exists <=> queued[k].exists
  PROVE  earlier' = earlier
<1>1. {k \in Keys : queued'[k].exists} = Existing
  BY DEF Existing
<1>2. \A k \in Keys : earlier[k] \subseteq Existing /\ (k \notin Existing => earlier[k] = {})
  BY DEF Types, BucketTypes
<1>3. \A k \in Keys : earlier'[k] = earlier[k]
  BY <1>1, <1>2 DEF Aging
<1> QED
  BY <1>3 DEF Aging, Types, BucketTypes

\* Both begin empty.
LEMMA StartsAtRest == Init => Types /\ AtRest
<1> SUFFICES ASSUME Init PROVE Types /\ AtRest
  OBVIOUS
<1>1. Gcs!NoJob \in JobTypes
  BY MetaTypes, Sizes DEF JobTypes, Gcs!NoJob, Labels
<1>2. Existing = {}
  BY DEF Init, Gcs!GcsInit, Gcs!NoQueued, Existing
<1>3. Gcs!NoCall \in Calls
  <2>1. 1 \in Keys
    BY ConformanceAssumption DEF Keys
  <2>2. (CHOOSE k \in Keys : TRUE) \in Keys
    BY <2>1
  <2> QED
    BY <2>2, MetaTypes, Sizes DEF Gcs!NoCall, Labels, Calls
<1>4. Types
  <2>1. queued \in [Keys -> [exists : BOOLEAN, meta : Items]]
    BY MetaTypes DEF Init, Gcs!GcsInit, Gcs!NoQueued
  <2>2. inProgress \in [Keys -> [gen : Nat, prio : Ranks, attempts : Nat, lease : Nat,
                                by : Gcs!Goroutines \union {Gcs!Nobody}]]
    BY Sizes DEF Init, Gcs!GcsInit, Gcs!NoInProgress
  <2>3. queue \subseteq Keys /\ wip \subseteq Keys /\ item \in [Keys -> Items]
        /\ older \in [Keys -> SUBSET queue]
    BY MetaTypes DEF Init, Mem!QueueInit
  <2>4. owned \in [Keys -> [prio : Ranks, attempts : Nat]]
    BY Sizes DEF Init, NotOwned
  <2>5. caller \in [{"test"} -> Calls]
    BY <1>3 DEF Init, Gcs!GcsInit
  <2>6. job \in [Gcs!Goroutines -> JobTypes]
    BY <1>1 DEF Init, Gcs!GcsInit
  <2> QED
    BY <1>2, <2>1, <2>2, <2>3, <2>4, <2>5, <2>6 DEF Init, Types, MemTypes, BucketTypes
<1>5. AtRest
  <2>1. \A k \in Keys : job[Owner(k)] = Gcs!NoJob /\ job[Orphan(k)] = Gcs!NoJob
    BY Names DEF Init, Gcs!GcsInit
  <2>2. wip = {} /\ \A k \in Keys : inProgress[k].gen = 0
    BY DEF Init, Gcs!GcsInit, Mem!QueueInit, Gcs!NoInProgress
  <2>5. Gcs!NoJob.pc = "idle"
    BY DEF Gcs!NoJob
  <2>6. \A k \in Keys : Resting(k)
    BY <2>1, <2>2, <2>5 DEF Resting, Working
  <2>3. \A k \in Keys : Aligned(k)
    <3> SUFFICES ASSUME NEW k \in Keys PROVE Aligned(k)
      OBVIOUS
    <3>1. (k \in queue) = FALSE
      BY DEF Init, Mem!QueueInit
    <3> QED
      BY <3>1, MetaTypes DEF Init, Gcs!GcsInit, Mem!QueueInit, Aligned, Gcs!NoQueued
  <2>4. NoCaller
    BY DEF Init, Gcs!GcsInit, NoCaller, Gcs!NoCall
  <2> QED
    BY <2>3, <2>4, <2>6 DEF AtRest
<1> QED
  BY <1>4, <1>5

-----------------------------------------------------------------------------
(* What the queue in memory does to its maps. *)

\* A new key comes after all that are queued.
LEMMA Inserts ==
  ASSUME MemTypes, NEW k \in Keys, NEW it \in Items, Mem!Insert(k, it),
         wip' \subseteq Keys, owned' \in [Keys -> [prio : Ranks, attempts : Nat]]
  PROVE  /\ MemTypes'
         /\ queue' = queue \union {k} /\ item'[k] = it /\ older'[k] = queue
         /\ \A j \in Keys \ {k} : item'[j] = item[j] /\ older'[j] = older[j]
  BY DEF MemTypes, Mem!Insert

\* A merge keeps the age.
LEMMA Replaces ==
  ASSUME MemTypes, NEW k \in queue, NEW it \in Items, Mem!Replace(k, it),
         wip' \subseteq Keys, owned' \in [Keys -> [prio : Ranks, attempts : Nat]]
  PROVE  /\ MemTypes'
         /\ queue' = queue /\ item'[k] = it /\ older' = older
         /\ \A j \in Keys \ {k} : item'[j] = item[j]
  BY DEF MemTypes, Mem!Replace

\* A key that is started is no longer earlier than any.
LEMMA Removes ==
  ASSUME MemTypes, NEW k \in Keys, Mem!Remove(k),
         wip' \subseteq Keys, owned' \in [Keys -> [prio : Ranks, attempts : Nat]]
  PROVE  /\ MemTypes'
         /\ queue' = queue \ {k} /\ item'[k] = Mem!NoItem /\ older'[k] = {}
         /\ \A j \in Keys \ {k} : item'[j] = item[j] /\ older'[j] = older[j] \ {k}
  BY MetaTypes DEF MemTypes, Mem!Remove

\* A queue that is not touched.
LEMMA RestIsAligned ==
  ASSUME Types, AtRest
  PROVE  Existing = queue /\ \A k \in Keys : queued[k].meta = item[k] /\ (queued[k].exists <=> k \in queue)
<1>1. \A k \in Keys : queued[k].meta = item[k] /\ (queued[k].exists <=> k \in queue)
  BY DEF AtRest, Aligned
<1> QED
  BY <1>1 DEF Types, MemTypes, Existing

\* Memory queues k, new or merged: the bucket is to follow.
LEMMA Adds ==
  ASSUME Types, AtRest, NEW k \in Keys, NEW meta \in Items,
         IF k \notin queue THEN Mem!Insert(k, meta)
         ELSE Mem!Replace(k, Gcs!Merged(item[k], meta.prio, meta.wait)),
         wip' \subseteq Keys, owned' \in [Keys -> [prio : Ranks, attempts : Nat]],
         UNCHANGED <<queued, earlier>>
  PROVE  /\ MemTypes' /\ Adding(k, meta)' /\ \A j \in Keys \ {k} : Aligned(j)'
         /\ \A j \in Keys : item'[j].attempts \in {item[j].attempts, meta.attempts}
<1>1. Existing = queue /\ \A j \in Keys : queued[j].meta = item[j] /\ (queued[j].exists <=> j \in queue)
  BY RestIsAligned
<1>2. Existing' = Existing
  BY DEF Existing
<1>3. CASE k \notin queue
  <2>1. /\ MemTypes'
        /\ queue' = queue \union {k} /\ item'[k] = meta /\ older'[k] = queue
        /\ \A j \in Keys \ {k} : item'[j] = item[j] /\ older'[j] = older[j]
    BY <1>3, Inserts DEF Types
  <2>2. Adding(k, meta)'
    BY <1>1, <1>2, <1>3, <2>1 DEF Adding
  <2>3. \A j \in Keys \ {k} : Aligned(j)'
    BY <2>1 DEF AtRest, Aligned
  <2> QED
    BY <2>1, <2>2, <2>3
<1>4. CASE k \in queue
  <2> DEFINE it == Gcs!Merged(item[k], meta.prio, meta.wait)
  <2>1. it \in Items /\ it.attempts = item[k].attempts
    <3>1. item[k] \in Items /\ meta.prio \in Ranks /\ meta.wait \in Nat
      BY DEF Types, MemTypes, Items
    <3> QED
      BY <3>1, MergeTypes
  <2>2. Mem!Replace(k, it)
    BY <1>4
  <2> HIDE DEF it
  <2>3. /\ MemTypes'
        /\ queue' = queue /\ item'[k] = it /\ older' = older
        /\ \A j \in Keys \ {k} : item'[j] = item[j]
    BY <1>4, <2>1, <2>2, Replaces DEF Types
  <2>4. Adding(k, meta)'
    BY <1>1, <1>4, <2>3 DEF Adding, AtRest, Aligned, it
  <2>5. \A j \in Keys \ {k} : Aligned(j)'
    BY <2>3 DEF AtRest, Aligned
  <2> QED
    BY <2>1, <2>3, <2>4, <2>5
<1> QED
  BY <1>3, <1>4

-----------------------------------------------------------------------------
(* The calls, when none is under way. *)

\* Metadata are what they are made of.
LEMMA SameItem ==
  \A m, n \in Items : m.prio = n.prio /\ m.wait = n.wait /\ m.attempts = n.attempts => m = n
  BY DEF Items

\* Queue in memory merges as updateMetadata does, unless it drops a NotBefore.
LEMMA QueueMerges ==
  ASSUME NEW old \in Items, NEW prio \in Ranks, NEW wait \in Nat,
         ~(prio > old.prio /\ wait > old.wait)
  PROVE  /\ old.prio < prio => [old EXCEPT !.prio = prio] = Gcs!Merged(old, prio, wait)
         /\ ~(old.prio < prio) =>
              [old EXCEPT !.wait = Mem!Larger(@, wait)] = Gcs!Merged(old, prio, wait)
<1>1. old.prio \in Nat /\ old.wait \in Nat /\ old.attempts \in Nat /\ prio \in Nat /\ old.prio \in Ranks
  BY Sizes DEF Items
<1> DEFINE new == Gcs!Merged(old, prio, wait)
<1>2. /\ new \in Items /\ new.prio = Gcs!Larger(old.prio, prio)
      /\ new.wait = Gcs!Larger(old.wait, wait) /\ new.attempts = old.attempts
  BY MergeTypes
<1> HIDE DEF new
<1>3. ASSUME old.prio < prio PROVE [old EXCEPT !.prio = prio] = new
  <2> DEFINE it == [old EXCEPT !.prio = prio]
  <2>1. it \in Items /\ it.prio = prio /\ it.wait = old.wait /\ it.attempts = old.attempts
    BY <1>1 DEF Items
  <2>2. new.prio = prio /\ new.wait = old.wait
    BY <1>1, <1>2, <1>3 DEF Gcs!Larger
  <2> HIDE DEF it
  <2>3. it = new
    BY <1>2, <2>1, <2>2, SameItem
  <2> QED
    BY <2>3 DEF it
<1>4. ASSUME ~(old.prio < prio) PROVE [old EXCEPT !.wait = Mem!Larger(@, wait)] = new
  <2> DEFINE it == [old EXCEPT !.wait = Mem!Larger(@, wait)]
  <2>1. it \in Items /\ it.prio = old.prio /\ it.wait = Gcs!Larger(old.wait, wait)
        /\ it.attempts = old.attempts
    BY <1>1 DEF Items, Mem!Larger, Gcs!Larger
  <2>2. new.prio = old.prio
    BY <1>1, <1>2, <1>4 DEF Gcs!Larger
  <2> HIDE DEF it
  <2>3. it = new
    BY <1>2, <2>1, <2>2, SameItem
  <2> QED
    BY <2>3 DEF it
<1> QED
  BY <1>3, <1>4 DEF new

\* Queue, of a key that may be queued and in progress already.
LEMMA QueueIsCalled ==
  ASSUME Types, AtRest, NEW k \in AnyKeys, NEW prio \in Priorities, NEW wait \in Waits,
         ~Dropped(Queue(k, prio, wait)), CallQueue(Queue(k, prio, wait))
  PROVE  /\ Types' /\ Queueing'
         /\ owned' = owned /\ \A j \in Keys : item'[j].attempts \in {item[j].attempts, 0}
<1>1. k \in Keys /\ prio \in Ranks /\ wait \in Nat
  BY Sizes, ConformanceAssumption
<1>2. /\ Mem!Queue(k, prio, wait) /\ Gcs!QueueCall("test", k, prio, wait)
      /\ UNCHANGED <<owned, earlier, queued, inProgress, job>>
  BY DEF CallQueue, Queue, Gcs!QueueCall, Gcs!bucket
<1> DEFINE meta == Gcs!Meta(prio, wait, 0)
<1>3. meta \in Items /\ meta = [prio |-> prio, wait |-> wait, attempts |-> 0]
      /\ meta.prio = prio /\ meta.wait = wait /\ meta.attempts = 0
  BY <1>1, MetaTypes DEF Gcs!Meta
<1>4. IF k \notin queue THEN Mem!Insert(k, meta)
      ELSE Mem!Replace(k, Gcs!Merged(item[k], meta.prio, meta.wait))
  <2>1. CASE k \notin queue
    BY <1>2, <1>3, <2>1 DEF Mem!Queue
  <2>2. CASE k \in queue
    <3>1. item[k] \in Items /\ ~(prio > item[k].prio /\ wait > item[k].wait)
      BY <1>1, <2>2 DEF Dropped, Queue, Types, MemTypes
    <3>2. /\ item[k].prio < prio => [item[k] EXCEPT !.prio = prio] = Gcs!Merged(item[k], prio, wait)
          /\ ~(item[k].prio < prio) =>
               [item[k] EXCEPT !.wait = Mem!Larger(@, wait)] = Gcs!Merged(item[k], prio, wait)
      BY <1>1, <3>1, QueueMerges
    <3>3. Mem!Replace(k, Gcs!Merged(item[k], prio, wait))
      BY <1>2, <2>2, <3>2 DEF Mem!Queue
    <3> QED
      BY <1>3, <2>2, <3>3
  <2> QED
    BY <2>1, <2>2
<1>5. wip' = wip
  BY <1>2 DEF Mem!Queue
<1> HIDE DEF meta
<1>6. /\ MemTypes' /\ Adding(k, meta)' /\ \A j \in Keys \ {k} : Aligned(j)'
      /\ \A j \in Keys : item'[j].attempts \in {item[j].attempts, meta.attempts}
  BY <1>1, <1>2, <1>3, <1>4, <1>5, Adds DEF Types, MemTypes
<1> DEFINE q == [pc |-> "create", key |-> k, prio |-> prio, wait |-> wait,
                 plain |-> (prio = 0 /\ wait = 0), merge |-> Gcs!NoMeta]
<1>7. caller'["test"] = q /\ q \in Calls /\ caller' \in [{"test"} -> Calls]
  <2>1. q \in Calls
    BY <1>1, MetaTypes DEF Calls, Labels
  <2>2. caller' = [caller EXCEPT !["test"] = q]
    BY <1>2 DEF Gcs!QueueCall
  <2> HIDE DEF q
  <2> QED
    BY <2>1, <2>2 DEF Types, BucketTypes
<1>8. Types'
  BY <1>2, <1>6, <1>7 DEF Types, BucketTypes, Existing
<1>9. \A j \in Keys : Resting(j)'
  BY <1>2, <1>5 DEF AtRest, Resting, Working
<1>10. Queueing'
  <2>1. q.pc = "create" /\ q.key = k /\ q.prio = prio /\ q.wait = wait
        /\ (q.plain <=> (prio = 0 /\ wait = 0))
    OBVIOUS
  <2> HIDE DEF q
  <2>2. Others(k)'
    BY <1>6, <1>9 DEF Others
  <2> QED
    BY <1>1, <1>6, <1>7, <1>9, <2>1, <2>2 DEF Queueing, meta
<1> QED
  BY <1>2, <1>3, <1>6, <1>8, <1>10

\* Start of a listed key, with what the listing says of it.
LEMMA StartIsCalled ==
  ASSUME Types, AtRest, NEW k \in queue, CallStart(Start(k))
  PROVE  /\ Types' /\ (Starting(k) \/ Refused(k))'
         /\ \A j \in Keys : item'[j].attempts \in {item[j].attempts, 0}
         /\ \A j \in Keys : owned'[j].attempts \in {owned[j].attempts, item[j].attempts + 1}
<1>1. k \in Keys /\ item[k] \in Items /\ queued[k].meta = item[k] /\ queued[k].exists
  BY DEF Types, MemTypes, AtRest, Aligned
<1> DEFINE g == Starter(k)
           started == [Gcs!NoJob EXCEPT !.pc = "startCopy", !.prio = item[k].prio,
                                        !.attempts = item[k].attempts]
<1>2. started \in JobTypes /\ started.pc = "startCopy" /\ started.prio = item[k].prio
      /\ started.attempts = item[k].attempts
  BY <1>1, Sizes, MetaTypes DEF Gcs!NoJob, JobTypes, Labels, Items
<1>3. /\ job' = [job EXCEPT ![g] = started]
      /\ UNCHANGED <<queued, inProgress, caller, earlier>>
  BY <1>1 DEF CallStart, Start
<1> HIDE DEF started
<1>4. g = (IF k \in wip THEN Orphan(k) ELSE Owner(k)) /\ g \in Gcs!Goroutines
  BY <1>1, Names DEF Starter, AtRest, Resting, Working, Orphan
<1> HIDE DEF g
<1>5. job' \in [Gcs!Goroutines -> JobTypes] /\ job'[g] = started
      /\ \A h \in Gcs!Goroutines \ {g} : job'[h] = job[h]
  BY <1>2, <1>3, <1>4 DEF Types, BucketTypes
<1>6. BucketTypes'
  BY <1>3, <1>5 DEF Types, BucketTypes, Existing
<1>7. NoCaller'
  BY <1>3 DEF AtRest, NoCaller
<1>8. CASE k \in wip
  <2>1. UNCHANGED <<queue, item, older, wip, owned>>
    BY <1>8 DEF CallStart, Start, Mem!StartFails, memVars
  <2>2. \A j \in Keys : job'[Owner(j)] = job[Owner(j)] /\ (j # k => job'[Orphan(j)] = job[Orphan(j)])
    BY <1>1, <1>4, <1>5, <1>8, Names
  <2>3. \A j \in Keys : Aligned(j)' /\ Working(j)'
    BY <1>3, <2>1, <2>2 DEF AtRest, Aligned, Resting, Working
  <2>4. Others(k)'
    BY <1>1, <2>2, <2>3 DEF Others, Resting, AtRest
  <2>5. Refused(k)'
    BY <1>1, <1>2, <1>4, <1>5, <1>7, <1>8, <2>1, <2>3, <2>4 DEF Refused
  <2> QED
    BY <1>6, <2>1, <2>5 DEF Types, MemTypes
<1>9. CASE k \notin wip
  <2>1. /\ Mem!Remove(k) /\ wip' = wip \union {k}
        /\ owned' = [owned EXCEPT ![k] = [prio |-> item[k].prio, attempts |-> item[k].attempts + 1]]
    BY <1>9 DEF CallStart, Start, Mem!StartFails, Mem!Start
  <2>2. [prio |-> item[k].prio, attempts |-> item[k].attempts + 1] \in [prio : Ranks, attempts : Nat]
    BY <1>1 DEF Items
  <2>3. /\ owned' \in [Keys -> [prio : Ranks, attempts : Nat]]
        /\ owned'[k].prio = item[k].prio /\ owned'[k].attempts = item[k].attempts + 1
        /\ \A j \in Keys \ {k} : owned'[j] = owned[j]
    BY <1>1, <2>1, <2>2 DEF Types, MemTypes
  <2>4. /\ MemTypes'
        /\ queue' = queue \ {k} /\ item'[k] = Mem!NoItem /\ older'[k] = {}
        /\ \A j \in Keys \ {k} : item'[j] = item[j] /\ older'[j] = older[j] \ {k}
    BY <1>1, <2>1, <2>3, Removes DEF Types, MemTypes
  <2>5. \A j \in Keys : job'[Orphan(j)] = job[Orphan(j)] /\ (j # k => job'[Owner(j)] = job[Owner(j)])
    BY <1>1, <1>4, <1>5, <1>9, Names
  <2>6. \A j \in Keys \ {k} : Resting(j)'
    BY <1>3, <2>1, <2>3, <2>5 DEF AtRest, Resting, Working
  <2>7. \A j \in Keys \ {k} : (queued'[j].exists <=> j \in queue') /\ queued'[j].meta = item'[j]
                             /\ earlier'[j] \ {k} = older'[j]
    BY <1>3, <2>4 DEF AtRest, Aligned
  <2>8. Starting(k)'
    <3>1. job'[Owner(k)] = started
      BY <1>4, <1>5, <1>9
    <3>2. job'[Orphan(k)].pc = "idle" /\ inProgress'[k].gen = 0
      BY <1>1, <1>3, <1>9, <2>5 DEF AtRest, Resting, Working
    <3> QED
      BY <1>1, <1>2, <1>3, <1>7, <2>1, <2>3, <2>4, <2>6, <2>7, <3>1, <3>2 DEF Starting
  <2>9. Mem!NoItem.attempts = 0
    BY DEF Mem!NoItem
  <2> QED
    BY <1>6, <2>3, <2>4, <2>8, <2>9 DEF Types
<1> QED
  BY <1>8, <1>9

\* What the goroutine of an owner does next, and what stays.
LEMMA OwnerEnds ==
  ASSUME Types, AtRest, NEW k \in wip, NEW pc \in Labels, NEW delay \in Nat, Ends(k, pc, delay)
  PROVE  /\ BucketTypes' /\ UNCHANGED <<queued, inProgress, caller, earlier>>
         /\ owned' \in [Keys -> [prio : Ranks, attempts : Nat]]
         /\ owned'[k].attempts = 0 /\ \A i \in Keys \ {k} : owned'[i] = owned[i]
         /\ LET j == job'[Owner(k)] IN
              /\ j.pc = pc /\ j.delay = delay
              /\ j.prio = owned[k].prio /\ j.attempts = owned[k].attempts
         /\ NoCaller' /\ job'[Orphan(k)].pc = "idle" /\ inProgress'[k].gen > 0
         /\ wip' = wip \ {k} => \A i \in Keys \ {k} : Resting(i)'
<1> DEFINE j == [job[Owner(k)] EXCEPT !.pc = pc, !.live = FALSE, !.delay = delay]
<1>1. k \in Keys /\ Owner(k) \in Gcs!Goroutines
  BY Names DEF Types, MemTypes
<1>2. j \in JobTypes /\ j.pc = pc /\ j.delay = delay
      /\ j.prio = job[Owner(k)].prio /\ j.attempts = job[Owner(k)].attempts
  <2>1. job[Owner(k)] \in JobTypes
    BY <1>1 DEF Types, BucketTypes
  <2> QED
    BY <2>1 DEF JobTypes
<1>3. /\ UNCHANGED <<queued, inProgress, caller, earlier>>
      /\ owned' = [owned EXCEPT ![k] = NotOwned]
      /\ job' = [job EXCEPT ![Owner(k)] = j]
  <2>1. job' = [job EXCEPT ![Owner(k)].pc = pc, ![Owner(k)].live = FALSE, ![Owner(k)].delay = delay]
    BY DEF Ends
  <2>2. job \in [Gcs!Goroutines -> JobTypes]
    BY DEF Types, BucketTypes
  <2> QED
    BY <1>1, <2>1, <2>2 DEF Ends
<1> HIDE DEF j
<1>4. job' \in [Gcs!Goroutines -> JobTypes] /\ job'[Owner(k)] = j
      /\ \A h \in Gcs!Goroutines \ {Owner(k)} : job'[h] = job[h]
  BY <1>1, <1>2, <1>3 DEF Types, BucketTypes
<1>5. BucketTypes'
  BY <1>3, <1>4 DEF Types, BucketTypes, Existing
<1>6. /\ owned' \in [Keys -> [prio : Ranks, attempts : Nat]]
      /\ owned'[k].attempts = 0 /\ \A i \in Keys \ {k} : owned'[i] = owned[i]
  BY <1>1, <1>3, Sizes DEF Types, MemTypes, NotOwned
<1>7. \A i \in Keys : job'[Orphan(i)] = job[Orphan(i)] /\ (i # k => job'[Owner(i)] = job[Owner(i)])
  BY <1>1, <1>4, Names
<1>8. job[Owner(k)].prio = owned[k].prio /\ job[Owner(k)].attempts = owned[k].attempts
      /\ inProgress[k].gen > 0 /\ job[Orphan(k)].pc = "idle" /\ NoCaller
  BY <1>1 DEF AtRest, Resting, Working
<1>9. ASSUME wip' = wip \ {k} PROVE \A i \in Keys \ {k} : Resting(i)'
  BY <1>3, <1>6, <1>7, <1>9 DEF AtRest, Resting, Working
<1>10. NoCaller' /\ job'[Orphan(k)].pc = "idle" /\ inProgress'[k].gen > 0
  BY <1>1, <1>3, <1>7, <1>8 DEF NoCaller
<1> QED
  BY <1>2, <1>3, <1>4, <1>5, <1>6, <1>8, <1>9, <1>10

\* Complete and Deadletter leave the queue alone.
LEMMA DoneIsCalled ==
  ASSUME Types, AtRest, NEW k \in wip, NEW pc \in {"complete", "deadletter"},
         Mem!Complete(k), Ends(k, pc, 0)
  PROVE  /\ Types' /\ Ending(k)' /\ UNCHANGED item
         /\ \A j \in Keys : owned'[j].attempts \in {owned[j].attempts, 0}
<1>1. wip' = wip \ {k} /\ UNCHANGED <<queue, item, older>>
  BY DEF Mem!Complete
<1>2. k \in Keys /\ pc \in Labels
  BY DEF Types, MemTypes, Labels
<1>3. /\ BucketTypes' /\ UNCHANGED <<queued, inProgress, caller, earlier>>
      /\ owned' \in [Keys -> [prio : Ranks, attempts : Nat]]
      /\ owned'[k].attempts = 0 /\ \A i \in Keys \ {k} : owned'[i] = owned[i]
      /\ job'[Owner(k)].pc = pc
      /\ NoCaller' /\ job'[Orphan(k)].pc = "idle" /\ inProgress'[k].gen > 0
      /\ \A i \in Keys \ {k} : Resting(i)'
  BY <1>1, <1>2, OwnerEnds
<1>4. Types'
  BY <1>1, <1>3 DEF Types, MemTypes
<1>5. \A i \in Keys : Aligned(i)'
  BY <1>1, <1>3 DEF AtRest, Aligned
<1>6. Ending(k)'
  BY <1>1, <1>2, <1>3, <1>5 DEF Ending, Others
<1> QED
  BY <1>1, <1>2, <1>3, <1>4, <1>6

\* RequeueWithOptions merges with what was queued meanwhile, and backs off.
LEMMA RequeueIsCalled ==
  ASSUME Types, AtRest, NEW k \in wip, NEW delay \in Nat,
         Mem!RequeueWithOptions(k, owned[k].prio, owned[k].attempts, delay), Ends(k, "requeue", delay)
  PROVE  /\ Types' /\ Ending(k)'
         /\ \A j \in Keys : item'[j].attempts \in {item[j].attempts, owned[k].attempts}
         /\ \A j \in Keys : owned'[j].attempts \in {owned[j].attempts, 0}
<1>1. k \in Keys /\ "requeue" \in Labels /\ wip' = wip \ {k} /\ wip' \subseteq Keys
  BY DEF Types, MemTypes, Labels, Mem!RequeueWithOptions
<1>2. /\ BucketTypes' /\ UNCHANGED <<queued, inProgress, caller, earlier>>
      /\ owned' \in [Keys -> [prio : Ranks, attempts : Nat]]
      /\ owned'[k].attempts = 0 /\ \A i \in Keys \ {k} : owned'[i] = owned[i]
      /\ NoCaller' /\ job'[Orphan(k)].pc = "idle" /\ inProgress'[k].gen > 0
      /\ \A i \in Keys \ {k} : Resting(i)'
  BY <1>1, OwnerEnds
<1>3. PICK j \in JobTypes :
        /\ j = job'[Owner(k)] /\ j.pc = "requeue" /\ j.delay = delay
        /\ j.prio = owned[k].prio /\ j.attempts = owned[k].attempts
  BY <1>1, <1>2, OwnerEnds, Names DEF BucketTypes
<1> DEFINE meta == Gcs!Meta(j.prio, Gcs!RequeueWait(j), j.attempts)
<1>4. /\ meta \in Items
      /\ meta = [prio |-> j.prio, wait |-> Gcs!RequeueWait(j), attempts |-> j.attempts]
      /\ meta.prio = j.prio /\ meta.wait = Gcs!RequeueWait(j) /\ meta.attempts = j.attempts
      /\ meta.wait \in Nat /\ meta.prio \in Ranks
  <2>1. Gcs!RequeueWait(j) \in Nat /\ j.prio \in Ranks /\ j.attempts \in Nat
    BY SameWait DEF JobTypes
  <2> QED
    BY <2>1, MetaTypes DEF Gcs!Meta
<1>5. Mem!RequeueWait(owned[k].prio, owned[k].attempts, delay) = meta.wait
  BY <1>3, <1>4, SameWait
<1> HIDE DEF meta
<1>6. IF k \notin queue THEN Mem!Insert(k, meta)
      ELSE Mem!Replace(k, Gcs!Merged(item[k], meta.prio, meta.wait))
  <2>1. CASE k \notin queue
    BY <1>3, <1>4, <1>5, <2>1 DEF Mem!RequeueWithOptions
  <2>2. CASE k \in queue
    <3>1. [item[k] EXCEPT !.prio = Mem!Larger(@, meta.prio), !.wait = Mem!Larger(@, meta.wait)]
            = Gcs!Merged(item[k], meta.prio, meta.wait)
      BY DEF Gcs!Merged, Mem!Larger, Gcs!Larger
    <3>2. Mem!Replace(k, [item[k] EXCEPT !.prio = Mem!Larger(@, meta.prio),
                                         !.wait = Mem!Larger(@, meta.wait)])
      BY <1>3, <1>4, <1>5, <2>2 DEF Mem!RequeueWithOptions
    <3> QED
      BY <2>2, <3>1, <3>2
  <2> QED
    BY <2>1, <2>2
<1>7. /\ MemTypes' /\ Adding(k, meta)' /\ \A i \in Keys \ {k} : Aligned(i)'
      /\ \A i \in Keys : item'[i].attempts \in {item[i].attempts, meta.attempts}
  BY <1>1, <1>2, <1>4, <1>6, Adds
<1>8. Ending(k)'
  <2>1. Others(k)'
    BY <1>2, <1>7 DEF Others
  <2>2. Adding(k, Gcs!Meta(job[Owner(k)].prio, Gcs!RequeueWait(job[Owner(k)]), job[Owner(k)].attempts))'
    BY <1>3, <1>7 DEF meta
  <2> QED
    BY <1>1, <1>2, <1>3, <2>1, <2>2 DEF Ending
<1> QED
  BY <1>1, <1>2, <1>3, <1>4, <1>7, <1>8 DEF Types

\* Time passes alike.
LEMMA SleepIsCalled ==
  ASSUME Types, AtRest, Mem!QueueTick, Gcs!GcsTick, UNCHANGED <<owned, earlier>>
  PROVE  /\ Types' /\ AtRest'
         /\ \A k \in Keys : item'[k].attempts = item[k].attempts
<1>1. \A m \in Items : Gcs!Aged(m) \in Items /\ Gcs!Aged(m).attempts = m.attempts
                     /\ Gcs!Aged(m) = [m EXCEPT !.wait = IF @ = 0 THEN 0 ELSE @ - 1]
  BY DEF Items, Gcs!Aged, Gcs!Less
<1>2. /\ item' = [k \in Keys |-> Gcs!Aged(item[k])]
      /\ UNCHANGED <<queue, older, wip, owned, earlier>>
  <2>1. item' = [k \in Keys |-> [item[k] EXCEPT !.wait = IF @ = 0 THEN 0 ELSE @ - 1]]
    BY DEF Mem!QueueTick
  <2>2. \A k \in Keys : item[k] \in Items
    BY DEF Types, MemTypes
  <2> QED
    BY <1>1, <2>1, <2>2 DEF Mem!QueueTick
<1>3. MemTypes' /\ \A k \in Keys : item'[k].attempts = item[k].attempts
  BY <1>1, <1>2 DEF Types, MemTypes
<1>4. /\ queued' = [k \in Keys |-> [queued[k] EXCEPT !.meta = Gcs!Aged(@)]]
      /\ inProgress' = [k \in Keys |-> [inProgress[k] EXCEPT !.lease = Gcs!Less(@)]]
      /\ caller' = [c \in {"test"} |-> [caller[c] EXCEPT !.wait = Gcs!Less(@), !.merge = Gcs!Aged(@)]]
      /\ job' = [g \in Gcs!Goroutines |->
           [job[g] EXCEPT !.wait = Gcs!Less(@), !.lease = Gcs!Less(@), !.merge = Gcs!Aged(@)]]
  BY DEF Gcs!GcsTick
<1>5. \A t \in Nat : Gcs!Less(t) \in Nat
  BY DEF Gcs!Less
<1>6. \A k \in Keys : /\ queued'[k] \in [exists : BOOLEAN, meta : Items]
                     /\ queued'[k].exists = queued[k].exists
                     /\ queued'[k].meta = Gcs!Aged(queued[k].meta)
  <2> SUFFICES ASSUME NEW k \in Keys, NEW o \in [exists : BOOLEAN, meta : Items], o = queued[k]
               PROVE  /\ queued'[k] \in [exists : BOOLEAN, meta : Items]
                      /\ queued'[k].exists = o.exists /\ queued'[k].meta = Gcs!Aged(o.meta)
    BY DEF Types, BucketTypes
  <2>1. queued'[k] = [o EXCEPT !.meta = Gcs!Aged(@)]
    BY <1>4
  <2>2. Gcs!Aged(o.meta) \in Items
    BY <1>1
  <2> QED
    BY <2>1, <2>2
<1>7. \A k \in Keys : inProgress'[k].gen = inProgress[k].gen
      /\ inProgress'[k] \in [gen : Nat, prio : Ranks, attempts : Nat, lease : Nat,
                             by : Gcs!Goroutines \union {Gcs!Nobody}]
  BY <1>4, <1>5 DEF Types, BucketTypes
<1>8. caller' \in [{"test"} -> Calls] /\ caller'["test"].pc = caller["test"].pc
  <2>1. PICK c \in Calls : c = caller["test"]
    BY DEF Types, BucketTypes
  <2>2. Gcs!Aged(c.merge) \in Items /\ Gcs!Less(c.wait) \in Nat
    BY <1>1, <1>5 DEF Calls
  <2>3. caller' = [x \in {"test"} |-> [c EXCEPT !.wait = Gcs!Less(@), !.merge = Gcs!Aged(@)]]
    BY <1>4, <2>1
  <2>4. [c EXCEPT !.wait = Gcs!Less(@), !.merge = Gcs!Aged(@)] \in Calls
        /\ [c EXCEPT !.wait = Gcs!Less(@), !.merge = Gcs!Aged(@)].pc = c.pc
    BY <2>2 DEF Calls
  <2> QED
    BY <2>1, <2>3, <2>4
<1>9. \A g \in Gcs!Goroutines : /\ job'[g] \in JobTypes
                               /\ job'[g].pc = job[g].pc /\ job'[g].prio = job[g].prio
                               /\ job'[g].attempts = job[g].attempts
  <2> SUFFICES ASSUME NEW g \in Gcs!Goroutines, NEW j \in JobTypes, j = job[g]
               PROVE  /\ job'[g] \in JobTypes
                      /\ job'[g].pc = j.pc /\ job'[g].prio = j.prio /\ job'[g].attempts = j.attempts
    BY DEF Types, BucketTypes
  <2>1. job'[g] = [j EXCEPT !.wait = Gcs!Less(@), !.lease = Gcs!Less(@), !.merge = Gcs!Aged(@)]
    BY <1>4
  <2>2. Gcs!Aged(j.merge) \in Items /\ Gcs!Less(j.wait) \in Nat /\ Gcs!Less(j.lease) \in Nat
    BY <1>1, <1>5 DEF JobTypes
  <2> QED
    BY <2>1, <2>2 DEF JobTypes
<1>10. Existing' = Existing
  BY <1>6 DEF Existing
<1>11. BucketTypes'
  BY <1>2, <1>4, <1>6, <1>7, <1>8, <1>9, <1>10 DEF Types, BucketTypes
<1>12. \A k \in Keys : Resting(k)'
  <2>1. \A k \in Keys : Owner(k) \in Gcs!Goroutines /\ Orphan(k) \in Gcs!Goroutines
    BY Names
  <2> QED
    BY <1>2, <1>7, <1>9, <2>1 DEF AtRest, Resting, Working
<1>13. \A k \in Keys : Aligned(k)'
  BY <1>2, <1>6 DEF AtRest, Aligned
<1> QED
  BY <1>3, <1>8, <1>11, <1>12, <1>13 DEF Types, AtRest, NoCaller

-----------------------------------------------------------------------------
(* The steps of a call to the bucket. *)

\* One call is under way: that of whoever has something to do.
LEMMA OneCall ==
  ASSUME Types, SideBySide
  PROVE  /\ caller["test"].pc # "idle" => Queueing
         /\ \A k \in Keys : job[Owner(k)].pc \notin {"idle", "running"} => Starting(k) \/ Ending(k)
         /\ \A k \in Keys : job[Orphan(k)].pc # "idle" => Refused(k)
<1>1. CASE AtRest
  BY <1>1 DEF AtRest, NoCaller, Resting, Working
<1>2. CASE Queueing
  <2>1. caller["test"].key \in Keys
    BY DEF Types, BucketTypes, Calls
  <2>2. \A k \in Keys : Resting(k)
    BY <1>2, <2>1 DEF Queueing, Others
  <2> QED
    BY <1>2, <2>2 DEF Resting, Working
<1>3. ASSUME NEW k \in Keys, Starting(k) \/ Ending(k)
      PROVE  /\ NoCaller /\ job[Orphan(k)].pc = "idle" /\ \A j \in Keys \ {k} : Resting(j)
  BY <1>3 DEF Starting, Ending, Others
<1>4. ASSUME NEW k \in Keys, Refused(k)
      PROVE  /\ NoCaller /\ Working(k) /\ \A j \in Keys \ {k} : Resting(j)
  BY <1>4 DEF Refused, Others
<1> QED
  BY <1>1, <1>2, <1>3, <1>4 DEF SideBySide, NoCaller, Resting, Working

\* What a call leaves alone in memory.
Memory == UNCHANGED <<queue, item, older, wip, owned>>

\* The object of a new key is created when there is no other.
LEMMA Creates ==
  ASSUME Types, Memory, Aging, NEW k \in Keys, NEW meta \in Items,
         ~queued[k].exists, Adding(k, meta), \A j \in Keys \ {k} : Aligned(j),
         queued' = [queued EXCEPT ![k] = Gcs!QueuedObject(meta)]
  PROVE  /\ \A j \in Keys : Aligned(j)'
         /\ queued' \in [Keys -> [exists : BOOLEAN, meta : Items]]
         /\ earlier' \in [Keys -> SUBSET Existing']
         /\ \A j \in Keys \ Existing' : earlier'[j] = {}
<1>1. /\ queued' \in [Keys -> [exists : BOOLEAN, meta : Items]]
      /\ queued'[k].exists /\ queued'[k].meta = meta
      /\ \A j \in Keys \ {k} : queued'[j] = queued[j]
  BY DEF Types, BucketTypes, Gcs!QueuedObject
<1>2. Existing' = Existing \union {k} /\ k \notin Existing
      /\ {j \in Keys : queued'[j].exists} = Existing'
  BY <1>1 DEF Existing
<1>3. earlier' = [j \in Keys |-> IF j \notin Existing' THEN {}
                                ELSE IF j \in Existing THEN earlier[j] \intersect Existing'
                                ELSE Existing \intersect Existing']
  BY <1>2 DEF Aging
<1>4. earlier'[k] = Existing /\ \A j \in Keys \ {k} : earlier'[j] = earlier[j]
  <2>1. \A j \in Keys : earlier[j] \subseteq Existing /\ (j \notin Existing => earlier[j] = {})
    BY DEF Types, BucketTypes
  <2>2. \A j \in Keys : earlier[j] \intersect Existing' = earlier[j]
    BY <1>2, <2>1
  <2> QED
    BY <1>2, <1>3, <2>1, <2>2
<1>5. earlier' \in [Keys -> SUBSET Existing'] /\ \A j \in Keys \ Existing' : earlier'[j] = {}
  BY <1>3
<1>6. Aligned(k)'
  BY <1>1, <1>4 DEF Adding, Aligned, Memory
<1>7. \A j \in Keys \ {k} : Aligned(j)'
  BY <1>1, <1>4 DEF Aligned, Memory
<1> QED
  BY <1>1, <1>5, <1>6, <1>7

\* The metadata that was merged is written.
LEMMA Writes ==
  ASSUME Types, Memory, Aging, NEW k \in Keys, NEW meta \in Items,
         queued[k].exists, Adding(k, meta), \A j \in Keys \ {k} : Aligned(j),
         queued' = [queued EXCEPT ![k] = Gcs!Patched(@, item[k])]
  PROVE  /\ \A j \in Keys : Aligned(j)'
         /\ queued' \in [Keys -> [exists : BOOLEAN, meta : Items]]
         /\ earlier' = earlier /\ Existing' = Existing
<1>1. PICK o \in [exists : BOOLEAN, meta : Items] : o = queued[k]
  BY DEF Types, BucketTypes
<1>2. PICK it \in Items : it = item[k]
  BY DEF Types, MemTypes
<1>3. it.attempts = o.meta.attempts
  <2>1. it = Gcs!Merged(o.meta, meta.prio, meta.wait)
    BY <1>1, <1>2 DEF Adding
  <2>2. o.meta \in Items /\ meta.prio \in Ranks /\ meta.wait \in Nat
    BY DEF Items
  <2> QED
    BY <2>1, <2>2, MergeTypes
<1>4. [it EXCEPT !.attempts = IF it.attempts = 0 THEN o.meta.attempts ELSE @] = it
  BY <1>3 DEF Items
<1>5. Gcs!Patched(o, it) = [o EXCEPT !.meta = it]
  BY <1>4 DEF Gcs!Patched
<1>6. queued' = [queued EXCEPT ![k] = [o EXCEPT !.meta = it]]
  BY <1>1, <1>2, <1>5
<1>7. /\ queued' \in [Keys -> [exists : BOOLEAN, meta : Items]]
      /\ queued'[k].exists /\ queued'[k].meta = it
      /\ \A j \in Keys \ {k} : queued'[j] = queued[j]
  <2> DEFINE new == [o EXCEPT !.meta = it]
  <2>1. new \in [exists : BOOLEAN, meta : Items] /\ new.exists = o.exists /\ new.meta = it
    OBVIOUS
  <2>2. queued' = [queued EXCEPT ![k] = new]
    BY <1>6
  <2> HIDE DEF new
  <2> QED
    BY <1>1, <2>1, <2>2 DEF Types, BucketTypes
<1>8. earlier' = earlier /\ Existing' = Existing
  <2>1. \A j \in Keys : queued'[j].exists <=> queued[j].exists
    BY <1>7
  <2> QED
    BY <2>1, AgesStay DEF Existing
<1>9. Aligned(k)'
  BY <1>2, <1>7, <1>8 DEF Adding, Aligned, Memory
<1>10. \A j \in Keys \ {k} : Aligned(j)'
  BY <1>7, <1>8 DEF Aligned, Memory
<1> QED
  BY <1>7, <1>8, <1>9, <1>10

\* What needs no change is merged.
LEMMA NothingToMerge ==
  ASSUME NEW k \in Keys, NEW prio, NEW wait, NEW attempts,
         Adding(k, Gcs!Meta(prio, wait, attempts)), queued[k].exists,
         Gcs!Merged(queued[k].meta, prio, wait) = queued[k].meta
  PROVE  Aligned(k)
  BY DEF Adding, Aligned, Gcs!Meta

\* The steps of Queue.
LEMMA QueueWorks ==
  ASSUME Types, SideBySide, Memory, Aging,
         Gcs!QueueCreate("test") \/ Gcs!QueueRead("test") \/ Gcs!QueueWrite("test")
  PROVE  Types' /\ SideBySide'
<1>1. PICK q \in Calls : q = caller["test"]
  BY DEF Types, BucketTypes
<1> DEFINE k == q.key
           meta == Gcs!Meta(q.prio, q.wait, 0)
<1>2. q.pc \in {"create", "read", "write"}
  BY <1>1 DEF Gcs!QueueCreate, Gcs!QueueRead, Gcs!QueueWrite
<1>3. Queueing
  BY <1>1, <1>2, OneCall
<1>4. /\ k \in Keys /\ k \in queue /\ Others(k) /\ Resting(k) /\ Adding(k, meta)
      /\ q.plain <=> (q.prio = 0 /\ q.wait = 0)
      /\ q.pc # "create" => queued[k].exists
      /\ q.pc = "write" => q.merge = item[k]
  BY <1>1, <1>3 DEF Queueing, Adding, Calls
<1>5. meta \in Items /\ q.prio \in Ranks /\ q.wait \in Nat
  BY MetaTypes DEF Calls
<1>6. UNCHANGED <<inProgress, job>>
  BY DEF Gcs!QueueCreate, Gcs!QueueRead, Gcs!QueueWrite, Gcs!bucket
<1>7. \A j \in Keys : Resting(j)'
  BY <1>4, <1>6 DEF Others, Resting, Working, Memory
<1>8. \A j \in Keys \ {k} : Aligned(j)
  BY <1>4 DEF Others
<1>9. Gcs!NoCall \in Calls /\ Gcs!NoCall.pc = "idle"
  <2>1. (CHOOSE i \in Keys : TRUE) \in Keys
    BY <1>4
  <2> QED
    BY <2>1, MetaTypes, Sizes DEF Gcs!NoCall, Labels, Calls
<1> HIDE DEF meta
\* The call is over.
<1>10. ASSUME Gcs!Return("test"), \A j \in Keys : Aligned(j)',
             queued' \in [Keys -> [exists : BOOLEAN, meta : Items]],
             earlier' \in [Keys -> SUBSET Existing'], \A j \in Keys \ Existing' : earlier'[j] = {}
       PROVE Types' /\ SideBySide'
  <2>1. caller' = [caller EXCEPT !["test"] = Gcs!NoCall]
    BY <1>10 DEF Gcs!Return
  <2>2. caller' \in [{"test"} -> Calls] /\ caller'["test"] = Gcs!NoCall
    BY <1>9, <2>1 DEF Types, BucketTypes
  <2>3. Types'
    BY <1>6, <1>10, <2>2 DEF Types, MemTypes, BucketTypes, Memory
  <2>4. AtRest'
    BY <1>7, <1>9, <1>10, <2>2 DEF AtRest, NoCaller
  <2> QED
    BY <2>3, <2>4 DEF SideBySide
\* It goes on, with nothing changed in the bucket.
<1>11. ASSUME queued' = queued, NEW c \in Calls, caller' = [caller EXCEPT !["test"] = c],
              c.pc \in {"read", "write"}, c.key = k, c.prio = q.prio, c.wait = q.wait, c.plain = q.plain,
              queued[k].exists, c.pc = "write" => c.merge = item[k]
       PROVE  Types' /\ SideBySide'
  <2>1. caller' \in [{"test"} -> Calls] /\ caller'["test"] = c
    BY <1>11 DEF Types, BucketTypes
  <2>2. earlier' = earlier /\ Existing' = Existing
    BY <1>11, AgesStay DEF Existing
  <2>3. Types'
    BY <1>6, <1>11, <2>1, <2>2 DEF Types, MemTypes, BucketTypes, Memory
  <2>4. Others(k)' /\ Adding(k, meta)'
    BY <1>4, <1>7, <1>8, <1>11, <2>2 DEF Others, Aligned, Adding, Memory
  <2>5. Queueing'
    BY <1>4, <1>7, <1>11, <2>1, <2>4 DEF Queueing, Memory, meta
  <2> QED
    BY <2>3, <2>5 DEF SideBySide
<1>12. CASE Gcs!QueueCreate("test")
  <2>1. q.pc = "create"
    BY <1>1, <1>12 DEF Gcs!QueueCreate
  <2>2. CASE ~queued[k].exists
    <3>1. queued' = [queued EXCEPT ![k] = Gcs!QueuedObject(meta)] /\ Gcs!Return("test")
      BY <1>1, <1>12, <2>2 DEF Gcs!QueueCreate, meta
    <3> QED
      BY <1>4, <1>5, <1>8, <1>10, <2>2, <3>1, Creates
  <2>3. CASE queued[k].exists
    <3>1. queued' = queued
      BY <1>1, <1>12, <2>3 DEF Gcs!QueueCreate
    <3>2. CASE q.plain
      <4>1. Gcs!Return("test")
        BY <1>1, <1>12, <2>3, <3>2 DEF Gcs!QueueCreate
      <4>2. queued[k].meta \in Items
        BY <1>4 DEF Types, BucketTypes
      <4>3. Aligned(k)
        BY <1>4, <1>5, <2>3, <3>2, <4>2, MergeTypes, NothingToMerge DEF meta
      <4>4. earlier' = earlier /\ Existing' = Existing
        BY <3>1, AgesStay DEF Existing
      <4>5. \A j \in Keys : Aligned(j)'
        BY <1>8, <3>1, <4>3, <4>4 DEF Aligned, Memory
      <4> QED
        BY <1>10, <3>1, <4>1, <4>4, <4>5 DEF Types, BucketTypes
    <3>3. CASE ~q.plain
      <4> DEFINE c == [q EXCEPT !.pc = "read", !.merge = Gcs!NoMeta]
      <4>1. caller' = [caller EXCEPT !["test"] = c]
        <5>1. caller' = [caller EXCEPT !["test"].pc = "read", !["test"].merge = Gcs!NoMeta]
          BY <1>1, <1>12, <2>3, <3>3 DEF Gcs!QueueCreate, Gcs!Call
        <5>2. caller \in [{"test"} -> Calls]
          BY DEF Types, BucketTypes
        <5> QED
          BY <1>1, <5>1, <5>2
      <4>2. c \in Calls /\ c.pc = "read" /\ c.key = k /\ c.prio = q.prio /\ c.wait = q.wait
            /\ c.plain = q.plain
        BY MetaTypes DEF Calls, Labels
      <4> HIDE DEF c
      <4> QED
        BY <1>11, <2>3, <3>1, <4>1, <4>2
    <3> QED
      BY <3>2, <3>3
  <2> QED
    BY <2>2, <2>3
<1>13. CASE Gcs!QueueRead("test")
  <2>1. q.pc = "read" /\ queued[k].exists
    BY <1>1, <1>4, <1>13 DEF Gcs!QueueRead
  <2>2. queued' = queued
    BY <1>13 DEF Gcs!QueueRead, Gcs!bucket
  <2> DEFINE new == Gcs!Merged(queued[k].meta, q.prio, q.wait)
  <2>3. new = item[k] /\ new \in Items
    <3>1. item[k] = new
      BY <2>1, <1>4 DEF Adding, meta, Gcs!Meta
    <3> QED
      BY <1>4, <3>1 DEF Types, MemTypes
  <2>4. CASE new = queued[k].meta
    <3>1. Gcs!Return("test")
      BY <1>1, <1>13, <2>1, <2>4 DEF Gcs!QueueRead
    <3>2. Aligned(k)
      BY <1>4, <2>1, <2>4, NothingToMerge DEF meta
    <3>3. earlier' = earlier /\ Existing' = Existing
      BY <2>2, AgesStay DEF Existing
    <3>4. \A j \in Keys : Aligned(j)'
      BY <1>8, <2>2, <3>2, <3>3 DEF Aligned, Memory
    <3> QED
      BY <1>10, <2>2, <3>1, <3>3, <3>4 DEF Types, BucketTypes
  <2>5. CASE new # queued[k].meta
    <3> DEFINE c == [q EXCEPT !.pc = "write", !.merge = new]
    <3> HIDE DEF new
    <3>1. caller' = [caller EXCEPT !["test"] = c]
      <4>1. caller' = [caller EXCEPT !["test"].pc = "write", !["test"].merge = new]
        BY <1>1, <1>13, <2>1, <2>5 DEF Gcs!QueueRead, new
      <4>2. caller \in [{"test"} -> Calls]
        BY DEF Types, BucketTypes
      <4> QED
        BY <1>1, <4>1, <4>2
    <3>2. c \in Calls /\ c.pc = "write" /\ c.key = k /\ c.prio = q.prio /\ c.wait = q.wait
          /\ c.plain = q.plain /\ c.merge = new
      BY <2>3 DEF Calls, Labels
    <3> HIDE DEF c
    <3> QED
      BY <1>11, <2>1, <2>2, <2>3, <3>1, <3>2
  <2> QED
    BY <2>4, <2>5
<1>14. CASE Gcs!QueueWrite("test")
  <2>1. q.pc = "write" /\ queued[k].exists
    BY <1>1, <1>4, <1>14 DEF Gcs!QueueWrite
  <2>2. queued' = [queued EXCEPT ![k] = Gcs!Patched(@, item[k])] /\ Gcs!Return("test")
    BY <1>1, <1>4, <1>14, <2>1 DEF Gcs!QueueWrite
  <2>3. /\ \A j \in Keys : Aligned(j)'
        /\ queued' \in [Keys -> [exists : BOOLEAN, meta : Items]]
        /\ earlier' = earlier /\ Existing' = Existing
    BY <1>4, <1>5, <1>8, <2>1, <2>2, Writes
  <2> QED
    BY <1>10, <2>2, <2>3 DEF Types, BucketTypes
<1> QED
  BY <1>12, <1>13, <1>14

\* A goroutine of k does something: those of the other keys rest.
LEMMA JobMoves ==
  ASSUME Types, Memory, NEW k \in Keys, NEW g \in {Owner(k), Orphan(k)}, NEW j \in JobTypes,
         job' = [job EXCEPT ![g] = j],
         \A i \in Keys \ {k} : Resting(i) /\ inProgress'[i] = inProgress[i]
  PROVE  /\ job' \in [Gcs!Goroutines -> JobTypes] /\ job'[g] = j
         /\ \A h \in {Owner(k), Orphan(k)} \ {g} : job'[h] = job[h]
         /\ \A i \in Keys \ {k} : Resting(i)'
<1>1. g \in Gcs!Goroutines /\ Owner(k) \in Gcs!Goroutines /\ Orphan(k) \in Gcs!Goroutines
  BY Names
<1>2. job' \in [Gcs!Goroutines -> JobTypes] /\ job'[g] = j
      /\ \A h \in Gcs!Goroutines \ {g} : job'[h] = job[h]
  BY <1>1 DEF Types, BucketTypes
<1>3. \A i \in Keys \ {k} : job'[Owner(i)] = job[Owner(i)] /\ job'[Orphan(i)] = job[Orphan(i)]
  <2> SUFFICES ASSUME NEW i \in Keys \ {k} PROVE Owner(i) # g /\ Orphan(i) # g
    BY <1>2, Names
  <2> QED
    BY Names
<1>4. \A i \in Keys \ {k} : Resting(i)'
  BY <1>3 DEF Resting, Working, Memory
<1> QED
  BY <1>1, <1>2, <1>4

\* What stays in the bucket is of its type still.
LEMMA BucketStays ==
  ASSUME Types, Memory, Aging, UNCHANGED <<queued, caller>>,
         job' \in [Gcs!Goroutines -> JobTypes],
         inProgress' \in [Keys -> [gen : Nat, prio : Ranks, attempts : Nat, lease : Nat,
                                  by : Gcs!Goroutines \union {Gcs!Nobody}]]
  PROVE  /\ Types' /\ earlier' = earlier /\ Existing' = Existing
         /\ \A j \in Keys : Aligned(j) => Aligned(j)'
<1>1. earlier' = earlier /\ Existing' = Existing
  BY AgesStay DEF Existing
<1> QED
  BY <1>1 DEF Types, MemTypes, BucketTypes, Memory, Aligned

\* A goroutine that is done.
LEMMA NoJobType == Gcs!NoJob \in JobTypes /\ Gcs!NoJob.pc = "idle"
  BY MetaTypes, Sizes DEF JobTypes, Gcs!NoJob, Labels

\* The steps of Start: both fail, or the bucket gets where memory is.
LEMMA StartWorks ==
  ASSUME Types, Bounded, SideBySide, Memory, Aging, NEW g \in Gcs!Goroutines,
         Gcs!StartCopy(g) \/ Gcs!StartDelete(g)
  PROVE  Types' /\ SideBySide'
<1>1. PICK k \in Keys : g \in {Owner(k), Orphan(k)} /\ Gcs!KeyOf(g) = k
  BY Names
<1>2. PICK j \in JobTypes : j = job[g]
  BY DEF Types, BucketTypes
<1>3. caller' = caller /\ j.pc \in {"startCopy", "startDelete"}
  BY <1>2 DEF Gcs!StartCopy, Gcs!StartDelete
\* Start fails, as the one in memory did.
<1>4. CASE g = Orphan(k)
  <2>1. Refused(k) /\ j.pc = "startCopy"
    BY <1>2, <1>3, <1>4, OneCall DEF Refused
  <2>2. inProgress[k].gen > 0 /\ \A i \in Keys \ {k} : Resting(i)
    BY <2>1 DEF Refused, Working, Others
  <2>3. job' = [job EXCEPT ![g] = Gcs!NoJob] /\ UNCHANGED <<queued, inProgress>>
    BY <1>1, <1>2, <2>1, <2>2 DEF Gcs!StartCopy, Gcs!StartDelete, Gcs!Done
  <2>4. /\ job' \in [Gcs!Goroutines -> JobTypes] /\ job'[g] = Gcs!NoJob
        /\ job'[Owner(k)] = job[Owner(k)]
        /\ \A i \in Keys \ {k} : Resting(i)'
    BY <1>1, <1>4, <2>2, <2>3, NoJobType, JobMoves, Names
  <2>5. Types' /\ \A i \in Keys : Aligned(i) => Aligned(i)'
    BY <1>3, <2>3, <2>4, BucketStays DEF Types, BucketTypes
  <2>6. Resting(k)'
    BY <1>4, <2>1, <2>3, <2>4, NoJobType DEF Refused, Resting, Working, Memory
  <2>7. AtRest'
    BY <1>3, <2>1, <2>4, <2>5, <2>6 DEF AtRest, Refused, Others, NoCaller
  <2> QED
    BY <2>5, <2>7 DEF SideBySide
<1>5. CASE g = Owner(k)
  <2>1. Starting(k)
    <3>1. job[Owner(k)].pc \in {"startCopy", "startDelete"}
      BY <1>2, <1>3, <1>5
    <3>2. ~Ending(k)
      BY <3>1 DEF Ending
    <3> QED
      BY <3>1, <3>2, OneCall
  <2>2. /\ NoCaller /\ job[Orphan(k)].pc = "idle" /\ k \in wip /\ k \notin queue /\ queued[k].exists
        /\ item[k] = Mem!NoItem /\ older[k] = {} /\ owned[k].prio = j.prio
        /\ j.pc = "startCopy" => inProgress[k].gen = 0 /\ owned[k].attempts = j.attempts + 1
        /\ j.pc = "startDelete" => inProgress[k].gen > 0 /\ owned[k].attempts = j.attempts
    BY <1>2, <1>5, <2>1 DEF Starting
  <2>3. \A i \in Keys \ {k} : Resting(i) /\ (queued[i].exists <=> i \in queue)
                             /\ queued[i].meta = item[i] /\ earlier[i] \ {k} = older[i]
    BY <2>1 DEF Starting
  \* The object is copied.
  <2>4. CASE Gcs!StartCopy(g)
    <3>1. j.pc = "startCopy"
      BY <1>2, <2>4 DEF Gcs!StartCopy
    <3>2. /\ inProgress' = [inProgress EXCEPT ![k] = Gcs!Made(g)]
          /\ job' = [job EXCEPT ![g] = Gcs!Started(j)]
          /\ queued' = queued
      BY <1>1, <1>2, <2>2, <2>4, <3>1 DEF Gcs!StartCopy
    <3>3. Gcs!Attempt(j.attempts) = j.attempts + 1
      <4>1. j.attempts \in Nat /\ MaxCalls \in Nat /\ calls \in Nat
        BY Sizes DEF JobTypes, Bounded
      <4>2. j.attempts + 1 + calls <= MaxCalls
        BY <2>2, <3>1 DEF Bounded
      <4> QED
        BY <4>1, <4>2 DEF Gcs!Attempt, Gcs!Smaller
    <3> DEFINE new == Gcs!Started(j)
    <3>4. new \in JobTypes /\ new.pc = "startDelete" /\ new.prio = j.prio /\ new.attempts = j.attempts + 1
      <4> DEFINE moved == [j EXCEPT !.pc = "startDelete", !.gen = 1]
      <4>1. moved \in JobTypes /\ moved.pc = "startDelete" /\ moved.prio = j.prio
            /\ moved.attempts = j.attempts
        BY DEF JobTypes, Labels
      <4>2. new = [moved EXCEPT !.attempts = j.attempts + 1, !.lease = 3]
        BY <3>3, <4>1 DEF Gcs!Started, JobTypes
      <4>3. j.attempts + 1 \in Nat
        BY DEF JobTypes
      <4> HIDE DEF moved, new
      <4> QED
        BY <4>1, <4>2, <4>3 DEF JobTypes
    <3>5. Gcs!Made(g) \in [gen : Nat, prio : Ranks, attempts : Nat, lease : Nat,
                           by : Gcs!Goroutines \union {Gcs!Nobody}] /\ Gcs!Made(g).gen = 1
      BY <1>2, <3>3 DEF Gcs!Made, JobTypes
    <3>6. /\ inProgress' \in [Keys -> [gen : Nat, prio : Ranks, attempts : Nat, lease : Nat,
                                       by : Gcs!Goroutines \union {Gcs!Nobody}]]
          /\ inProgress'[k].gen = 1 /\ \A i \in Keys \ {k} : inProgress'[i] = inProgress[i]
      BY <3>2, <3>5 DEF Types, BucketTypes
    <3> HIDE DEF new
    <3>7. /\ job' \in [Gcs!Goroutines -> JobTypes] /\ job'[g] = new
          /\ job'[Orphan(k)] = job[Orphan(k)]
          /\ \A i \in Keys \ {k} : Resting(i)'
      BY <1>1, <1>5, <2>3, <3>2, <3>4, <3>6, JobMoves, Names DEF new
    <3>8. Types' /\ earlier' = earlier
      BY <1>3, <3>2, <3>6, <3>7, BucketStays
    <3>9. Starting(k)'
      BY <1>3, <1>5, <2>2, <2>3, <3>1, <3>2, <3>4, <3>6, <3>7, <3>8 DEF Starting, Memory, NoCaller
    <3> QED
      BY <3>8, <3>9 DEF SideBySide
  \* The queued object is deleted.
  <2>5. CASE Gcs!StartDelete(g)
    <3> DEFINE new == [j EXCEPT !.pc = "running", !.live = TRUE]
    <3>1. /\ j.pc = "startDelete" /\ job' = [job EXCEPT ![g] = new]
          /\ queued' = [queued EXCEPT ![k] = Gcs!NoQueued] /\ inProgress' = inProgress
      BY <1>1, <1>2, <2>2, <2>5 DEF Gcs!StartDelete
    <3>2. new \in JobTypes /\ new.pc = "running" /\ new.prio = j.prio /\ new.attempts = j.attempts
      BY DEF JobTypes, Labels
    <3> HIDE DEF new
    <3>3. /\ job' \in [Gcs!Goroutines -> JobTypes] /\ job'[g] = new
          /\ job'[Orphan(k)] = job[Orphan(k)]
          /\ \A i \in Keys \ {k} : Resting(i)'
      BY <1>1, <1>5, <2>3, <3>1, <3>2, JobMoves, Names
    <3>4. /\ queued' \in [Keys -> [exists : BOOLEAN, meta : Items]]
          /\ ~queued'[k].exists /\ queued'[k].meta = item[k]
          /\ \A i \in Keys \ {k} : queued'[i] = queued[i]
      BY <2>2, <3>1, MetaTypes DEF Types, BucketTypes, Gcs!NoQueued
    <3>5. Existing' = Existing \ {k} /\ {i \in Keys : queued'[i].exists} = Existing'
      BY <3>4 DEF Existing
    <3>6. \A i \in Keys : earlier[i] \subseteq Existing /\ (i \notin Existing => earlier[i] = {})
      BY DEF Types, BucketTypes
    <3>7. earlier' = [i \in Keys |-> IF i \notin Existing' THEN {}
                                    ELSE IF i \in Existing THEN earlier[i] \intersect Existing'
                                    ELSE Existing \intersect Existing']
      BY <3>5 DEF Aging
    <3>8. earlier'[k] = {} /\ \A i \in Keys \ {k} : earlier'[i] = earlier[i] \ {k}
      <4>1. \A i \in Keys : earlier[i] \intersect Existing' = earlier[i] \ {k}
        BY <3>5, <3>6
      <4> QED
        BY <3>5, <3>6, <3>7, <4>1
    <3>9. earlier' \in [Keys -> SUBSET Existing'] /\ \A i \in Keys \ Existing' : earlier'[i] = {}
      BY <3>7
    <3>10. Types'
      BY <1>3, <3>1, <3>3, <3>4, <3>9 DEF Types, MemTypes, BucketTypes, Memory
    <3>11. \A i \in Keys : Aligned(i)'
      BY <2>2, <2>3, <3>4, <3>8 DEF Aligned, Memory
    <3>12. Resting(k)'
      BY <1>5, <2>2, <3>1, <3>2, <3>3 DEF Resting, Working, Memory
    <3>13. AtRest'
      BY <1>3, <2>2, <3>3, <3>11, <3>12 DEF AtRest, NoCaller
    <3> QED
      BY <3>10, <3>13 DEF SideBySide
  <2> QED
    BY <2>4, <2>5
<1> QED
  BY <1>1, <1>4, <1>5

\* The steps of Complete, Deadletter and RequeueWithOptions.
LEMMA EndWorks ==
  ASSUME Types, SideBySide, Memory, Aging, NEW g \in Gcs!Goroutines,
         \/ Gcs!CompleteDeadLetter(g) \/ Gcs!DeadletterCopy(g) \/ Gcs!DeleteOwn(g)
         \/ Gcs!RequeueCopy(g) \/ Gcs!RequeueRead(g) \/ Gcs!RequeueWrite(g)
  PROVE  Types' /\ SideBySide'
<1>1. PICK k \in Keys : g \in {Owner(k), Orphan(k)} /\ Gcs!KeyOf(g) = k
  BY Names
<1>2. PICK j \in JobTypes : j = job[g]
  BY DEF Types, BucketTypes
<1>3. /\ caller' = caller
      /\ j.pc \in {"complete", "deadletter", "delete", "requeue", "requeueRead", "requeueWrite"}
  BY <1>2 DEF Gcs!CompleteDeadLetter, Gcs!DeadletterCopy, Gcs!DeleteOwn, Gcs!RequeueCopy,
    Gcs!RequeueRead, Gcs!RequeueWrite, Gcs!bucket
<1>4. g = Owner(k) /\ Ending(k)
  <2>1. g # Orphan(k)
    <3>1. j.pc # "startCopy" /\ j.pc # "idle"
      BY <1>3
    <3> QED
      BY <1>2, <3>1, OneCall DEF Refused
  <2>2. job[Owner(k)] = j
    BY <1>1, <1>2, <2>1
  <2>3. ~Starting(k) /\ j.pc \notin {"idle", "running"}
    BY <1>3, <2>2 DEF Starting
  <2> QED
    BY <1>1, <2>1, <2>2, <2>3, OneCall
<1>5. /\ NoCaller /\ Others(k) /\ job[Orphan(k)].pc = "idle" /\ k \notin wip /\ inProgress[k].gen > 0
      /\ \/ j.pc \in {"complete", "deadletter", "delete"} /\ Aligned(k)
         \/ j.pc = "requeue" /\ Adding(k, Gcs!Meta(j.prio, Gcs!RequeueWait(j), j.attempts))
         \/ j.pc = "requeueRead" /\ queued[k].exists /\ Adding(k, Gcs!Meta(j.prio, j.wait, j.attempts))
         \/ /\ j.pc = "requeueWrite" /\ queued[k].exists
            /\ Adding(k, Gcs!Meta(j.prio, j.wait, j.attempts)) /\ j.merge = item[k]
  BY <1>2, <1>4 DEF Ending
<1>6. /\ \A i \in Keys \ {k} : Aligned(i) /\ Resting(i)
      /\ j.prio \in Ranks /\ j.wait \in Nat /\ j.attempts \in Nat /\ Gcs!RequeueWait(j) \in Nat
      /\ queued[k].meta \in Items
  BY <1>5, SameWait DEF Others, JobTypes, Types, BucketTypes
\* Most steps leave the object in progress alone.
<1>7. ASSUME inProgress' = inProgress, NEW new \in JobTypes, job' = [job EXCEPT ![g] = new]
      PROVE  /\ job' \in [Gcs!Goroutines -> JobTypes] /\ job'[Owner(k)] = new
             /\ NoCaller' /\ job'[Orphan(k)].pc = "idle" /\ k \notin wip' /\ inProgress'[k].gen > 0
             /\ \A i \in Keys \ {k} : Resting(i)'
  <2>1. /\ job' \in [Gcs!Goroutines -> JobTypes] /\ job'[g] = new
        /\ job'[Orphan(k)] = job[Orphan(k)]
        /\ \A i \in Keys \ {k} : Resting(i)'
    BY <1>4, <1>6, <1>7, JobMoves, Names
  <2> QED
    BY <1>3, <1>4, <1>5, <1>7, <2>1 DEF NoCaller, Memory
\* They lead to the delete, with the queued object as it ought to be ...
<1>8. ASSUME inProgress' = inProgress, Gcs!Step(g, "delete"), \A i \in Keys : Aligned(i)',
             queued' \in [Keys -> [exists : BOOLEAN, meta : Items]],
             earlier' \in [Keys -> SUBSET Existing'], \A i \in Keys \ Existing' : earlier'[i] = {}
      PROVE  Types' /\ SideBySide'
  <2> DEFINE new == [j EXCEPT !.pc = "delete"]
  <2>1. new \in JobTypes /\ new.pc = "delete"
    BY DEF JobTypes, Labels
  <2>2. job' = [job EXCEPT ![g] = new]
    BY <1>2, <1>8 DEF Gcs!Step, Types, BucketTypes
  <2> HIDE DEF new
  <2>3. /\ job' \in [Gcs!Goroutines -> JobTypes] /\ job'[Owner(k)] = new
        /\ NoCaller' /\ job'[Orphan(k)].pc = "idle" /\ k \notin wip' /\ inProgress'[k].gen > 0
        /\ \A i \in Keys \ {k} : Resting(i)'
    BY <1>7, <1>8, <2>1, <2>2
  <2>4. Types'
    BY <1>3, <1>8, <2>3 DEF Types, MemTypes, BucketTypes, Memory
  <2>5. Ending(k)'
    BY <1>8, <2>1, <2>3 DEF Ending, Others
  <2> QED
    BY <2>4, <2>5 DEF SideBySide
\* ... or to the merge of what was computed.
<1>9. ASSUME UNCHANGED <<inProgress, queued>>, NEW new \in JobTypes, job' = [job EXCEPT ![g] = new],
             new.pc \in {"requeueRead", "requeueWrite"}, queued[k].exists,
             Adding(k, Gcs!Meta(new.prio, new.wait, new.attempts)),
             new.pc = "requeueWrite" => new.merge = item[k]
      PROVE  Types' /\ SideBySide'
  <2>1. /\ job' \in [Gcs!Goroutines -> JobTypes] /\ job'[Owner(k)] = new
        /\ NoCaller' /\ job'[Orphan(k)].pc = "idle" /\ k \notin wip' /\ inProgress'[k].gen > 0
        /\ \A i \in Keys \ {k} : Resting(i)'
    BY <1>7, <1>9
  <2>2. /\ Types' /\ earlier' = earlier /\ Existing' = Existing
        /\ \A i \in Keys : Aligned(i) => Aligned(i)'
    BY <1>3, <1>9, <2>1, BucketStays DEF Types, BucketTypes
  <2>3. Others(k)' /\ Adding(k, Gcs!Meta(new.prio, new.wait, new.attempts))'
    BY <1>6, <1>9, <2>1, <2>2 DEF Others, Adding, Memory
  <2>4. Ending(k)'
    BY <1>9, <2>1, <2>3 DEF Ending, Memory
  <2> QED
    BY <2>2, <2>4 DEF SideBySide
<1>10. ASSUME UNCHANGED <<inProgress, queued>>, Gcs!Step(g, "delete"), Aligned(k)
       PROVE  Types' /\ SideBySide'
  <2>1. earlier' = earlier /\ Existing' = Existing
    BY <1>10, AgesStay DEF Existing
  <2>2. \A i \in Keys : Aligned(i)'
    BY <1>6, <1>10, <2>1 DEF Aligned, Memory
  <2> QED
    BY <1>8, <1>10, <2>1, <2>2 DEF Types, BucketTypes
<1>11. CASE Gcs!CompleteDeadLetter(g)
  <2>1. j.pc = "complete"
    BY <1>2, <1>11 DEF Gcs!CompleteDeadLetter
  <2>2. Aligned(k)
    BY <1>5, <2>1
  <2> QED
    BY <1>10, <1>11, <2>2 DEF Gcs!CompleteDeadLetter
<1>12. CASE Gcs!DeadletterCopy(g)
  <2>1. j.pc = "deadletter"
    BY <1>2, <1>12 DEF Gcs!DeadletterCopy
  <2>2. Aligned(k)
    BY <1>5, <2>1
  <2> QED
    BY <1>1, <1>5, <1>10, <1>12, <2>2 DEF Gcs!DeadletterCopy
<1>13. CASE Gcs!DeleteOwn(g)
  <2>1. j.pc = "delete"
    BY <1>2, <1>13 DEF Gcs!DeleteOwn
  <2>2. Aligned(k)
    BY <1>5, <2>1
  <2>3. /\ inProgress' = [inProgress EXCEPT ![k] = Gcs!NoInProgress]
        /\ job' = [job EXCEPT ![g] = Gcs!NoJob] /\ queued' = queued
    BY <1>1, <1>13 DEF Gcs!DeleteOwn, Gcs!DeleteInProgress, Gcs!Done
  <2>4. /\ inProgress' \in [Keys -> [gen : Nat, prio : Ranks, attempts : Nat, lease : Nat,
                                     by : Gcs!Goroutines \union {Gcs!Nobody}]]
        /\ inProgress'[k].gen = 0 /\ \A i \in Keys \ {k} : inProgress'[i] = inProgress[i]
    BY <2>3, Sizes DEF Types, BucketTypes, Gcs!NoInProgress
  <2>5. /\ job' \in [Gcs!Goroutines -> JobTypes] /\ job'[g] = Gcs!NoJob
        /\ job'[Orphan(k)] = job[Orphan(k)]
        /\ \A i \in Keys \ {k} : Resting(i)'
    BY <1>4, <1>6, <2>3, <2>4, NoJobType, JobMoves, Names
  <2>6. Types' /\ \A i \in Keys : Aligned(i) => Aligned(i)'
    BY <1>3, <2>3, <2>4, <2>5, BucketStays
  <2>7. Resting(k)'
    BY <1>4, <1>5, <2>4, <2>5, NoJobType DEF Resting, Working, Memory
  <2>8. AtRest'
    BY <1>3, <1>5, <1>6, <2>2, <2>5, <2>6, <2>7 DEF AtRest, NoCaller
  <2> QED
    BY <2>6, <2>8 DEF SideBySide
<1>14. CASE Gcs!RequeueCopy(g)
  <2> DEFINE meta == Gcs!Meta(j.prio, Gcs!RequeueWait(j), j.attempts)
  <2>1. j.pc = "requeue" /\ inProgress' = inProgress
    BY <1>2, <1>14 DEF Gcs!RequeueCopy
  <2>2. Adding(k, meta) /\ meta \in Items
    BY <1>5, <1>6, <2>1, MetaTypes
  <2>3. CASE ~queued[k].exists
    <3>1. queued' = [queued EXCEPT ![k] = Gcs!QueuedObject(meta)] /\ Gcs!Step(g, "delete")
      BY <1>1, <1>2, <1>5, <1>14, <2>3 DEF Gcs!RequeueCopy
    <3> HIDE DEF meta
    <3> QED
      BY <1>6, <1>8, <2>1, <2>2, <2>3, <3>1, Creates
  <2>4. CASE queued[k].exists
    <3>1. queued' = queued
      BY <1>1, <1>2, <1>5, <1>14, <2>4 DEF Gcs!RequeueCopy
    <3>2. CASE j.prio = 0 /\ j.delay = 0
      <4>1. Gcs!Step(g, "delete")
        BY <1>1, <1>2, <1>5, <1>14, <2>4, <3>2 DEF Gcs!RequeueCopy
      <4>2. Gcs!RequeueWait(j) = 0
        BY <3>2, SameWait
      <4>3. Aligned(k)
        BY <1>6, <2>2, <2>4, <3>2, <4>2, MergeTypes, NothingToMerge
      <4> QED
        BY <1>10, <2>1, <3>1, <4>1, <4>3
    <3>3. CASE ~(j.prio = 0 /\ j.delay = 0)
      <4> DEFINE new == [j EXCEPT !.pc = "requeueRead", !.wait = Gcs!RequeueWait(j)]
      <4>1. job' = [job EXCEPT ![g] = new]
        <5>1. job' = [job EXCEPT ![g].pc = "requeueRead", ![g].wait = Gcs!RequeueWait(j)]
          BY <1>1, <1>2, <1>5, <1>14, <2>4, <3>3 DEF Gcs!RequeueCopy, Gcs!Meta
        <5> QED
          BY <1>2, <5>1 DEF Types, BucketTypes
      <4>2. new \in JobTypes /\ new.pc = "requeueRead" /\ new.prio = j.prio
            /\ new.attempts = j.attempts /\ new.wait = Gcs!RequeueWait(j)
        BY <1>6 DEF JobTypes, Labels
      <4> HIDE DEF new
      <4> QED
        BY <1>9, <2>1, <2>2, <2>4, <3>1, <4>1, <4>2
    <3> QED
      BY <3>2, <3>3
  <2> QED
    BY <2>3, <2>4
<1>15. CASE Gcs!RequeueRead(g)
  <2>1. j.pc = "requeueRead" /\ UNCHANGED <<inProgress, queued>>
    BY <1>2, <1>15 DEF Gcs!RequeueRead, Gcs!bucket
  <2>2. queued[k].exists /\ Adding(k, Gcs!Meta(j.prio, j.wait, j.attempts))
    BY <1>5, <2>1
  <2> DEFINE merged == Gcs!Merged(queued[k].meta, j.prio, j.wait)
  <2>3. merged = item[k] /\ merged \in Items
    <3>1. item[k] = merged
      BY <2>2 DEF Adding, Gcs!Meta
    <3> QED
      BY <3>1 DEF Types, MemTypes
  <2>4. CASE merged = queued[k].meta
    <3>1. Gcs!Step(g, "delete")
      BY <1>1, <1>2, <1>15, <2>2, <2>4 DEF Gcs!RequeueRead
    <3>2. Aligned(k)
      BY <2>2, <2>4, NothingToMerge
    <3> QED
      BY <1>10, <2>1, <3>1, <3>2
  <2>5. CASE merged # queued[k].meta
    <3> HIDE DEF merged
    <3> DEFINE new == [j EXCEPT !.pc = "requeueWrite", !.merge = merged]
    <3>1. job' = [job EXCEPT ![g] = new]
      <4>1. job' = [job EXCEPT ![g].pc = "requeueWrite", ![g].merge = merged]
        BY <1>1, <1>2, <1>15, <2>2, <2>5 DEF Gcs!RequeueRead, merged
      <4> QED
        BY <1>2, <4>1 DEF Types, BucketTypes
    <3>2. new \in JobTypes /\ new.pc = "requeueWrite" /\ new.prio = j.prio
          /\ new.attempts = j.attempts /\ new.wait = j.wait /\ new.merge = merged
      BY <2>3 DEF JobTypes, Labels
    <3> HIDE DEF new
    <3> QED
      BY <1>9, <2>1, <2>2, <2>3, <3>1, <3>2
  <2> QED
    BY <2>4, <2>5
<1>16. CASE Gcs!RequeueWrite(g)
  <2>1. j.pc = "requeueWrite" /\ inProgress' = inProgress
    BY <1>2, <1>16 DEF Gcs!RequeueWrite
  <2>2. queued[k].exists /\ Adding(k, Gcs!Meta(j.prio, j.wait, j.attempts)) /\ j.merge = item[k]
    BY <1>5, <2>1
  <2>3. queued' = [queued EXCEPT ![k] = Gcs!Patched(@, item[k])] /\ Gcs!Step(g, "delete")
    BY <1>1, <1>2, <1>16, <2>2 DEF Gcs!RequeueWrite
  <2>4. /\ \A i \in Keys : Aligned(i)'
        /\ queued' \in [Keys -> [exists : BOOLEAN, meta : Items]]
        /\ earlier' = earlier /\ Existing' = Existing
    BY <1>6, <2>2, <2>3, MetaTypes, Writes
  <2> QED
    BY <1>8, <2>1, <2>3, <2>4 DEF Types, BucketTypes
<1> QED
  BY <1>11, <1>12, <1>13, <1>14, <1>15, <1>16

-----------------------------------------------------------------------------
\* The calls that are not of the suite, at any time.
AnyInv == phase = "any" => script = <<>> /\ Types /\ Bounded /\ SideBySide

\* When no call is under way, both hold the same.
LEMMA IdleIsAtRest == Types /\ SideBySide /\ Idle => AtRest
<1> SUFFICES ASSUME Types, SideBySide, Idle PROVE AtRest
  OBVIOUS
<1>1. caller["test"].pc = "idle"
      /\ \A k \in Keys : job[Owner(k)].pc \in {"idle", "running"} /\ job[Orphan(k)].pc \in {"idle", "running"}
  BY Names DEF Idle
<1>2. ~Queueing /\ \A k \in Keys : ~Starting(k) /\ ~Refused(k) /\ ~Ending(k)
  BY <1>1 DEF Queueing, Starting, Refused, Ending
<1> QED
  BY <1>2 DEF SideBySide

\* Whichever call is made next.
LEMMA CallsAgree ==
  ASSUME Types, Bounded, AtRest, NEW s \in Legal, Call(s), calls > 0, calls' = calls - 1
  PROVE  Types' /\ Bounded' /\ SideBySide'
<1>1. calls \in Nat /\ calls' \in Nat /\ calls' <= MaxCalls /\ MaxCalls \in Nat
  BY Sizes DEF Bounded
<1>2. \A k \in Keys : item[k].attempts \in Nat /\ owned[k].attempts \in Nat
                    /\ item[k].attempts + calls <= MaxCalls /\ owned[k].attempts + calls <= MaxCalls
  BY DEF Types, MemTypes, Items, Bounded
<1>3. ASSUME NEW k \in Keys,
             \A j \in Keys : item'[j].attempts \in {item[j].attempts, owned[k].attempts, 0},
             \A j \in Keys : owned'[j].attempts \in {owned[j].attempts, item[j].attempts + 1, 0}
      PROVE  Bounded'
  <2>1. \A j \in Keys : item'[j].attempts + calls' <= MaxCalls /\ owned'[j].attempts + calls' <= MaxCalls
    BY <1>1, <1>2, <1>3
  <2> QED
    BY <1>1, <2>1 DEF Bounded
<1>4. ASSUME NEW k \in AnyKeys, NEW prio \in Priorities, NEW wait \in Waits,
             s = Queue(k, prio, wait), ~Dropped(s)
      PROVE  Types' /\ Bounded' /\ SideBySide'
  <2>1. CallQueue(s)
    BY <1>4 DEF Call, CallQueue, CallStart, CallEnd, CallSleep, CallLook, Queue
  <2>2. /\ Types' /\ Queueing' /\ owned' = owned
        /\ \A j \in Keys : item'[j].attempts \in {item[j].attempts, 0}
    BY <1>4, <2>1, QueueIsCalled
  <2>3. k \in Keys
    BY ConformanceAssumption
  <2> QED
    BY <1>3, <2>2, <2>3 DEF SideBySide
<1>5. ASSUME NEW k \in Mem!Ready, s = Start(k)
      PROVE  Types' /\ Bounded' /\ SideBySide'
  <2>1. CallStart(s)
    BY <1>5 DEF Call, CallQueue, CallStart, CallEnd, CallSleep, CallLook, Start
  <2>2. k \in queue /\ k \in Keys
    BY DEF Mem!Ready, Types, MemTypes
  <2>3. /\ Types' /\ (Starting(k) \/ Refused(k))'
        /\ \A j \in Keys : item'[j].attempts \in {item[j].attempts, 0}
        /\ \A j \in Keys : owned'[j].attempts \in {owned[j].attempts, item[j].attempts + 1}
    BY <1>5, <2>1, <2>2, StartIsCalled
  <2> QED
    BY <1>3, <2>2, <2>3 DEF SideBySide
<1>6. ASSUME NEW k \in wip, s \in {Requeue(k), RequeueAfter(k), Complete(k), Deadletter(k)}
      PROVE  Types' /\ Bounded' /\ SideBySide'
  <2>1. CallEnd(s)
    BY <1>6 DEF Call, CallQueue, CallStart, CallEnd, CallSleep, CallLook,
      Requeue, RequeueAfter, Complete, Deadletter
  <2>2. k \in Keys
    BY DEF Types, MemTypes
  <2>3. CASE s \in {Requeue(k), RequeueAfter(k)}
    <3>1. \E delay \in Nat : /\ Mem!RequeueWithOptions(k, owned[k].prio, owned[k].attempts, delay)
                            /\ Ends(k, "requeue", delay)
      BY <2>1, <2>3 DEF CallEnd, Requeue, RequeueAfter
    <3>2. /\ Types' /\ Ending(k)'
          /\ \A j \in Keys : item'[j].attempts \in {item[j].attempts, owned[k].attempts}
          /\ \A j \in Keys : owned'[j].attempts \in {owned[j].attempts, 0}
      BY <3>1, RequeueIsCalled
    <3> QED
      BY <1>3, <2>2, <3>2 DEF SideBySide
  <2>4. CASE s \in {Complete(k), Deadletter(k)}
    <3>1. \E pc \in {"complete", "deadletter"} : Mem!Complete(k) /\ Ends(k, pc, 0)
      BY <2>1, <2>4 DEF CallEnd, Complete, Deadletter, Mem!Complete, Mem!Deadletter
    <3>2. /\ Types' /\ Ending(k)' /\ UNCHANGED item
          /\ \A j \in Keys : owned'[j].attempts \in {owned[j].attempts, 0}
      BY <3>1, DoneIsCalled
    <3> QED
      BY <1>3, <2>2, <3>2 DEF SideBySide
  <2> QED
    BY <1>6, <2>3, <2>4
<1>7. ASSUME s = Sleep PROVE Types' /\ Bounded' /\ SideBySide'
  <2>1. CallSleep(s)
    BY <1>7 DEF Call, CallQueue, CallStart, CallEnd, CallSleep, CallLook, Sleep
  <2>2. /\ Types' /\ AtRest' /\ owned' = owned
        /\ \A k \in Keys : item'[k].attempts = item[k].attempts
    BY <2>1, SleepIsCalled DEF CallSleep
  <2>3. 1 \in Keys
    BY ConformanceAssumption DEF Keys
  <2> QED
    BY <1>3, <2>2, <2>3 DEF SideBySide
<1>8. \/ \E k \in AnyKeys, prio \in Priorities, wait \in Waits : s = Queue(k, prio, wait) /\ ~Dropped(s)
      \/ \E k \in Mem!Ready : s = Start(k)
      \/ \E k \in wip : s \in {Requeue(k), RequeueAfter(k), Complete(k), Deadletter(k)}
      \/ s = Sleep
  <2> DEFINE Q == {Queue(k, prio, wait) : k \in AnyKeys, prio \in Priorities, wait \in Waits}
             E == UNION {{Requeue(k), RequeueAfter(k), Complete(k), Deadletter(k)} : k \in wip}
  <2>1. \/ s \in {c \in Q : ~Dropped(c)}
        \/ s \in {Start(k) : k \in Mem!Ready}
        \/ s \in E
        \/ s = Sleep
    <3>1. Legal = {c \in Q : ~Dropped(c)} \union {Start(k) : k \in Mem!Ready} \union E \union {Sleep}
      BY DEF Legal
    <3> HIDE DEF Q, E
    <3> QED
      BY <3>1
  <2>2. CASE s \in {c \in Q : ~Dropped(c)}
    BY <2>2
  <2>3. CASE s \in E
    BY <2>3
  <2> QED
    BY <2>1, <2>2, <2>3
<1> QED
  BY <1>4, <1>5, <1>6, <1>7, <1>8

\* No step breaks it: a call, a step of one in the bucket, the end.
LEMMA StepAnyInv == AnyInv /\ [Next]_vars => AnyInv'
<1> SUFFICES ASSUME AnyInv, [Next]_vars, phase' = "any"
             PROVE  script' = <<>> /\ Types' /\ Bounded' /\ SideBySide'
  BY DEF AnyInv
<1> DEFINE Goal == script' = <<>> /\ Types' /\ Bounded' /\ SideBySide'
<1>1. ~Drain
  BY DEF Drain
<1>2. phase = "any" /\ script = <<>> /\ Types /\ Bounded /\ SideBySide
  <2>1. phase = "any"
    BY <1>1 DEF Next, Step, AnyCall, Work, Over, vars, testVars
  <2> QED
    BY <2>1 DEF AnyInv
<1>3. ASSUME UNCHANGED vars PROVE Goal
  <2>1. UNCHANGED <<queue, item, older, wip, owned, queued, inProgress, caller, job, earlier, calls, script>>
    BY <1>3 DEF vars, memVars, bucketVars, testVars
  <2>2. Types'
    BY <1>2, <2>1 DEF Types, MemTypes, BucketTypes, Existing
  <2>3. Bounded'
    BY <1>2, <2>1 DEF Bounded
  <2>4. SideBySide'
    <3>1. /\ NoCaller' <=> NoCaller
          /\ \A k \in Keys : /\ Aligned(k)' <=> Aligned(k)
                             /\ Working(k)' <=> Working(k)
                             /\ Resting(k)' <=> Resting(k)
      BY <2>1 DEF NoCaller, Aligned, Working, Resting
    <3>2. \A k \in Keys : Others(k)' <=> Others(k)
      BY <3>1 DEF Others
    <3>3. AtRest' <=> AtRest
      BY <3>1 DEF AtRest
    <3>4. \A k \in Keys : Starting(k)' <=> Starting(k)
      BY <2>1, <3>1 DEF Starting
    <3>5. \A k \in Keys : Refused(k)' <=> Refused(k)
      BY <2>1, <3>1, <3>2 DEF Refused
    <3>6. Existing' = Existing
      BY <2>1 DEF Existing
    <3>7. \A k \in Keys : Ending(k)' <=> Ending(k)
      BY <2>1, <3>1, <3>2, <3>6 DEF Ending, Adding
    <3>8. Queueing' <=> Queueing
      <4>1. caller["test"].key \in Keys
        BY <1>2 DEF Types, BucketTypes, Calls
      <4> QED
        BY <2>1, <3>1, <3>2, <3>6, <4>1 DEF Queueing, Adding
    <3> QED
      BY <1>2, <3>3, <3>4, <3>5, <3>7, <3>8 DEF SideBySide
  <2> QED
    BY <1>2, <2>1, <2>2, <2>3, <2>4
<1>4. ASSUME AnyCall PROVE Goal
  <2>1. AtRest
    BY <1>2, <1>4, IdleIsAtRest DEF AnyCall
  <2>2. PICK s \in Legal : Call(s)
    BY <1>4 DEF AnyCall
  <2> QED
    BY <1>2, <1>4, <2>1, <2>2, CallsAgree DEF AnyCall
<1>5. ASSUME Work PROVE Goal
  <2>1. Memory /\ UNCHANGED <<script, calls>>
    BY <1>5 DEF Work, Memory, memVars, testVars
  <2>2. Aging
    BY <1>5 DEF Work, Aging, Existing
  <2>3. Bounded'
    BY <1>2, <2>1 DEF Bounded, Memory
  <2>4. Types' /\ SideBySide'
    <3>1. CASE Gcs!QueueCreate("test") \/ Gcs!QueueRead("test") \/ Gcs!QueueWrite("test")
      BY <1>2, <2>1, <2>2, <3>1, QueueWorks
    <3>2. ASSUME NEW g \in Gcs!Goroutines, Gcs!StartCopy(g) \/ Gcs!StartDelete(g)
          PROVE  Types' /\ SideBySide'
      BY <1>2, <2>1, <2>2, <3>2, StartWorks
    <3>3. ASSUME NEW g \in Gcs!Goroutines,
                 \/ Gcs!CompleteDeadLetter(g) \/ Gcs!DeadletterCopy(g) \/ Gcs!DeleteOwn(g)
                 \/ Gcs!RequeueCopy(g) \/ Gcs!RequeueRead(g) \/ Gcs!RequeueWrite(g)
          PROVE  Types' /\ SideBySide'
      BY <1>2, <2>1, <2>2, <3>3, EndWorks
    <3> QED
      BY <1>5, <3>1, <3>2, <3>3 DEF Work
  <2> QED
    BY <1>2, <2>1, <2>3, <2>4
<1> QED
  BY <1>1, <1>2, <1>3, <1>4, <1>5 DEF Next, Step, Over

\* At rest both list the same keys in the same order.
LEMMA RestIsSame == Types /\ AtRest => SameContent
<1> SUFFICES ASSUME Types, AtRest PROVE SameContent
  OBVIOUS
<1>1. \A k \in Keys : /\ queued[k].meta = item[k] /\ (queued[k].exists <=> k \in queue)
                     /\ earlier[k] = older[k]
  BY DEF AtRest, Aligned
<1>2. \A k \in Keys : Gcs!Parsed(queued[k].meta.prio) = item[k].prio
  <2> SUFFICES ASSUME NEW k \in Keys PROVE Gcs!Parsed(item[k].prio) = item[k].prio
    BY <1>1
  <2>1. item[k].prio \in Nat /\ item[k].prio < Gcs!Unpadded
    BY Sizes DEF Types, MemTypes, Items
  <2> QED
    BY <2>1 DEF Gcs!Parsed, Gcs!Unpadded
<1>3. GcsReady = Mem!Ready /\ GcsReady \subseteq Keys
  BY <1>1 DEF GcsReady, Mem!Ready, Types, MemTypes
<1>4. GcsBefore = MemBefore
  <2>1. \A p \in GcsReady \X GcsReady : p \in GcsBefore <=> p \in Mem!Before
    BY <1>1, <1>2, <1>3 DEF GcsBefore, Mem!Before
  <2> QED
    BY <1>3, <2>1 DEF GcsBefore, MemBefore
<1>5. GcsList = MemList
  BY <1>3, <1>4 DEF GcsList, MemList
<1>6. GcsWip = wip
  BY DEF GcsWip, AtRest, Resting, Working, Types, MemTypes
<1>7. \A k \in wip : job[Owner(k)].attempts = owned[k].attempts
  BY DEF AtRest, Resting, Working, Types, MemTypes
<1> QED
  BY <1>5, <1>6, <1>7 DEF SameContent

\* The two implementations cannot be told apart: after any calls, made one
\* after the other, about any keys, priorities and delays, the queue in the
\* bucket lists what the queue in memory lists, in the same order, has the
\* same in progress and counts the same attempts (conformance.go).
THEOREM QueuesAgree == Spec => [](phase = "any" => SameContent)
<1>1. Init => AnyInv
  <2> SUFFICES ASSUME Init, phase = "any" PROVE script = <<>> /\ Types /\ Bounded /\ SideBySide
    BY DEF AnyInv
  <2>1. Types /\ AtRest
    BY StartsAtRest
  <2>2. script = <<>> /\ calls = MaxCalls
    BY DEF Init
  <2>3. \A k \in Keys : item[k].attempts = 0 /\ owned[k].attempts = 0
    BY DEF Init, Mem!QueueInit, Mem!NoItem, NotOwned
  <2>4. Bounded
    BY <2>2, <2>3, Sizes DEF Bounded
  <2> QED
    BY <2>1, <2>2, <2>4 DEF SideBySide
<1>2. AnyInv => (phase = "any" => SameContent)
  <2> SUFFICES ASSUME AnyInv, phase = "any", Idle PROVE SameContent
    BY DEF SameContent
  <2> QED
    BY IdleIsAtRest, RestIsSame DEF AnyInv
<1> QED
  BY <1>1, <1>2, StepAnyInv, PTL DEF Spec
=============================================================================
