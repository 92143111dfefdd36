------------------------- MODULE GcsDispatchProofs -------------------------
(***************************************************************************)
(* What the bucket and the dispatchers promise, for any keys, receivers    *)
(* and rounds, in three parts.                                             *)
(*                                                                         *)
(* The bucket never drops what a client queued, however long goroutines    *)
(* stall and wherever they stop.  Once a call of Queue has seen queued/k   *)
(* exist, one step only removes it, the second call of Start, and when     *)
(* that finds the object its goroutine goes on to the callback.  So        *)
(* ClientWorkKept, with the types, is inductive as it stands.              *)
(*                                                                         *)
(* A key that was not breached has one owner, that keeps it until it is    *)
(* done, and its retries are not lost.  The invariant is OwnInv: an        *)
(* owner's object is the one it remembers, what a round takes for orphaned *)
(* is nobody's, and one round only recovers it.  Every part is said of     *)
(* the sound keys, so no assumption about timing is needed: a breach of    *)
(* one key leaves the others alone.                                        *)
(*                                                                         *)
(* When no key can be breached (Timely and SerialRecovery) every call to   *)
(* the bucket is a step of WorkQueue, or none.                             *)
(***************************************************************************)
EXTENDS GcsDispatch, TLAPS

\* A rank is a number, which Parsed and Bare translate from and to 0..9.
LEMMA RankFacts ==
  /\ Ranks \subseteq Nat
  /\ 0..9 \subseteq Ranks
  /\ \A r \in Ranks : Parsed(r) \in 0..9
  /\ \A p \in 0..9 : Bare(p) \in Ranks
  BY DEF Ranks, Parsed, Bare, Unpadded

LEMMA ClientPriorities == Priorities \union {0} \subseteq Ranks
  BY GcsDispatchAssumption, RankFacts

\* The initial values are well typed.
LEMMA NothingTypes ==
  /\ NoMeta \in Metas
  /\ NoQueued \in QueuedObjects
  /\ NoInProgress \in InProgressObjects
  /\ NoCall \in Calls
  /\ NoJob \in Jobs
<1>1. 0 \in Ranks /\ 0 \in 0..MaxAttempts /\ 0 \in 0..MaxMeta /\ 0 \in 0..Lease
  BY RankFacts, GcsAssumption
<1>2. NoMeta \in Metas
  BY <1>1 DEF NoMeta, Meta, Metas
<1>3. NoQueued \in QueuedObjects
  BY <1>2 DEF NoQueued, QueuedObjects
<1>4. NoInProgress \in InProgressObjects
  BY <1>1 DEF NoInProgress, InProgressObjects
<1>5. (CHOOSE k \in Keys : TRUE) \in Keys
  BY GcsAssumption
<1>6. NoCall \in Calls
  BY <1>2, <1>5 DEF NoCall, Calls
<1>7. NoJob \in Jobs
  BY <1>1, <1>2 DEF NoJob, Jobs
<1> QED
  BY <1>2, <1>3, <1>4, <1>6, <1>7

\* What updateMetadata writes is metadata, and keeps the object existing.
LEMMA MergedType ==
  ASSUME NEW old \in Metas, NEW prio \in Ranks, NEW wait \in Nat
  PROVE  Merged(old, prio, wait) \in Metas
<1>1. Larger(old.prio, prio) \in Ranks /\ Larger(old.wait, wait) \in Nat
  BY DEF Larger, Metas
<1> QED
  BY <1>1 DEF Merged, Metas

LEMMA PatchedType ==
  ASSUME NEW obj \in QueuedObjects, NEW merge \in Metas
  PROVE  Patched(obj, merge) \in QueuedObjects /\ Patched(obj, merge).exists = obj.exists
<1>1. [merge EXCEPT !.attempts = IF merge.attempts = 0 THEN obj.meta.attempts ELSE @] \in Metas
  BY DEF Metas, QueuedObjects
<1> QED
  BY <1>1 DEF Patched, QueuedObjects

LEMMA LessType ==
  ASSUME NEW t \in Nat
  PROVE  Less(t) \in 0..t
  BY DEF Less

LEMMA AgedType ==
  ASSUME NEW meta \in Metas
  PROVE  Aged(meta) \in Metas
<1>1. Less(meta.wait) \in Nat
  BY LessType DEF Metas
<1> QED
  BY <1>1 DEF Aged, Metas

LEMMA AttemptType ==
  ASSUME NEW attempts \in 0..MaxAttempts
  PROVE  Attempt(attempts) \in 0..MaxAttempts
  BY GcsAssumption DEF Attempt, Smaller

LEMMA RequeueWaitType ==
  ASSUME NEW j \in Jobs
  PROVE  RequeueWait(j) \in Nat
<1>1. j.delay \in Nat /\ j.attempts \in Nat /\ BackoffPeriod \in Nat /\ MaximumBackoff \in Nat
  BY GcsAssumption DEF Jobs
<1>2. j.attempts * BackoffPeriod \in Nat
  BY <1>1
<1> HIDE DEF Jobs
<1> QED
  BY <1>1, <1>2 DEF RequeueWait, Smaller

LEMMA KeyOfType ==
  ASSUME NEW g \in Goroutines
  PROVE  KeyOf(g) \in Keys
  BY DEF Goroutines, KeyOf

-----------------------------------------------------------------------------
(* Steps that only move one goroutine, or one call, on. *)

LEMMA DoneType ==
  ASSUME TypeOK, NEW g \in Goroutines, Done(g)
  PROVE  job' \in [Goroutines -> Jobs]
  BY NothingTypes DEF TypeOK, Done

LEMMA StepType ==
  ASSUME TypeOK, NEW g \in Goroutines, NEW pc \in {"delete", "requeue"}, Step(g, pc)
  PROVE  job' \in [Goroutines -> Jobs]
<1>1. job[g] \in Jobs
  BY DEF TypeOK
<1>2. CASE pc = "delete"
  BY <1>1, <1>2 DEF TypeOK, Step, Jobs
<1>3. CASE pc = "requeue"
  BY <1>1, <1>3 DEF TypeOK, Step, Jobs
<1> QED
  BY <1>2, <1>3

LEMMA ReturnType ==
  ASSUME TypeOK, NEW c \in Callers, Return(c)
  PROVE  caller' \in [Callers -> Calls]
  BY NothingTypes DEF TypeOK, Return

LEMMA CallType ==
  ASSUME TypeOK, NEW c \in Callers, NEW pc \in {"create", "read"}, Call(c, pc)
  PROVE  caller' \in [Callers -> Calls]
<1>1. [caller[c] EXCEPT !.pc = pc, !.merge = NoMeta] \in Calls
  BY NothingTypes DEF TypeOK, Calls
<1> QED
  BY <1>1 DEF TypeOK, Call

-----------------------------------------------------------------------------
(* The receivers *)

LEMMA EnqueueTypes ==
  ASSUME TypeOK, NEW c \in Callers, NEW k \in Keys,
         NEW prio \in Priorities, NEW wait \in Waits, Enqueue(c, k, prio, wait)
  PROVE  TypeOK'
<1>1. wait \in Nat
  BY GcsDispatchAssumption
<1>2. [pc |-> "create", key |-> k, prio |-> prio, wait |-> wait,
       plain |-> (prio = 0 /\ wait = 0), merge |-> NoMeta] \in Calls
  BY <1>1, NothingTypes DEF Calls
<1>3. caller' \in [Callers -> Calls]
  BY <1>2 DEF TypeOK, Enqueue, QueueCall
<1>4. queues' \in 0..MaxQueues
  BY GcsDispatchAssumption DEF TypeOK, Enqueue
<1> QED
  BY <1>3, <1>4 DEF TypeOK, Enqueue, QueueCall, bucket, history, work

LEMMA CallCreatesTypes ==
  ASSUME TypeOK, ClientWorkKept, NEW c \in Callers, CallCreates(c)
  PROVE  TypeOK' /\ ClientWorkKept'
<1> DEFINE q == caller[c]
<1>0. q \in Calls /\ q.key \in Keys
  BY DEF TypeOK, Calls
<1>1. /\ queued' \in [Keys -> QueuedObjects]
      /\ queued'[q.key].exists
      /\ \A k \in Keys : queued[k].exists => queued'[k].exists
  <2>1. ASSUME ~queued[q.key].exists,
               queued' = [queued EXCEPT ![q.key] = QueuedObject(Meta(q.prio, q.wait, 0))]
        PROVE <1>1!:
    <3>1. q.prio \in Ranks /\ q.wait \in Nat /\ 0 \in 0..MaxAttempts
      BY <1>0, ClientPriorities, GcsAssumption DEF Calls
    <3>2. QueuedObject(Meta(q.prio, q.wait, 0)) \in QueuedObjects
      BY <3>1 DEF QueuedObject, Meta, QueuedObjects, Metas
    <3>3. QueuedObject(Meta(q.prio, q.wait, 0)).exists
      BY DEF QueuedObject
    <3> QED
      BY <1>0, <2>1, <3>2, <3>3 DEF TypeOK
  <2>2. CASE queued[q.key].exists /\ queued' = queued
    BY <1>0, <2>2 DEF TypeOK
  <2> QED
    BY <2>1, <2>2 DEF CallCreates, QueueCreate
<1>2. caller' \in [Callers -> Calls]
  BY ReturnType, CallType DEF CallCreates, QueueCreate
<1>3. TypeOK'
  BY <1>0, <1>1, <1>2 DEF TypeOK, CallCreates, QueueCreate
<1>4. asked' = asked \union {q.key}
  BY DEF CallCreates
<1>5. ClientWorkKept'
  BY <1>1, <1>4 DEF ClientWorkKept, TypeOK
<1> QED
  BY <1>3, <1>5

LEMMA CallMergesTypes ==
  ASSUME TypeOK, ClientWorkKept, NEW c \in Callers, CallMerges(c)
  PROVE  TypeOK' /\ ClientWorkKept'
<1> DEFINE q == caller[c]
           old == queued[q.key].meta
           new == Merged(old, q.prio, q.wait)
<1>1. q \in Calls /\ q.key \in Keys /\ q.prio \in Ranks /\ q.wait \in Nat /\ q.merge \in Metas
  BY ClientPriorities DEF TypeOK, Calls
<1>2. queued[q.key] \in QueuedObjects /\ old \in Metas
  BY <1>1 DEF TypeOK, QueuedObjects
<1>3. /\ UNCHANGED <<inProgress, deadLetter, job, scan, queues, failures, again, breached>>
      /\ asked' = IF caller'[c].pc = "idle" THEN asked \union {q.key} ELSE asked
  BY DEF CallMerges, QueueRead, QueueWrite, bucket
\* The call is answered only when its object is there.
<1>4. ASSUME queued' \in [Keys -> QueuedObjects], caller' \in [Callers -> Calls],
             \A k \in Keys : queued[k].exists => queued'[k].exists,
             caller'[c].pc = "idle" => queued'[q.key].exists
      PROVE  TypeOK' /\ ClientWorkKept'
  <2>1. asked' \subseteq Keys
    BY <1>1, <1>3 DEF TypeOK
  <2>2. TypeOK'
    BY <1>3, <1>4, <2>1 DEF TypeOK
  <2>3. ClientWorkKept'
    BY <1>3, <1>4 DEF ClientWorkKept, TypeOK
  <2> QED
    BY <2>2, <2>3
<1>5. ASSUME NEW pc \in {"create", "read"}, Call(c, pc) PROVE caller'[c].pc # "idle"
  BY <1>1, <1>5 DEF Call, TypeOK, Calls
<1>6. CASE QueueRead(c)
  <2>1. [caller[c] EXCEPT !.pc = "write", !.merge = new] \in Calls
    BY <1>1, <1>2, MergedType DEF Calls
  <2>2. caller' \in [Callers -> Calls]
    BY <1>6, <2>1, CallType, ReturnType DEF QueueRead, TypeOK
  <2>3. caller'[c].pc = "idle" => queued[q.key].exists
    BY <1>5, <1>6 DEF QueueRead
  <2>4. queued' = queued
    BY <1>6 DEF QueueRead, bucket
  <2> QED
    BY <1>4, <2>2, <2>3, <2>4 DEF TypeOK
<1>7. CASE QueueWrite(c)
  <2>1. Patched(queued[q.key], q.merge) \in QueuedObjects
        /\ Patched(queued[q.key], q.merge).exists = queued[q.key].exists
    BY <1>1, <1>2, PatchedType
  <2>2. /\ queued' \in [Keys -> QueuedObjects]
        /\ \A k \in Keys : queued[k].exists => queued'[k].exists
    BY <1>1, <1>7, <2>1 DEF QueueWrite, TypeOK
  <2>3. caller' \in [Callers -> Calls]
    BY <1>7, CallType, ReturnType DEF QueueWrite
  <2>4. caller'[c].pc = "idle" => queued[q.key].exists
    BY <1>5, <1>7 DEF QueueWrite
  <2> QED
    BY <1>1, <1>4, <2>2, <2>3, <2>4
<1> QED
  BY <1>6, <1>7 DEF CallMerges

LEMMA CallFailsTypes ==
  ASSUME TypeOK, NEW c \in Callers, CallFails(c)
  PROVE  TypeOK'
<1>1. failures' \in 0..MaxFailures
  BY GcsDispatchAssumption DEF TypeOK, CallFails
<1> QED
  BY <1>1, ReturnType DEF TypeOK, CallFails, bucket, history, work

-----------------------------------------------------------------------------
(* The rounds *)

LEMMA ListInProgressTypes ==
  ASSUME TypeOK, NEW h \in Rounds, ListInProgress(h)
  PROVE  TypeOK'
  BY DEF TypeOK, ListInProgress, Contested, gcsVars, work

LEMMA StartJobType ==
  ASSUME TypeOK, NEW k \in Keys
  PROVE  StartJob(k) \in Jobs
<1>1. queued[k].meta \in Metas
  BY DEF TypeOK, QueuedObjects
<1>2. Parsed(queued[k].meta.prio) \in 0..9
  BY <1>1, RankFacts DEF Metas
<1> QED
  BY <1>1, <1>2, NothingTypes DEF StartJob, Jobs, Metas

LEMMA OrphanJobType ==
  ASSUME TypeOK, NEW h \in Rounds, NEW k \in Keys
  PROVE  OrphanJob(h, k) \in Jobs
<1>1. scan[h].seen[k] \in InProgressObjects
  BY DEF TypeOK
<1> QED
  BY <1>1, NothingTypes DEF OrphanJob, Jobs, InProgressObjects

LEMMA LaunchTypes ==
  ASSUME TypeOK, NEW h \in Rounds, Launch(h)
  PROVE  TypeOK'
<1>1. NoScan \in [on : BOOLEAN, seen : [Keys -> InProgressObjects]]
  BY NothingTypes DEF NoScan
<1>2. scan' \in [Rounds -> [on : BOOLEAN, seen : [Keys -> InProgressObjects]]]
  BY <1>1 DEF Launch, TypeOK
<1>3. job' \in [Goroutines -> Jobs]
  <2>1. PICK L : job' = [g \in Goroutines |->
                 IF g[1] # h THEN job[g]
                 ELSE IF g[3] = "start" /\ KeyOf(g) \in L THEN StartJob(KeyOf(g))
                 ELSE IF g[3] = "orphan" /\ KeyOf(g) \in Orphans(h) THEN OrphanJob(h, KeyOf(g))
                 ELSE NoJob]
    BY DEF Launch
  <2>2. ASSUME NEW g \in Goroutines
        PROVE  /\ job[g] \in Jobs /\ StartJob(KeyOf(g)) \in Jobs
               /\ OrphanJob(h, KeyOf(g)) \in Jobs /\ NoJob \in Jobs
    BY KeyOfType, StartJobType, OrphanJobType, NothingTypes DEF TypeOK
  <2> QED
    BY <2>1, <2>2
<1> QED
  BY <1>2, <1>3 DEF Launch, TypeOK, bucket, history, work

-----------------------------------------------------------------------------
(* The goroutines *)

LEMMA StartCopyTypes ==
  ASSUME TypeOK, NEW g \in Goroutines, StartCopy(g)
  PROVE  inProgress' \in [Keys -> InProgressObjects] /\ job' \in [Goroutines -> Jobs]
<1> DEFINE k == KeyOf(g)
<1>1. job[g] \in Jobs /\ k \in Keys
  BY KeyOfType DEF TypeOK
<1>2. Attempt(job[g].attempts) \in 0..MaxAttempts
  BY <1>1, AttemptType DEF Jobs
<1>3. Made(g) \in InProgressObjects
  BY <1>1, <1>2, GcsAssumption DEF Made, InProgressObjects, Jobs
<1>4. CASE queued[k].exists /\ inProgress[k].gen = 0
  <2>1. inProgress' = [inProgress EXCEPT ![k] = Made(g)]
    BY <1>4 DEF StartCopy
  <2>2. job' = [job EXCEPT ![g] = Started(job[g])]
    BY <1>4 DEF StartCopy
  <2>3. 1 \in 0..MaxMeta /\ Lease \in 0..Lease
    BY GcsAssumption
  <2>4. Started(job[g]) \in Jobs
    BY <1>1, <1>2, <2>3 DEF Started, Jobs
  <2> QED
    BY <1>3, <2>1, <2>2, <2>4 DEF TypeOK
<1>5. CASE Done(g) /\ UNCHANGED inProgress
  BY <1>5, DoneType DEF TypeOK
<1> QED
  BY <1>4, <1>5 DEF StartCopy

LEMMA WorkTypes ==
  ASSUME TypeOK, ClientWorkKept, NEW g \in Goroutines, Work(g)
  PROVE  TypeOK' /\ ClientWorkKept'
<1> DEFINE k == KeyOf(g)
           j == job[g]
           meta == Meta(j.prio, RequeueWait(j), j.attempts)
<1>1. j \in Jobs /\ k \in Keys
  BY KeyOfType DEF TypeOK
<1>2. RequeueWait(j) \in Nat
  BY <1>1, RequeueWaitType
<1>3. meta \in Metas /\ QueuedObject(meta) \in QueuedObjects /\ QueuedObject(meta).exists
  BY <1>1, <1>2 DEF Meta, Metas, QueuedObject, QueuedObjects, Jobs
<1>4. UNCHANGED <<scan, queues, failures, asked, again, breached>>
  BY DEF Work, history, work
<1>5. ASSUME /\ UNCHANGED caller
             /\ deadLetter' \in [Keys -> BOOLEAN]
             /\ inProgress' \in [Keys -> InProgressObjects]
             /\ queued' \in [Keys -> QueuedObjects]
             /\ \A n \in Keys : queued[n].exists => queued'[n].exists
             /\ job' \in [Goroutines -> Jobs]
      PROVE  TypeOK' /\ ClientWorkKept'
  BY <1>4, <1>5 DEF TypeOK, ClientWorkKept
<1>6. CASE StartCopy(g)
  BY <1>5, <1>6, StartCopyTypes DEF StartCopy, TypeOK
<1>7. CASE CompleteDeadLetter(g)
  BY <1>1, <1>5, <1>7, StepType DEF CompleteDeadLetter, TypeOK
<1>8. CASE DeadletterCopy(g)
  <2>1. job' \in [Goroutines -> Jobs]
    BY <1>8, StepType, DoneType DEF DeadletterCopy
  <2> QED
    BY <1>1, <1>5, <1>8, <2>1 DEF DeadletterCopy, TypeOK
<1>9. CASE DeleteOwn(g)
  BY <1>1, <1>5, <1>9, DoneType, NothingTypes DEF DeleteOwn, DeleteInProgress, TypeOK
<1>10. CASE RequeueCopy(g)
  <2>1. CASE queued' = [queued EXCEPT ![k] = QueuedObject(meta)] /\ Step(g, "delete")
    BY <1>1, <1>3, <1>5, <1>10, <2>1, StepType DEF RequeueCopy, TypeOK
  <2>2. CASE UNCHANGED queued /\ (Step(g, "delete") \/ Done(g))
    BY <1>5, <1>10, <2>2, StepType, DoneType DEF RequeueCopy, TypeOK
  <2>3. CASE UNCHANGED queued /\
             job' = [job EXCEPT ![g].pc = "requeueRead", ![g].wait = meta.wait]
    <3>1. meta.wait \in Nat
      BY <1>2 DEF Meta
    <3>2. [j EXCEPT !.pc = "requeueRead", !.wait = meta.wait] \in Jobs
      BY <1>1, <3>1 DEF Jobs
    <3>3. job' \in [Goroutines -> Jobs]
      BY <1>1, <2>3, <3>2 DEF TypeOK
    <3> QED
      BY <1>5, <1>10, <2>3, <3>3 DEF RequeueCopy, TypeOK
  <2> QED
    BY <1>10, <2>1, <2>2, <2>3 DEF RequeueCopy
<1>11. CASE RequeueRead(g)
  <2> DEFINE new == Merged(queued[k].meta, j.prio, j.wait)
  <2>1. new \in Metas
    BY <1>1, MergedType DEF TypeOK, QueuedObjects, Jobs
  <2>2. CASE job' = [job EXCEPT ![g].pc = "requeueWrite", ![g].merge = new]
    <3>1. [j EXCEPT !.pc = "requeueWrite", !.merge = new] \in Jobs
      BY <1>1, <2>1 DEF Jobs
    <3> QED
      BY <1>1, <1>5, <1>11, <2>2, <3>1 DEF RequeueRead, TypeOK, bucket
  <2>3. CASE Step(g, "requeue") \/ Step(g, "delete")
    BY <1>5, <1>11, <2>3, StepType DEF RequeueRead, TypeOK, bucket
  <2> QED
    BY <1>11, <2>2, <2>3 DEF RequeueRead
<1>12. CASE RequeueWrite(g)
  <2>1. /\ Patched(queued[k], j.merge) \in QueuedObjects
        /\ Patched(queued[k], j.merge).exists = queued[k].exists
    BY <1>1, PatchedType DEF TypeOK, Jobs
  <2>2. job' \in [Goroutines -> Jobs]
    BY <1>12, StepType DEF RequeueWrite
  <2>3. /\ queued' \in [Keys -> QueuedObjects]
        /\ \A n \in Keys : queued[n].exists => queued'[n].exists
    BY <1>1, <1>12, <2>1 DEF RequeueWrite, TypeOK
  <2> QED
    BY <1>5, <1>12, <2>2, <2>3 DEF RequeueWrite, TypeOK
<1> QED
  BY <1>6, <1>7, <1>8, <1>9, <1>10, <1>11, <1>12 DEF Work

LEMMA BeginTypes ==
  ASSUME TypeOK, ClientWorkKept, NEW g \in Goroutines, Begin(g)
  PROVE  TypeOK' /\ ClientWorkKept'
<1> DEFINE k == KeyOf(g)
<1>1. job[g] \in Jobs /\ k \in Keys
  BY KeyOfType DEF TypeOK
<1>2. queued' \in [Keys -> QueuedObjects] /\ \A n \in Keys \ {k} : queued'[n] = queued[n]
  BY <1>1, NothingTypes DEF Begin, StartDelete, TypeOK
<1>3. UNCHANGED <<inProgress, deadLetter, caller, scan, queues, failures, breached>>
  BY DEF Begin, StartDelete
<1>4. asked' \subseteq asked /\ again' \subseteq again
  BY DEF Begin
<1>5. CASE queued[k].exists
  <2>1. job' = [job EXCEPT ![g] = [job[g] EXCEPT !.pc = "running", !.live = TRUE]]
    BY <1>1, <1>5 DEF Begin, StartDelete, TypeOK
  <2>2. [job[g] EXCEPT !.pc = "running", !.live = TRUE] \in Jobs
    BY <1>1 DEF Jobs
  <2>3. job' \in [Goroutines -> Jobs] /\ job'[g].pc = "running"
    BY <1>1, <2>1, <2>2 DEF TypeOK, Jobs
  <2>4. asked' = asked \ {k}
    BY <2>3 DEF Begin
  <2>5. TypeOK'
    BY <1>2, <1>3, <1>4, <2>3 DEF TypeOK
  <2> QED
    BY <1>2, <2>4, <2>5 DEF TypeOK, ClientWorkKept
<1>6. CASE ~queued[k].exists
  <2>1. k \notin asked
    BY <1>6 DEF ClientWorkKept
  <2>2. job' \in [Goroutines -> Jobs]
    BY <1>6, DoneType DEF Begin, StartDelete
  <2>3. TypeOK'
    BY <1>2, <1>3, <1>4, <2>2 DEF TypeOK
  <2> QED
    BY <1>2, <1>4, <2>1, <2>3 DEF TypeOK, ClientWorkKept
<1> QED
  BY <1>5, <1>6

LEMMA FinishTypes ==
  ASSUME TypeOK, ClientWorkKept, NEW g \in Goroutines, NEW result \in Results,
         Finish(g, result)
  PROVE  TypeOK' /\ ClientWorkKept'
<1> DEFINE d == Disposition(result, job[g].attempts)
           retry == d \in {"requeue", "requeueAfter"}
           next == [job[g] EXCEPT !.live = FALSE, !.pc = IF retry THEN "requeue" ELSE d]
           later == [next EXCEPT !.delay = RequeueDelay,
                       !.prio = IF job[g].priority # 0 THEN Bare(job[g].priority) ELSE @]
<1>1. job[g] \in Jobs /\ KeyOf(g) \in Keys
  BY KeyOfType DEF TypeOK
<1>2. d \in {"complete", "deadletter", "requeue", "requeueAfter"}
  BY DEF Results, Disposition
<1>3. (IF retry THEN "requeue" ELSE d) \in {"complete", "deadletter", "requeue"}
  BY <1>2
<1>4. next \in Jobs
  BY <1>1, <1>3 DEF Jobs
<1>5. later \in Jobs
  <2>1. Bare(job[g].priority) \in Ranks /\ next.prio \in Ranks /\ RequeueDelay \in Nat
    BY <1>1, <1>4, RankFacts, GcsAssumption DEF Jobs
  <2> HIDE DEF next
  <2> QED
    BY <1>4, <2>1 DEF Jobs
<1>6. job' = [job EXCEPT ![g] = IF d # "requeueAfter" THEN next ELSE later]
  BY DEF Finish
<1> HIDE DEF next, later
<1>7. job' \in [Goroutines -> Jobs]
  BY <1>4, <1>5, <1>6 DEF TypeOK
<1>8. again' \subseteq Keys
  BY <1>1 DEF Finish, TypeOK
<1> QED
  BY <1>7, <1>8 DEF Finish, TypeOK, ClientWorkKept, bucket

LEMMA HeartbeatTypes ==
  ASSUME TypeOK, ClientWorkKept, NEW g \in Goroutines, Heartbeat(g)
  PROVE  TypeOK' /\ ClientWorkKept'
<1> DEFINE k == KeyOf(g)
           beaten == [inProgress[k] EXCEPT !.gen = @ + 1, !.lease = Lease]
           cached == Renewed(job[g], inProgress[k])
<1>1. job[g] \in Jobs /\ k \in Keys /\ inProgress[k] \in InProgressObjects
  BY KeyOfType DEF TypeOK
<1>2. CASE Beat(g)
  <2>1. /\ job[g].gen + 1 \in 0..MaxMeta /\ inProgress[k].gen + 1 \in 0..MaxMeta
        /\ Lease \in 0..Lease
    BY <1>1, <1>2, GcsAssumption DEF Beat, StillOwned, Jobs, InProgressObjects
  <2>2. beaten \in InProgressObjects
    BY <1>1, <2>1 DEF InProgressObjects
  <2>3. inProgress[k].prio \in Ranks /\ inProgress[k].attempts \in 0..MaxAttempts
    BY <1>1 DEF InProgressObjects
  <2>4. cached \in Jobs
    BY <1>1, <2>1, <2>3 DEF Renewed, Jobs
  <2>5. job' = [job EXCEPT ![g] = cached]
    BY <1>2 DEF Beat
  <2>6. inProgress' = [inProgress EXCEPT ![k] = beaten]
    BY <1>1, <1>2 DEF Beat, TypeOK, InProgressObjects
  <2> HIDE DEF beaten, cached
  <2>7. UNCHANGED <<queued, deadLetter, caller, scan, queues, failures, history>>
    BY <1>2 DEF Heartbeat, Beat
  <2> QED
    BY <1>1, <2>2, <2>4, <2>5, <2>6, <2>7 DEF TypeOK, ClientWorkKept, history, work
<1>3. CASE BeatFails(g)
  <2>1. job' \in [Goroutines -> Jobs]
    BY <1>1, <1>3 DEF BeatFails, TypeOK, Jobs
  <2>2. UNCHANGED <<queued, inProgress, deadLetter, caller, scan, queues, failures, history>>
    BY <1>3 DEF Heartbeat, BeatFails, bucket
  <2> QED
    BY <2>1, <2>2 DEF TypeOK, ClientWorkKept, history, work
<1> QED
  BY <1>2, <1>3 DEF Heartbeat

LEMMA AbortTypes ==
  ASSUME TypeOK, ClientWorkKept, NEW g \in Goroutines, Abort(g)
  PROVE  TypeOK' /\ ClientWorkKept'
<1>1. failures' \in 0..MaxFailures
  BY GcsDispatchAssumption DEF TypeOK, Abort
<1>2. again' \subseteq Keys
  BY KeyOfType DEF Abort, TypeOK
<1>3. job' \in [Goroutines -> Jobs]
  BY DoneType DEF Abort
<1> QED
  BY <1>1, <1>2, <1>3 DEF Abort, TypeOK, ClientWorkKept, bucket

LEMMA TickTypes ==
  ASSUME TypeOK, ClientWorkKept, Tick
  PROVE  TypeOK' /\ ClientWorkKept'
<1>1. /\ queued' \in [Keys -> QueuedObjects]
      /\ \A k \in Keys : queued'[k].exists = queued[k].exists
  <2>1. ASSUME NEW k \in Keys
        PROVE  /\ [queued[k] EXCEPT !.meta = Aged(@)] \in QueuedObjects
               /\ [queued[k] EXCEPT !.meta = Aged(@)].exists = queued[k].exists
    BY AgedType DEF TypeOK, QueuedObjects
  <2> QED
    BY <2>1 DEF Tick, GcsTick
<1>2. ASSUME NEW obj \in InProgressObjects
      PROVE  [obj EXCEPT !.lease = Less(@)] \in InProgressObjects
  <2>1. Less(obj.lease) \in 0..Lease
    BY LessType, GcsAssumption DEF InProgressObjects
  <2> QED
    BY <2>1 DEF InProgressObjects
<1>3. inProgress' \in [Keys -> InProgressObjects]
  BY <1>2 DEF TypeOK, Tick, GcsTick
<1>4. caller' \in [Callers -> Calls]
  <2>1. ASSUME NEW q \in Calls
        PROVE  [q EXCEPT !.wait = Less(@), !.merge = Aged(@)] \in Calls
    <3>1. Less(q.wait) \in Nat /\ Aged(q.merge) \in Metas
      BY LessType, AgedType DEF Calls
    <3> QED
      BY <3>1 DEF Calls
  <2> QED
    BY <2>1 DEF TypeOK, Tick, GcsTick
<1>5. job' \in [Goroutines -> Jobs]
  <2>1. ASSUME NEW j \in Jobs
        PROVE  [j EXCEPT !.wait = Less(@), !.lease = Less(@), !.merge = Aged(@)] \in Jobs
    <3>1. Less(j.wait) \in Nat /\ Less(j.lease) \in 0..Lease /\ Aged(j.merge) \in Metas
      BY LessType, AgedType, GcsAssumption DEF Jobs
    <3> QED
      BY <3>1 DEF Jobs
  <2> QED
    BY <2>1 DEF TypeOK, Tick, GcsTick
<1>6. scan' \in [Rounds -> [on : BOOLEAN, seen : [Keys -> InProgressObjects]]]
  <2>1. ASSUME NEW s \in [on : BOOLEAN, seen : [Keys -> InProgressObjects]]
        PROVE  AgedScan(s) \in [on : BOOLEAN, seen : [Keys -> InProgressObjects]]
    <3>1. [k \in Keys |-> [s.seen[k] EXCEPT !.lease = Less(@)]] \in [Keys -> InProgressObjects]
      BY <1>2
    <3> QED
      BY <3>1 DEF AgedScan
  <2>2. \A h \in Rounds : scan[h] \in [on : BOOLEAN, seen : [Keys -> InProgressObjects]]
    BY DEF TypeOK
  <2>3. scan' = [h \in Rounds |-> AgedScan(scan[h])]
    BY DEF Tick
  <2> QED
    BY <2>1, <2>2, <2>3
<1>7. UNCHANGED <<deadLetter, queues, failures, asked, again>>
  BY DEF Tick, GcsTick, work
<1>8. breached' \subseteq Keys
  BY KeyOfType DEF Tick, Expiring, TypeOK
<1> QED
  BY <1>1, <1>3, <1>4, <1>5, <1>6, <1>7, <1>8 DEF TypeOK, ClientWorkKept

-----------------------------------------------------------------------------
IInv == TypeOK /\ ClientWorkKept

LEMMA InitIInv == Init => IInv
<1> SUFFICES ASSUME Init PROVE IInv
  OBVIOUS
<1>1. NoScan \in [on : BOOLEAN, seen : [Keys -> InProgressObjects]]
  BY NothingTypes DEF NoScan
<1>2. TypeOK
  BY <1>1, NothingTypes, GcsDispatchAssumption DEF Init, GcsInit, TypeOK
<1> QED
  BY <1>2 DEF Init, IInv, ClientWorkKept

LEMMA NextIInv == IInv /\ [Next]_vars => IInv'
<1> SUFFICES ASSUME IInv, [Next]_vars PROVE IInv'
  OBVIOUS
<1>0. TypeOK /\ ClientWorkKept
  BY DEF IInv
<1>1. ASSUME NEW c \in Callers, NEW k \in Keys, NEW prio \in Priorities, NEW wait \in Waits,
             Enqueue(c, k, prio, wait)
      PROVE  IInv'
  <2>1. UNCHANGED <<queued, asked>>
    BY <1>1 DEF Enqueue, QueueCall, bucket, history, work
  <2> QED
    BY <1>0, <1>1, <2>1, EnqueueTypes DEF IInv, ClientWorkKept
<1>2. ASSUME NEW c \in Callers, CallCreates(c) \/ CallMerges(c)
      PROVE  IInv'
  BY <1>0, <1>2, CallCreatesTypes, CallMergesTypes DEF IInv
<1>3. ASSUME NEW c \in Callers, CallFails(c)
      PROVE  IInv'
  <2>1. UNCHANGED <<queued, asked>>
    BY <1>3 DEF CallFails, bucket, history, work
  <2> QED
    BY <1>0, <1>3, <2>1, CallFailsTypes DEF IInv, ClientWorkKept
<1>4. ASSUME NEW h \in Rounds, ListInProgress(h) \/ Launch(h)
      PROVE  IInv'
  <2>1. UNCHANGED <<queued, asked>>
    BY <1>4 DEF ListInProgress, Launch, gcsVars, bucket, history, work
  <2> QED
    BY <1>0, <1>4, <2>1, ListInProgressTypes, LaunchTypes DEF IInv, ClientWorkKept
<1>5. ASSUME NEW g \in Goroutines, Go(g) \/ Heartbeat(g) \/ Abort(g)
      PROVE  IInv'
  BY <1>0, <1>5, WorkTypes, BeginTypes, FinishTypes, HeartbeatTypes, AbortTypes DEF IInv, Go
<1>6. CASE Tick
  BY <1>0, <1>6, TickTypes DEF IInv
<1>7. CASE UNCHANGED vars
  BY <1>0, <1>7 DEF IInv, TypeOK, ClientWorkKept, vars, gcsVars, history, work
<1> QED
  BY <1>1, <1>2, <1>3, <1>4, <1>5, <1>6, <1>7 DEF Next

\* The bucket, the calls in flight, the rounds and what their goroutines
\* remember are well typed, whatever the goroutines do to each other's keys.
THEOREM TypeCorrect == Spec => []TypeOK
<1>1. IInv => TypeOK
  BY DEF IInv
<1> QED
  BY <1>1, InitIInv, NextIInv, PTL DEF Spec

\* What a client queued is in the bucket until a callback begins for it, with
\* stalled owners, stale listings, late deletes and goroutines that stop.
THEOREM QueuedIsKept == Spec => []ClientWorkKept
<1>1. IInv => ClientWorkKept
  BY DEF IInv
<1> QED
  BY <1>1, InitIInv, NextIInv, PTL DEF Spec

-----------------------------------------------------------------------------
(* Ownership, of the keys that are not breached.                           *)

\* Only the goroutine that started a key runs its callback.
OrphansArePassed ==
  \A g \in Goroutines : g[3] = "orphan" =>
    job[g].pc \in {"idle", "requeue", "requeueRead", "requeueWrite", "delete"}

\* A round lists the bucket when its earlier goroutines are done.
ListsFirst == \A h \in Rounds : scan[h].on => \A g \in Of(h) : job[g].pc = "idle"

Sound(k) == k \notin breached

\* Two rounds that recover one key breach it.
OneRecovers ==
  \A k \in Keys, h, i \in Rounds :
    Sound(k) /\ Recovering(h, k) /\ Recovering(i, k) => h = i

\* An owner's object is the one it made, at the metageneration it remembers,
\* and its lease is the one it remembers: what the heartbeat relies on.
OwnersHold == \A g \in Goroutines : Owner(g) /\ Sound(KeyOf(g)) =>
  LET obj == inProgress[KeyOf(g)] IN
    /\ obj.by = g /\ obj.gen = job[g].gen /\ obj.gen > 0
    /\ obj.lease = job[g].lease /\ obj.lease > 0

\* k is in progress, and nobody owns it.
Free(k) == inProgress[k].gen > 0 /\ \A g \in Goroutines : Owner(g) => KeyOf(g) # k

\* Whatever a round takes for orphaned is, until the round has dealt with it.
OrphansAreFree ==
  /\ \A h \in Rounds : scan[h].on => \A k \in Orphans(h) : Sound(k) => Free(k)
  /\ \A g \in Goroutines :
       g[3] = "orphan" /\ job[g].pc # "idle" /\ Sound(KeyOf(g)) => Free(KeyOf(g))

OwnInv == OrphansArePassed /\ ListsFirst /\ OneRecovers /\ OwnersHold /\ OrphansAreFree

LEMMA SameGoroutine ==
  ASSUME NEW g \in Goroutines, NEW i \in Goroutines,
         g[1] = i[1], KeyOf(g) = KeyOf(i), g[3] = i[3]
  PROVE  g = i
  BY DEF Goroutines, KeyOf

LEMMA GoroutineParts ==
  ASSUME NEW g \in Goroutines
  PROVE  g[1] \in Rounds /\ KeyOf(g) \in Keys /\ g[3] \in {"start", "orphan"}
  BY DEF Goroutines, KeyOf

\* A key has one owner, since its object was made by one.
LEMMA OwnerIsUnique ==
  ASSUME OwnersHold, NEW g \in Goroutines, NEW i \in Goroutines,
         Owner(g), Owner(i), KeyOf(g) = KeyOf(i), Sound(KeyOf(g))
  PROVE  g = i
  BY DEF OwnersHold

\* What Step and Done leave alone.
LEMMA StepMoves ==
  ASSUME TypeOK, NEW g \in Goroutines, NEW pc, Step(g, pc)
  PROVE  /\ \A i \in Goroutines : i # g => job'[i] = job[i]
         /\ job'[g].pc = pc /\ job'[g].gen = job[g].gen /\ job'[g].lease = job[g].lease
  BY DEF TypeOK, Step, Jobs

LEMMA FinishMoves ==
  ASSUME TypeOK, NEW g \in Goroutines, NEW r \in Results, Finish(g, r)
  PROVE  /\ \A i \in Goroutines : i # g => job'[i] = job[i]
         /\ job'[g].gen = job[g].gen /\ job'[g].lease = job[g].lease
         /\ \/ job'[g].pc = "requeue" /\ again' = again \union {KeyOf(g)}
            \/ job'[g].pc \in {"complete", "deadletter"} /\ again' = again
<1> DEFINE d == Disposition(r, job[g].attempts)
           retry == d \in {"requeue", "requeueAfter"}
           next == [job[g] EXCEPT !.live = FALSE, !.pc = IF retry THEN "requeue" ELSE d]
           later == [next EXCEPT !.delay = RequeueDelay,
                       !.prio = IF job[g].priority # 0 THEN Bare(job[g].priority) ELSE @]
<1>1. job[g] \in Jobs
  BY DEF TypeOK
<1>2. d \in {"complete", "deadletter", "requeue", "requeueAfter"}
  BY DEF Results, Disposition
<1>3. job' = [job EXCEPT ![g] = IF d # "requeueAfter" THEN next ELSE later]
  BY DEF Finish
<1>4. /\ next.gen = job[g].gen /\ next.lease = job[g].lease
      /\ next.pc = IF retry THEN "requeue" ELSE d
  BY <1>1 DEF Jobs
<1>5. later.gen = next.gen /\ later.lease = next.lease /\ later.pc = next.pc
  BY <1>1 DEF Jobs
<1>6. again' = IF retry THEN again \union {KeyOf(g)} ELSE again
  BY DEF Finish
<1> HIDE DEF next, later, d
<1>7. (\A i \in Goroutines : i # g => job'[i] = job[i])
      /\ job'[g] = IF d # "requeueAfter" THEN next ELSE later
  BY <1>3 DEF TypeOK
<1>8. CASE retry
  BY <1>4, <1>5, <1>6, <1>7, <1>8
<1>9. CASE ~retry
  BY <1>2, <1>4, <1>5, <1>6, <1>7, <1>9
<1> QED
  BY <1>8, <1>9

LEMMA DoneMoves ==
  ASSUME TypeOK, NEW g \in Goroutines, Done(g)
  PROVE  /\ \A i \in Goroutines : i # g => job'[i] = job[i]
         /\ job'[g].pc = "idle"
  BY DEF TypeOK, Done, NoJob

\* A step of one goroutine that takes no object and gives none away.
LEMMA GoroutineMoves ==
  ASSUME OwnInv, NEW g \in Goroutines, job[g].pc # "idle",
         \A i \in Goroutines : i # g => job'[i] = job[i],
         UNCHANGED <<inProgress, scan, breached>>,
         job'[g].pc \notin {"idle", "startCopy"} =>
           /\ g[3] = "start" => Owner(g) /\ job'[g].gen = job[g].gen /\ job'[g].lease = job[g].lease
           /\ g[3] = "orphan" => job'[g].pc \in {"requeue", "requeueRead", "requeueWrite", "delete"},
         job'[g].pc # "startCopy"
  PROVE  OwnInv'
<1>1. \A i \in Goroutines : i # g => job'[i] = job[i]
  OBVIOUS
<1>2. \A i \in Goroutines : Owner(i)' => Owner(i) /\ job'[i].gen = job[i].gen
                                         /\ job'[i].lease = job[i].lease
  BY <1>1 DEF Owner
<1>3. \A i \in Goroutines : job'[i].pc # "idle" => job[i].pc # "idle"
  BY <1>1
<1>4. OrphansArePassed'
  BY <1>1 DEF OwnInv, OrphansArePassed
<1>5. ListsFirst'
  <2>1. \A h \in Rounds : Of(h) \subseteq Goroutines
    BY DEF Of
  <2> QED
    BY <1>3, <2>1 DEF OwnInv, ListsFirst, Of
<1>6. \A h \in Rounds, k \in Keys : Recovering(h, k)' => Recovering(h, k)
  BY <1>3 DEF Recovering, Of, Orphans, Present
<1>7. OneRecovers'
  BY <1>6 DEF OwnInv, OneRecovers, Sound
<1>8. OwnersHold'
  BY <1>2 DEF OwnInv, OwnersHold, Sound
<1>9. \A k : Free(k) => Free(k)'
  BY <1>2 DEF Free
<1>10. OrphansAreFree'
  BY <1>3, <1>9 DEF OwnInv, OrphansAreFree, Orphans, Present, Sound
<1> QED
  BY <1>4, <1>5, <1>7, <1>8, <1>10 DEF OwnInv

\* Start makes an object where there is none: nobody owned the key, and no
\* round takes it for orphaned.
LEMMA StartOwns ==
  ASSUME TypeOK, OwnInv, NEW g \in Goroutines, StartCopy(g),
         UNCHANGED <<scan, breached>>
  PROVE  OwnInv'
<1> DEFINE k == KeyOf(g)
<1>1. CASE Done(g) /\ UNCHANGED inProgress
  <2>1. job[g].pc # "idle"
    BY DEF StartCopy
  <2> QED
    BY <1>1, <2>1, GoroutineMoves, DoneMoves
<1>2. ASSUME queued[k].exists, inProgress[k].gen = 0,
             inProgress' = [inProgress EXCEPT ![k] = Made(g)],
             job' = [job EXCEPT ![g] = Started(@)]
      PROVE  OwnInv'
  <2>1. k \in Keys /\ job[g].pc = "startCopy" /\ g[3] = "start"
    BY GoroutineParts DEF StartCopy, OwnInv, OrphansArePassed
  <2>2. /\ \A i \in Goroutines : i # g => job'[i] = job[i]
        /\ job'[g].pc = "startDelete" /\ job'[g].gen = 1 /\ job'[g].lease = Lease
    BY <1>2 DEF TypeOK, Started, Jobs
  <2>3. /\ \A n \in Keys : n # k => inProgress'[n] = inProgress[n]
        /\ inProgress'[k] = Made(g)
    BY <1>2, <2>1 DEF TypeOK
  <2>4. \A i \in Goroutines : Owner(i) /\ Sound(KeyOf(i)) => KeyOf(i) # k
    BY <1>2 DEF OwnInv, OwnersHold
  <2>5. \A i \in Goroutines : Owner(i)' <=> Owner(i) \/ i = g
    BY <2>1, <2>2 DEF Owner
  <2>6. \A i \in Goroutines : i[3] = "orphan" => job'[i] = job[i]
    BY <2>1, <2>2
  <2>7. OrphansArePassed'
    BY <2>6 DEF OwnInv, OrphansArePassed
  <2>8. ListsFirst'
    BY <2>1, <2>2 DEF OwnInv, ListsFirst, Of
  <2>9. OneRecovers'
    <3>1. \A h \in Rounds, n \in Keys : Recovering(h, n)' => Recovering(h, n)
      BY <2>6 DEF Recovering, Of, Orphans, Present
    <3> QED
      BY <3>1 DEF OwnInv, OneRecovers, Sound
  <2>10. OwnersHold'
    <3>1. ASSUME NEW i \in Goroutines, Owner(i), i # g, Sound(KeyOf(i)) PROVE OwnersHold!(i)'
      <4>1. KeyOf(i) \in Keys /\ KeyOf(i) # k
        BY <2>4, <3>1, GoroutineParts
      <4> QED
        BY <2>2, <2>3, <3>1, <4>1 DEF OwnInv, OwnersHold
    <3>2. OwnersHold!(g)'
      BY <2>2, <2>3, GcsAssumption DEF Made
    <3> QED
      BY <2>5, <3>1, <3>2 DEF OwnersHold, Sound
  <2>11. \A n \in Keys : Free(n) => Free(n)'
    BY <1>2, <2>3, <2>5 DEF Free
  <2>12. OrphansAreFree'
    BY <2>6, <2>11, GoroutineParts DEF OwnInv, OrphansAreFree, Orphans, Present, Sound
  <2> QED
    BY <2>7, <2>8, <2>9, <2>10, <2>12 DEF OwnInv
<1> QED
  BY <1>1, <1>2 DEF StartCopy

\* A delete removes the object of the goroutine that calls it, or one that is
\* free, and nobody else is about to requeue the key: if the key is sound.
LEMMA DeletesItsOwn ==
  ASSUME TypeOK, OwnInv, NEW g \in Goroutines, job[g].pc = "delete", Sound(KeyOf(g))
  PROVE  /\ \A i \in Goroutines : i # g /\ Owner(i) => KeyOf(i) # KeyOf(g)
         /\ \A i \in Goroutines :
              i # g /\ i[3] = "orphan" /\ job[i].pc # "idle" => KeyOf(i) # KeyOf(g)
         /\ \A h \in Rounds : scan[h].on => KeyOf(g) \notin Orphans(h)
<1> DEFINE k == KeyOf(g)
<1>1. CASE g[3] = "start"
  <2>1. Owner(g)
    BY <1>1 DEF Owner
  <2> QED
    BY <2>1, OwnerIsUnique DEF OwnInv, OrphansAreFree, Free
<1>2. CASE g[3] = "orphan"
  <2>1. Recovering(g[1], k) /\ g[1] \in Rounds /\ k \in Keys
    BY <1>2, GoroutineParts DEF Recovering, Of
  <2>2. \A i \in Goroutines : i # g /\ Owner(i) => KeyOf(i) # k
    BY <1>2 DEF OwnInv, OrphansAreFree, Free
  <2>3. ASSUME NEW i \in Goroutines, i # g, i[3] = "orphan", job[i].pc # "idle", KeyOf(i) = k
        PROVE  FALSE
    <3>1. Recovering(i[1], k) /\ i[1] \in Rounds
      BY <2>3, GoroutineParts DEF Recovering, Of
    <3>2. g[1] = i[1]
      BY <2>1, <3>1 DEF OwnInv, OneRecovers
    <3> QED
      BY <1>2, <2>3, <3>2, SameGoroutine
  <2>4. ASSUME NEW h \in Rounds, scan[h].on, k \in Orphans(h) PROVE FALSE
    <3>1. Recovering(h, k)
      BY <2>4 DEF Recovering
    <3>2. g[1] = h
      BY <2>1, <3>1 DEF OwnInv, OneRecovers
    <3> QED
      BY <2>4, <3>2 DEF OwnInv, ListsFirst, Of
  <2> QED
    BY <2>2, <2>3, <2>4
<1> QED
  BY <1>1, <1>2, GoroutineParts

LEMMA DeleteOwns ==
  ASSUME TypeOK, OwnInv, NEW g \in Goroutines, DeleteOwn(g), UNCHANGED <<scan, breached>>
  PROVE  OwnInv'
<1> DEFINE k == KeyOf(g)
<1>1. /\ k \in Keys /\ job[g].pc = "delete"
      /\ \A i \in Goroutines : job'[i] = IF i = g THEN NoJob ELSE job[i]
      /\ \A n \in Keys : inProgress'[n] = IF n = k THEN NoInProgress ELSE inProgress[n]
  BY GoroutineParts DEF DeleteOwn, Done, DeleteInProgress, TypeOK
<1>2. NoJob.pc = "idle"
  BY DEF NoJob
<1>3. /\ \A i \in Goroutines : job'[i].pc # "idle" => job'[i] = job[i] /\ i # g
      /\ \A i \in Goroutines : Owner(i)' => Owner(i) /\ job'[i] = job[i] /\ i # g
  BY <1>1, <1>2 DEF Owner
<1>4. OrphansArePassed'
  BY <1>3 DEF OwnInv, OrphansArePassed
<1>5. ListsFirst'
  BY <1>3 DEF OwnInv, ListsFirst, Of
<1>6. \A h \in Rounds, n \in Keys : Recovering(h, n)' => Recovering(h, n)
  BY <1>3 DEF Recovering, Of, Orphans, Present
<1>7. OneRecovers'
  BY <1>6 DEF OwnInv, OneRecovers, Sound
<1>8. OwnersHold'
  <2>1. ASSUME NEW i \in Goroutines, Owner(i), i # g, job'[i] = job[i], Sound(KeyOf(i))
        PROVE  OwnersHold!(i)'
    <3>1. KeyOf(i) # k /\ KeyOf(i) \in Keys
      BY <1>1, <2>1, DeletesItsOwn, GoroutineParts
    <3> QED
      BY <1>1, <2>1, <3>1 DEF OwnInv, OwnersHold
  <2> QED
    BY <1>3, <2>1 DEF OwnersHold, Sound
<1>9. \A n \in Keys : n # k /\ Free(n) => Free(n)'
  BY <1>1, <1>3 DEF Free
<1>10. OrphansAreFree'
  <2>1. ASSUME NEW h \in Rounds, scan'[h].on, NEW n \in Orphans(h)', Sound(n)' PROVE Free(n)'
    <3>1. scan[h].on /\ n \in Orphans(h) /\ Sound(n) /\ n \in Keys
      BY <2>1 DEF Orphans, Present, Sound
    <3>2. n # k
      BY <1>1, <3>1, DeletesItsOwn
    <3> QED
      BY <1>9, <3>1, <3>2 DEF OwnInv, OrphansAreFree
  <2>2. ASSUME NEW i \in Goroutines, i[3] = "orphan", job'[i].pc # "idle", Sound(KeyOf(i))'
        PROVE  Free(KeyOf(i))'
    <3>1. i # g /\ job[i].pc # "idle" /\ Sound(KeyOf(i))
      BY <1>3, <2>2 DEF Sound
    <3>2. KeyOf(i) # k /\ KeyOf(i) \in Keys
      BY <1>1, <2>2, <3>1, DeletesItsOwn, GoroutineParts
    <3> QED
      BY <1>9, <2>2, <3>1, <3>2 DEF OwnInv, OrphansAreFree
  <2> QED
    BY <2>1, <2>2 DEF OrphansAreFree
<1> QED
  BY <1>4, <1>5, <1>7, <1>8, <1>10 DEF OwnInv

\* A beat renews the owner's own object, if the key is sound.
LEMMA BeatOwns ==
  ASSUME TypeOK, OwnInv, NEW g \in Goroutines, Beat(g), UNCHANGED <<scan, breached>>
  PROVE  OwnInv'
<1> DEFINE k == KeyOf(g)
<1>1. /\ k \in Keys /\ job[g].pc = "running" /\ g[3] = "start" /\ Owner(g)
  BY GoroutineParts DEF Beat, OwnInv, OrphansArePassed, Owner
<1>2. /\ \A i \in Goroutines : i # g => job'[i] = job[i]
      /\ job'[g].pc = job[g].pc /\ job'[g].gen = job[g].gen + 1 /\ job'[g].lease = Lease
  BY DEF Beat, TypeOK, Renewed, Jobs
<1>3. /\ \A n \in Keys : n # k => inProgress'[n] = inProgress[n]
      /\ inProgress'[k].gen = inProgress[k].gen + 1 /\ inProgress'[k].lease = Lease
      /\ inProgress'[k].by = inProgress[k].by
  BY <1>1 DEF Beat, TypeOK, InProgressObjects
<1>4. \A i \in Goroutines : i # g /\ Owner(i) /\ Sound(KeyOf(i)) => KeyOf(i) # k
  BY <1>1, OwnerIsUnique DEF OwnInv
<1>5. \A i \in Goroutines : job'[i].pc = job[i].pc
  BY <1>2
<1>6. \A i \in Goroutines : Owner(i)' <=> Owner(i)
  BY <1>5 DEF Owner
<1>7. OrphansArePassed' /\ ListsFirst'
  BY <1>5 DEF OwnInv, OrphansArePassed, ListsFirst, Of
<1>8. OneRecovers'
  BY <1>5 DEF OwnInv, OneRecovers, Recovering, Of, Orphans, Present, Sound
<1>9. OwnersHold'
  <2>1. ASSUME NEW i \in Goroutines, Owner(i), i # g, Sound(KeyOf(i)) PROVE OwnersHold!(i)'
    BY <1>2, <1>3, <1>4, <2>1, GoroutineParts DEF OwnInv, OwnersHold
  <2>2. ASSUME Sound(k) PROVE OwnersHold!(g)'
    <3>1. inProgress[k].by = g /\ inProgress[k].gen = job[g].gen /\ job[g].gen \in Nat
          /\ inProgress[k].gen > 0 /\ Lease > 0
      BY <1>1, <2>2, GcsAssumption DEF OwnInv, OwnersHold, TypeOK, Jobs
    <3> QED
      BY <1>2, <1>3, <3>1
  <2> QED
    BY <1>6, <2>1, <2>2 DEF OwnersHold, Sound
<1>10. \A n \in Keys : Free(n) => Free(n)'
  <2>1. \A n \in Keys : inProgress[n].gen > 0 => inProgress'[n].gen > 0
    BY <1>3 DEF TypeOK, InProgressObjects
  <2> QED
    BY <1>6, <2>1 DEF Free
<1>11. OrphansAreFree'
  BY <1>5, <1>10, GoroutineParts DEF OwnInv, OrphansAreFree, Orphans, Present, Sound
<1> QED
  BY <1>7, <1>8, <1>9, <1>11 DEF OwnInv

\* A lease that runs out, of an owner or in a listing, breaches its key.
LEMMA TickOwns ==
  ASSUME TypeOK, OwnInv, Tick
  PROVE  OwnInv'
<1>1. /\ \A k : Sound(k)' => Sound(k) /\ k \notin Expiring
      /\ \A g \in Goroutines : Owner(g) /\ Sound(KeyOf(g))' => job[g].lease > 1
  <2>1. \A k : Sound(k)' => Sound(k) /\ k \notin Expiring
    BY DEF Tick, Sound
  <2>2. \A g \in Goroutines : job[g].lease \in Nat
    BY GcsAssumption DEF TypeOK, Jobs
  <2> QED
    BY <2>1, <2>2 DEF Expiring
<1>2. \A g \in Goroutines : job'[g].pc = job[g].pc /\ job'[g].gen = job[g].gen
                            /\ job'[g].lease = Less(job[g].lease)
  <2> SUFFICES ASSUME NEW g \in Goroutines
               PROVE  job'[g].pc = job[g].pc /\ job'[g].gen = job[g].gen
                      /\ job'[g].lease = Less(job[g].lease)
    OBVIOUS
  <2>1. job'[g] = [job[g] EXCEPT !.wait = Less(@), !.lease = Less(@), !.merge = Aged(@)]
    BY DEF Tick, GcsTick
  <2>2. job[g] \in Jobs
    BY DEF TypeOK
  <2> QED
    BY <2>1, <2>2 DEF Jobs
<1>3. \A k \in Keys : inProgress'[k].gen = inProgress[k].gen
        /\ inProgress'[k].by = inProgress[k].by /\ inProgress'[k].lease = Less(inProgress[k].lease)
  <2> SUFFICES ASSUME NEW k \in Keys
               PROVE  inProgress'[k].gen = inProgress[k].gen
                      /\ inProgress'[k].by = inProgress[k].by
                      /\ inProgress'[k].lease = Less(inProgress[k].lease)
    OBVIOUS
  <2>1. inProgress'[k] = [inProgress[k] EXCEPT !.lease = Less(@)]
    BY DEF Tick, GcsTick
  <2>2. inProgress[k] \in InProgressObjects
    BY DEF TypeOK
  <2> QED
    BY <2>1, <2>2 DEF InProgressObjects
<1>4. ASSUME NEW h \in Rounds
      PROVE  /\ scan'[h].on = scan[h].on
             /\ \A k \in Keys : scan[h].on /\ k \in Orphans(h)' /\ Sound(k)' => k \in Orphans(h)
  <2>1. scan'[h] = AgedScan(scan[h])
    BY DEF Tick
  <2>2. scan[h] \in [on : BOOLEAN, seen : [Keys -> InProgressObjects]]
    BY DEF TypeOK
  <2>3. scan'[h].on = scan[h].on
        /\ scan'[h].seen = [k \in Keys |-> [scan[h].seen[k] EXCEPT !.lease = Less(@)]]
    BY <2>1, <2>2 DEF AgedScan
  <2>4. ASSUME NEW k \in Keys, scan[h].on, k \in Orphans(h)', Sound(k)' PROVE k \in Orphans(h)
    <3>1. scan[h].seen[k] \in InProgressObjects
      BY <2>2
    <3>2. scan'[h].seen[k].gen = scan[h].seen[k].gen
          /\ scan'[h].seen[k].lease = Less(scan[h].seen[k].lease)
      BY <2>3, <3>1 DEF InProgressObjects
    <3>3. scan[h].seen[k].gen > 0 /\ Less(scan[h].seen[k].lease) = 0
      BY <2>4, <3>2 DEF Orphans, Present
    <3>4. scan[h].seen[k].lease \in Nat
      BY <3>1, GcsAssumption DEF InProgressObjects
    <3>5. scan[h].seen[k].lease \in {0, 1}
      BY <3>3, <3>4 DEF Less
    <3>6. scan[h].seen[k].lease # 1
      BY <1>1, <2>4, <3>3 DEF Expiring, Present
    <3> QED
      BY <3>3, <3>5, <3>6 DEF Orphans, Present
  <2> QED
    BY <2>3, <2>4
<1>5. \A g \in Goroutines : Owner(g)' <=> Owner(g)
  BY <1>2 DEF Owner
<1>6. OrphansArePassed' /\ ListsFirst'
  BY <1>2, <1>4 DEF OwnInv, OrphansArePassed, ListsFirst, Of
<1>7. OneRecovers'
  <2>1. \A h \in Rounds, k \in Keys : Recovering(h, k)' /\ Sound(k)' => Recovering(h, k)
    BY <1>2, <1>4 DEF Recovering, Of
  <2> QED
    BY <1>1, <2>1 DEF OwnInv, OneRecovers
<1>8. OwnersHold'
  <2>1. ASSUME NEW g \in Goroutines, Owner(g), Sound(KeyOf(g))' PROVE OwnersHold!(g)'
    <3>1. KeyOf(g) \in Keys /\ job[g].lease > 1 /\ job[g].lease \in Nat /\ Sound(KeyOf(g))
      BY <1>1, <2>1, GoroutineParts, GcsAssumption DEF TypeOK, Jobs
    <3>2. Less(job[g].lease) > 0
      BY <3>1 DEF Less
    <3> QED
      BY <1>2, <1>3, <2>1, <3>1, <3>2 DEF OwnInv, OwnersHold
  <2> QED
    BY <1>5, <2>1 DEF OwnersHold
<1>9. \A k \in Keys : Free(k) => Free(k)'
  BY <1>3, <1>5 DEF Free
<1>10. OrphansAreFree'
  <2>1. ASSUME NEW h \in Rounds, scan'[h].on, NEW k \in Orphans(h)', Sound(k)' PROVE Free(k)'
    <3>1. k \in Keys
      BY <2>1 DEF Orphans, Present
    <3> QED
      BY <1>1, <1>4, <1>9, <2>1, <3>1 DEF OwnInv, OrphansAreFree
  <2>2. ASSUME NEW g \in Goroutines, g[3] = "orphan", job'[g].pc # "idle", Sound(KeyOf(g))'
        PROVE  Free(KeyOf(g))'
    BY <1>1, <1>2, <1>9, <2>2, GoroutineParts DEF OwnInv, OrphansAreFree
  <2> QED
    BY <2>1, <2>2 DEF OrphansAreFree
<1> QED
  BY <1>6, <1>7, <1>8, <1>10 DEF OwnInv

\* An object whose lease has run out when it is listed belongs to nobody, and
\* no other round is about to requeue it, or its key is breached.
LEMMA ListOwns ==
  ASSUME TypeOK, OwnInv, NEW h \in Rounds, ListInProgress(h)
  PROVE  OwnInv'
<1>1. /\ UNCHANGED <<job, inProgress>>
      /\ ~scan[h].on /\ \A g \in Of(h) : job[g].pc = "idle"
      /\ \A i \in Rounds : scan'[i] = IF i = h THEN [on |-> TRUE, seen |-> inProgress] ELSE scan[i]
  BY DEF ListInProgress, gcsVars, TypeOK
<1>2. \A g \in Goroutines : Owner(g)' <=> Owner(g)
  BY <1>1 DEF Owner
<1>3. \A k : Sound(k)' => Sound(k) /\ k \notin Contested
  BY DEF ListInProgress, Sound
<1>4. OrphansArePassed' /\ ListsFirst' /\ OwnersHold'
  BY <1>1, <1>2, <1>3 DEF OwnInv, OrphansArePassed, ListsFirst, OwnersHold, Of
<1>5. /\ \A k \in Keys, i \in Rounds \ {h} : Recovering(i, k)' => Recovering(i, k)
      /\ \A k \in Keys : ~Recovering(h, k)
      /\ \A k \in Keys : k \in Orphans(h)' <=> inProgress[k].gen > 0 /\ inProgress[k].lease = 0
  BY <1>1 DEF Recovering, Of, Orphans, Present
<1>6. \A k \in Keys : Recovering(h, k)' => k \in Orphans(h)'
  BY <1>1 DEF Recovering, Of
<1>7. OneRecovers'
  <2>1. ASSUME NEW k \in Keys, NEW i \in Rounds, Sound(k)', Recovering(h, k)', Recovering(i, k)'
        PROVE  h = i
    BY <1>3, <1>5, <1>6, <2>1 DEF Contested
  <2>2. ASSUME NEW k \in Keys, NEW i \in Rounds \ {h}, NEW j \in Rounds \ {h}, Sound(k)',
               Recovering(i, k)', Recovering(j, k)'
        PROVE  i = j
    BY <1>3, <1>5, <2>2 DEF OwnInv, OneRecovers
  <2> QED
    BY <2>1, <2>2 DEF OneRecovers
<1>8. \A k \in Keys : Free(k)' <=> Free(k)
  BY <1>1, <1>2 DEF Free
<1>9. ASSUME NEW k \in Orphans(h)', Sound(k)' PROVE Free(k)'
  <2>1. k \in Keys /\ inProgress[k].gen > 0 /\ inProgress[k].lease = 0 /\ Sound(k)
    BY <1>3, <1>5, <1>9 DEF Orphans, Present
  <2>2. \A g \in Goroutines : Owner(g) => KeyOf(g) # k
    BY <2>1 DEF OwnInv, OwnersHold
  <2> QED
    BY <1>8, <2>1, <2>2 DEF Free
<1>10. OrphansAreFree'
  <2>1. ASSUME NEW i \in Rounds \ {h}, scan'[i].on, NEW k \in Orphans(i)', Sound(k)' PROVE Free(k)'
    BY <1>1, <1>3, <1>8, <2>1 DEF OwnInv, OrphansAreFree, Orphans, Present
  <2>2. ASSUME NEW g \in Goroutines, g[3] = "orphan", job'[g].pc # "idle", Sound(KeyOf(g))'
        PROVE  Free(KeyOf(g))'
    BY <1>1, <1>3, <1>8, <2>2, GoroutineParts DEF OwnInv, OrphansAreFree
  <2> QED
    BY <1>9, <2>1, <2>2 DEF OrphansAreFree
<1> QED
  BY <1>4, <1>7, <1>10 DEF OwnInv

\* Launching passes the orphans of a listing to goroutines, and makes no owner.
LEMMA LaunchOwns ==
  ASSUME TypeOK, OwnInv, NEW h \in Rounds, Launch(h)
  PROVE  OwnInv' /\ \A g \in Goroutines : Owner(g)' <=> Owner(g)
<1>1. PICK L : job' = [g \in Goroutines |->
               IF g[1] # h THEN job[g]
               ELSE IF g[3] = "start" /\ KeyOf(g) \in L THEN StartJob(KeyOf(g))
               ELSE IF g[3] = "orphan" /\ KeyOf(g) \in Orphans(h) THEN OrphanJob(h, KeyOf(g))
               ELSE NoJob]
  BY DEF Launch
<1>2. /\ NoJob.pc = "idle"
      /\ \A k : StartJob(k).pc = "startCopy" /\ OrphanJob(h, k).pc = "requeue"
  BY DEF NoJob, StartJob, OrphanJob
<1>3. /\ scan[h].on /\ UNCHANGED <<inProgress, breached>>
      /\ \A i \in Rounds : scan'[i] = IF i = h THEN NoScan ELSE scan[i]
  BY DEF Launch, TypeOK, bucket, history
<1>4. \A g \in Goroutines : g[1] = h => job[g].pc = "idle"
  BY <1>3 DEF OwnInv, ListsFirst, Of
<1>5. \A g \in Goroutines : g[1] # h => job'[g] = job[g]
  BY <1>1
<1>6. \A g \in Goroutines : g[1] = h =>
        \/ job'[g].pc = "idle"
        \/ g[3] = "start" /\ job'[g].pc = "startCopy"
        \/ g[3] = "orphan" /\ job'[g].pc = "requeue" /\ KeyOf(g) \in Orphans(h)
  BY <1>1, <1>2
<1>7. \A g \in Goroutines : (Owner(g)' <=> Owner(g)) /\ (Owner(g) => g[1] # h)
  BY <1>4, <1>5, <1>6 DEF Owner
<1>8. ~NoScan.on
  BY DEF NoScan
<1>9. OrphansArePassed' /\ ListsFirst'
  BY <1>3, <1>5, <1>6, <1>8 DEF OwnInv, OrphansArePassed, ListsFirst, Of
<1>10. \A i \in Rounds, k \in Keys : Recovering(i, k)' => Recovering(i, k)
  <2>1. \A i \in Rounds \ {h}, k \in Keys : Recovering(i, k)' => Recovering(i, k)
    BY <1>3, <1>5 DEF Recovering, Of, Orphans, Present
  <2>2. \A k \in Keys : Recovering(h, k)' => k \in Orphans(h)
    BY <1>3, <1>6, <1>8 DEF Recovering, Of
  <2> QED
    BY <1>3, <2>1, <2>2 DEF Recovering
<1>11. OneRecovers'
  BY <1>3, <1>10 DEF OwnInv, OneRecovers, Sound
<1>12. OwnersHold'
  BY <1>3, <1>5, <1>7 DEF OwnInv, OwnersHold, Sound
<1>13. \A k : Free(k) => Free(k)'
  BY <1>3, <1>7 DEF Free
<1>14. OrphansAreFree'
  <2>1. ASSUME NEW i \in Rounds, scan'[i].on, NEW k \in Orphans(i)', Sound(k)' PROVE Free(k)'
    BY <1>3, <1>8, <1>13, <2>1 DEF OwnInv, OrphansAreFree, Orphans, Present, Sound
  <2>2. ASSUME NEW g \in Goroutines, g[3] = "orphan", job'[g].pc # "idle", Sound(KeyOf(g))'
        PROVE  Free(KeyOf(g))'
    BY <1>3, <1>5, <1>6, <1>13, <2>2 DEF OwnInv, OrphansAreFree, Sound
  <2> QED
    BY <2>1, <2>2 DEF OrphansAreFree
<1> QED
  BY <1>7, <1>9, <1>11, <1>12, <1>14 DEF OwnInv

\* The other steps of a goroutine.
LEMMA WorkOwns ==
  ASSUME TypeOK, OwnInv, NEW g \in Goroutines, Work(g)
  PROVE  OwnInv'
<1>0. UNCHANGED <<scan, breached>>
  BY DEF Work, history
<1>1. CASE StartCopy(g)
  BY <1>0, <1>1, StartOwns
<1>2. CASE DeleteOwn(g)
  BY <1>0, <1>2, DeleteOwns
<1>3. CASE CompleteDeadLetter(g) \/ DeadletterCopy(g)
  <2>1. g[3] = "start" /\ Owner(g)
    BY <1>3, GoroutineParts DEF CompleteDeadLetter, DeadletterCopy, OwnInv, OrphansArePassed, Owner
  <2>2. UNCHANGED inProgress /\ (Step(g, "delete") \/ Done(g)) /\ job[g].pc # "idle"
    BY <1>3 DEF CompleteDeadLetter, DeadletterCopy
  <2> QED
    BY <1>0, <2>1, <2>2, GoroutineMoves, StepMoves, DoneMoves
<1>4. CASE RequeueCopy(g) \/ RequeueRead(g) \/ RequeueWrite(g)
  <2>1. /\ job[g].pc \in {"requeue", "requeueRead", "requeueWrite"} /\ UNCHANGED inProgress
        /\ g[3] = "start" => Owner(g)
    BY <1>4 DEF RequeueCopy, RequeueRead, RequeueWrite, bucket, Owner
  <2>2. CASE Step(g, "delete") \/ Step(g, "requeue") \/ Done(g)
    BY <1>0, <2>1, <2>2, GoroutineMoves, StepMoves, DoneMoves
  <2>3. ASSUME \/ \E wait : job' = [job EXCEPT ![g].pc = "requeueRead", ![g].wait = wait]
               \/ \E merge : job' = [job EXCEPT ![g].pc = "requeueWrite", ![g].merge = merge]
        PROVE  OwnInv'
    <3>1. /\ \A i \in Goroutines : i # g => job'[i] = job[i]
          /\ job'[g].pc \in {"requeueRead", "requeueWrite"}
          /\ job'[g].gen = job[g].gen /\ job'[g].lease = job[g].lease
      BY <2>3 DEF TypeOK, Jobs
    <3> QED
      BY <1>0, <2>1, <3>1, GoroutineMoves
  <2> QED
    BY <1>4, <2>2, <2>3 DEF RequeueCopy, RequeueRead, RequeueWrite
<1> QED
  BY <1>1, <1>2, <1>3, <1>4 DEF Work

LEMMA GoOwns ==
  ASSUME TypeOK, OwnInv, NEW g \in Goroutines, Go(g) \/ Heartbeat(g) \/ Abort(g)
  PROVE  OwnInv'
<1>1. CASE Work(g)
  BY <1>1, WorkOwns
<1>2. CASE Begin(g)
  <2>1. job[g].pc = "startDelete" /\ UNCHANGED <<inProgress, scan, breached>> /\ g[3] = "start" /\ Owner(g)
    BY <1>2, GoroutineParts DEF Begin, StartDelete, OwnInv, OrphansArePassed, Owner
  <2>2. CASE Done(g)
    BY <2>1, <2>2, GoroutineMoves, DoneMoves
  <2>3. CASE job' = [job EXCEPT ![g] = [@ EXCEPT !.pc = "running", !.live = TRUE]]
    <3>1. /\ \A i \in Goroutines : i # g => job'[i] = job[i]
          /\ job'[g].pc = "running"
          /\ job'[g].gen = job[g].gen /\ job'[g].lease = job[g].lease
      BY <2>3 DEF TypeOK, Jobs
    <3> QED
      BY <2>1, <3>1, GoroutineMoves
  <2> QED
    BY <1>2, <2>2, <2>3 DEF Begin, StartDelete
<1>3. ASSUME NEW r \in Results, Finish(g, r) PROVE OwnInv'
  <2>1. job[g].pc = "running" /\ UNCHANGED <<inProgress, scan, breached>> /\ g[3] = "start" /\ Owner(g)
    BY <1>3, GoroutineParts DEF Finish, OwnInv, OrphansArePassed, Owner, bucket
  <2>2. /\ \A i \in Goroutines : i # g => job'[i] = job[i]
        /\ job'[g].gen = job[g].gen /\ job'[g].lease = job[g].lease
        /\ job'[g].pc \in {"complete", "deadletter", "requeue"}
    BY <1>3, FinishMoves
  <2> QED
    BY <2>1, <2>2, GoroutineMoves
<1>4. CASE Beat(g) /\ UNCHANGED <<scan, breached>>
  BY <1>4, BeatOwns
<1>5. CASE BeatFails(g) /\ UNCHANGED <<scan, breached>>
  <2>1. job[g].pc = "running" /\ UNCHANGED <<inProgress, scan, breached>> /\ g[3] = "start" /\ Owner(g)
    BY <1>5, GoroutineParts DEF BeatFails, OwnInv, OrphansArePassed, Owner, bucket
  <2>2. /\ \A i \in Goroutines : i # g => job'[i] = job[i]
        /\ job'[g].pc = "running" /\ job'[g].gen = job[g].gen /\ job'[g].lease = job[g].lease
    BY <1>5 DEF BeatFails, TypeOK, Jobs
  <2> QED
    BY <2>1, <2>2, GoroutineMoves
<1>6. CASE Abort(g)
  <2>1. job[g].pc # "idle" /\ UNCHANGED <<inProgress, scan, breached>> /\ Done(g)
    BY <1>6 DEF Abort, bucket
  <2> QED
    BY <2>1, GoroutineMoves, DoneMoves
<1> QED
  BY <1>1, <1>2, <1>3, <1>4, <1>5, <1>6 DEF Go, Heartbeat, history

LEMMA InitOwns == Init => OwnInv
<1> SUFFICES ASSUME Init PROVE OwnInv
  OBVIOUS
<1>1. /\ \A g \in Goroutines : job[g].pc = "idle"
      /\ \A h \in Rounds : ~scan[h].on
  BY DEF Init, GcsInit, NoJob, NoScan
<1> QED
  BY <1>1 DEF OwnInv, OrphansArePassed, ListsFirst, OneRecovers, Recovering, Of, OwnersHold, Owner,
              OrphansAreFree

LEMMA NextOwns ==
  ASSUME TypeOK, OwnInv, [Next]_vars
  PROVE  OwnInv'
<1>1. CASE UNCHANGED <<inProgress, job, scan, breached>>
  BY <1>1 DEF OwnInv, OrphansArePassed, ListsFirst, OneRecovers, Recovering, Of, OwnersHold, Owner,
              OrphansAreFree, Free, Orphans, Present, Sound
<1>2. ASSUME NEW c \in Callers, NEW k \in Keys, NEW prio \in Priorities, NEW wait \in Waits,
             Enqueue(c, k, prio, wait)
      PROVE  OwnInv'
  BY <1>1, <1>2 DEF Enqueue, QueueCall, bucket, history
<1>3. ASSUME NEW c \in Callers, CallCreates(c) \/ CallMerges(c) \/ CallFails(c) PROVE OwnInv'
  BY <1>1, <1>3 DEF CallCreates, CallMerges, CallFails, QueueCreate, QueueRead, QueueWrite, bucket,
              history
<1>4. ASSUME NEW h \in Rounds, ListInProgress(h) \/ Launch(h) PROVE OwnInv'
  BY <1>4, ListOwns, LaunchOwns
<1>5. ASSUME NEW g \in Goroutines, Go(g) \/ Heartbeat(g) \/ Abort(g) PROVE OwnInv'
  BY <1>5, GoOwns
<1>6. CASE Tick
  BY <1>6, TickOwns
<1>7. CASE UNCHANGED vars
  BY <1>1, <1>7 DEF vars, gcsVars, history
<1> QED
  BY <1>2, <1>3, <1>4, <1>5, <1>6, <1>7 DEF Next

-----------------------------------------------------------------------------
(* Retries *)

\* A callback that runs, or is done with its key, leaves no retry behind; a
\* goroutine that deletes the object of a key to be tried again has queued it.
MovesAreWhole ==
  \A g \in Goroutines : Sound(KeyOf(g)) =>
    /\ job[g].pc \in {"running", "complete", "deadletter"} => KeyOf(g) \notin again
    /\ job[g].pc = "delete" /\ (KeyOf(g) \in again \/ g[3] = "orphan") =>
         queued[KeyOf(g)].exists

RetryInv == MovesAreWhole /\ RetryWorkKept

\* Only the second call of Start removes a queued object.
LEMMA CallersQueue ==
  ASSUME TypeOK, NEW c \in Callers, CallCreates(c) \/ CallMerges(c)
  PROVE  \A k \in Keys : queued[k].exists => queued'[k].exists
<1>1. caller[c].key \in Keys /\ caller[c].merge \in Metas
  BY DEF TypeOK, Calls
<1>2. Patched(queued[caller[c].key], caller[c].merge).exists = queued[caller[c].key].exists
  BY <1>1, PatchedType DEF TypeOK
<1>3. CASE CallCreates(c)
  BY <1>1, <1>3 DEF CallCreates, QueueCreate, TypeOK, QueuedObject
<1>4. CASE CallMerges(c)
  BY <1>1, <1>2, <1>4 DEF CallMerges, QueueRead, QueueWrite, TypeOK, bucket
<1> QED
  BY <1>3, <1>4

LEMMA WorkQueues ==
  ASSUME TypeOK, NEW g \in Goroutines, Work(g)
  PROVE  \A k \in Keys : queued[k].exists => queued'[k].exists
<1> DEFINE k == KeyOf(g)
<1>1. k \in Keys /\ job[g].merge \in Metas
  BY GoroutineParts DEF TypeOK, Jobs
<1>2. Patched(queued[k], job[g].merge).exists = queued[k].exists
  BY <1>1, PatchedType DEF TypeOK
<1>3. CASE RequeueCopy(g)
  BY <1>1, <1>3 DEF RequeueCopy, TypeOK, QueuedObject
<1>4. CASE RequeueWrite(g)
  BY <1>1, <1>2, <1>4 DEF RequeueWrite, TypeOK
<1>5. CASE UNCHANGED queued
  BY <1>5
<1> QED
  BY <1>3, <1>4, <1>5 DEF Work, StartCopy, CompleteDeadLetter, DeadletterCopy, DeleteOwn,
     RequeueRead, bucket

\* What a step of the goroutine g has to keep to.
LEMMA RetryMoves ==
  ASSUME TypeOK, RetryInv, NEW g \in Goroutines,
         \A k \in Keys : queued[k].exists => queued'[k].exists,
         \A k \in Keys : inProgress[k].gen > 0 => inProgress'[k].gen > 0,
         again' = again, breached' = breached,
         \A i \in Goroutines : i # g => job'[i] = job[i],
         Sound(KeyOf(g)) =>
           /\ job'[g].pc \in {"running", "complete", "deadletter"} => KeyOf(g) \notin again
           /\ job'[g].pc = "delete" /\ (KeyOf(g) \in again \/ g[3] = "orphan") =>
                queued'[KeyOf(g)].exists
  PROVE  RetryInv'
<1>1. \A i \in Goroutines : KeyOf(i) \in Keys
  BY GoroutineParts
<1>2. again \subseteq Keys
  BY DEF TypeOK
<1> QED
  BY <1>1, <1>2 DEF RetryInv, MovesAreWhole, RetryWorkKept, Sound

LEMMA WorkRetries ==
  ASSUME TypeOK, OwnInv, RetryInv, NEW g \in Goroutines, Work(g)
  PROVE  RetryInv'
<1> DEFINE k == KeyOf(g)
<1>0. k \in Keys /\ again' = again /\ breached' = breached
  BY GoroutineParts DEF Work, history, work
<1>1. \A n \in Keys : queued[n].exists => queued'[n].exists
  BY WorkQueues
<1>2. CASE StartCopy(g)
  <2>1. CASE Done(g) /\ UNCHANGED inProgress
    BY <1>0, <1>1, <2>1, RetryMoves, DoneMoves
  <2>2. CASE /\ inProgress' = [inProgress EXCEPT ![k] = Made(g)]
             /\ job' = [job EXCEPT ![g] = Started(@)]
    <3>1. \A n \in Keys : inProgress[n].gen > 0 => inProgress'[n].gen > 0
      BY <1>0, <2>2 DEF TypeOK, Made
    <3>2. (\A i \in Goroutines : i # g => job'[i] = job[i]) /\ job'[g].pc = "startDelete"
      BY <2>2 DEF TypeOK, Started, Jobs
    <3> QED
      BY <1>0, <1>1, <3>1, <3>2, RetryMoves
  <2> QED
    BY <1>2, <2>1, <2>2 DEF StartCopy
<1>3. CASE DeleteOwn(g)
  <2>1. /\ \A i \in Goroutines : i # g => job'[i] = job[i]
        /\ job'[g].pc = "idle" /\ job[g].pc = "delete" /\ queued' = queued
    BY <1>3, DoneMoves DEF DeleteOwn
  <2>2. MovesAreWhole'
    BY <1>0, <2>1, GoroutineParts DEF RetryInv, MovesAreWhole, Sound
  <2>3. \A n \in Keys : n # k => inProgress'[n] = inProgress[n]
    BY <1>3 DEF DeleteOwn, DeleteInProgress, TypeOK
  <2>4. k \in again /\ Sound(k) => queued'[k].exists
    BY <2>1 DEF RetryInv, MovesAreWhole
  <2>5. RetryWorkKept'
    BY <1>0, <2>1, <2>3, <2>4 DEF RetryInv, RetryWorkKept, TypeOK, Sound
  <2> QED
    BY <2>2, <2>5 DEF RetryInv
<1>4. CASE CompleteDeadLetter(g) \/ DeadletterCopy(g)
  <2>1. /\ UNCHANGED inProgress /\ (Step(g, "delete") \/ Done(g))
        /\ job[g].pc \in {"complete", "deadletter"}
    BY <1>4 DEF CompleteDeadLetter, DeadletterCopy
  <2>2. g[3] # "orphan" /\ (Sound(k) => k \notin again)
    BY <2>1 DEF OwnInv, OrphansArePassed, RetryInv, MovesAreWhole
  <2> QED
    BY <1>0, <1>1, <2>1, <2>2, RetryMoves, StepMoves, DoneMoves
<1>5. CASE RequeueCopy(g) \/ RequeueRead(g) \/ RequeueWrite(g)
  <2>1. UNCHANGED inProgress
    BY <1>5 DEF RequeueCopy, RequeueRead, RequeueWrite, bucket
  <2>2. ASSUME Step(g, "delete"), queued[k].exists \/ queued'[k].exists PROVE RetryInv'
    BY <1>0, <1>1, <2>1, <2>2, RetryMoves, StepMoves
  <2>3. CASE Step(g, "requeue") \/ Done(g)
    BY <1>0, <1>1, <2>1, <2>3, RetryMoves, StepMoves, DoneMoves
  <2>4. ASSUME \/ \E wait : job' = [job EXCEPT ![g].pc = "requeueRead", ![g].wait = wait]
               \/ \E merge : job' = [job EXCEPT ![g].pc = "requeueWrite", ![g].merge = merge]
        PROVE  RetryInv'
    <3>1. /\ \A i \in Goroutines : i # g => job'[i] = job[i]
          /\ job'[g].pc \in {"requeueRead", "requeueWrite"}
      BY <2>4 DEF TypeOK, Jobs
    <3> QED
      BY <1>0, <1>1, <2>1, <3>1, RetryMoves
  <2>5. \A meta : queued' = [queued EXCEPT ![k] = QueuedObject(meta)] => queued'[k].exists
    BY <1>0 DEF TypeOK, QueuedObject
  <2>6. CASE RequeueCopy(g)
    BY <2>2, <2>3, <2>4, <2>5, <2>6 DEF RequeueCopy
  <2>7. CASE RequeueRead(g) \/ RequeueWrite(g)
    BY <2>2, <2>3, <2>4, <2>7 DEF RequeueRead, RequeueWrite
  <2> QED
    BY <1>5, <2>6, <2>7
<1> QED
  BY <1>2, <1>3, <1>4, <1>5 DEF Work

\* The callback begins: its key is not to be tried again any more.  Nobody
\* else is about to delete the key's object, so the queued one is not needed.
LEMMA BeginRetries ==
  ASSUME TypeOK, OwnInv, RetryInv, NEW g \in Goroutines, Begin(g)
  PROVE  RetryInv'
<1> DEFINE k == KeyOf(g)
<1>1. /\ k \in Keys /\ job[g].pc = "startDelete" /\ g[3] = "start" /\ Owner(g)
      /\ UNCHANGED <<inProgress, breached>>
      /\ \A n \in Keys : n # k => queued'[n] = queued[n]
  BY GoroutineParts DEF Begin, StartDelete, OwnInv, OrphansArePassed, Owner, TypeOK
<1>2. Sound(k) => inProgress[k].gen > 0
  BY <1>1 DEF OwnInv, OwnersHold
<1>3. \A i \in Goroutines : i # g /\ KeyOf(i) = k /\ Sound(k) => job[i].pc # "delete"
  <2> SUFFICES ASSUME NEW i \in Goroutines, i # g, KeyOf(i) = k, Sound(k), job[i].pc = "delete"
               PROVE  FALSE
    OBVIOUS
  <2>1. CASE i[3] = "start"
    BY <1>1, <2>1, OwnerIsUnique DEF OwnInv, Owner
  <2>2. CASE i[3] = "orphan"
    BY <1>1, <2>2 DEF OwnInv, OrphansAreFree, Free
  <2> QED
    BY <2>1, <2>2, GoroutineParts
<1>4. /\ \A i \in Goroutines : i # g => job'[i] = job[i]
      /\ \/ job'[g].pc = "running" /\ again' = again \ {k}
         \/ job'[g].pc = "idle" /\ again' = again
  <2>1. CASE queued[k].exists
    <3>1. job' = [job EXCEPT ![g] = [job[g] EXCEPT !.pc = "running", !.live = TRUE]]
      BY <1>1, <2>1 DEF Begin, StartDelete, TypeOK
    <3>2. (\A i \in Goroutines : i # g => job'[i] = job[i]) /\ job'[g].pc = "running"
      BY <3>1 DEF TypeOK, Jobs
    <3> QED
      BY <3>2 DEF Begin
  <2>2. CASE ~queued[k].exists
    BY <2>2, DoneMoves DEF Begin, StartDelete
  <2> QED
    BY <2>1, <2>2
<1>5. MovesAreWhole'
  BY <1>1, <1>3, <1>4, GoroutineParts DEF RetryInv, MovesAreWhole, Sound
<1>6. RetryWorkKept'
  BY <1>1, <1>2, <1>4 DEF RetryInv, RetryWorkKept, TypeOK, Sound
<1> QED
  BY <1>5, <1>6 DEF RetryInv

\* A callback ends, or is cut off: its key has an object as long as its owner
\* does nothing more, and no other goroutine has a callback for it.
LEMMA EndRetries ==
  ASSUME TypeOK, OwnInv, RetryInv, NEW g \in Goroutines, UNCHANGED <<queued, inProgress, breached>>,
         \A i \in Goroutines : i # g => job'[i] = job[i],
         again' = again \/ (again' = again \union {KeyOf(g)} /\ job[g].pc = "running"),
         \/ job'[g].pc \in {"idle", "requeue"}
         \/ job'[g].pc \in {"complete", "deadletter"} /\ again' = again /\ job[g].pc = "running"
  PROVE  RetryInv'
<1> DEFINE k == KeyOf(g)
<1>1. CASE again' = again
  BY <1>1, RetryMoves DEF RetryInv, MovesAreWhole
<1>2. CASE again' = again \union {k} /\ job[g].pc = "running" /\ job'[g].pc \in {"idle", "requeue"}
  <2>1. g[3] = "start" /\ Owner(g)
    BY <1>2, GoroutineParts DEF OwnInv, OrphansArePassed, Owner
  <2>2. Sound(k) => inProgress[k].gen > 0
    BY <2>1 DEF OwnInv, OwnersHold
  <2>3. \A i \in Goroutines : i # g /\ KeyOf(i) = k /\ Sound(k) =>
          job[i].pc \notin {"running", "complete", "deadletter", "delete"}
    <3> SUFFICES ASSUME NEW i \in Goroutines, i # g, KeyOf(i) = k, Sound(k),
                        job[i].pc \in {"running", "complete", "deadletter", "delete"}
                 PROVE  FALSE
      OBVIOUS
    <3>1. CASE i[3] = "start"
      BY <2>1, <3>1, OwnerIsUnique DEF OwnInv, Owner
    <3>2. CASE i[3] = "orphan"
      BY <2>1, <3>2 DEF OwnInv, OrphansAreFree, Free
    <3> QED
      BY <3>1, <3>2, GoroutineParts
  <2>4. MovesAreWhole'
    BY <1>2, <2>3 DEF RetryInv, MovesAreWhole, Sound
  <2>5. RetryWorkKept'
    BY <1>2, <2>2 DEF RetryInv, RetryWorkKept, Sound
  <2> QED
    BY <2>4, <2>5 DEF RetryInv
<1> QED
  BY <1>1, <1>2

LEMMA TickMoves ==
  ASSUME TypeOK, Tick
  PROVE  /\ \A g \in Goroutines : job'[g].pc = job[g].pc
         /\ \A k \in Keys : queued'[k].exists = queued[k].exists
                            /\ inProgress'[k].gen = inProgress[k].gen
<1>1. ASSUME NEW g \in Goroutines PROVE job'[g].pc = job[g].pc
  <2>1. job'[g] = [job[g] EXCEPT !.wait = Less(@), !.lease = Less(@), !.merge = Aged(@)]
    BY DEF Tick, GcsTick
  <2> QED
    BY <2>1 DEF TypeOK, Jobs
<1>2. ASSUME NEW k \in Keys
      PROVE  queued'[k].exists = queued[k].exists /\ inProgress'[k].gen = inProgress[k].gen
  <2>1. /\ queued'[k] = [queued[k] EXCEPT !.meta = Aged(@)]
        /\ inProgress'[k] = [inProgress[k] EXCEPT !.lease = Less(@)]
    BY DEF Tick, GcsTick
  <2> QED
    BY <2>1 DEF TypeOK, QueuedObjects, InProgressObjects
<1> QED
  BY <1>1, <1>2

LEMMA NextRetries ==
  ASSUME TypeOK, OwnInv, RetryInv, [Next]_vars
  PROVE  RetryInv'
<1>1. CASE UNCHANGED <<queued, inProgress, job, again, breached>>
  BY <1>1 DEF RetryInv, MovesAreWhole, RetryWorkKept, Sound
<1>2. ASSUME NEW c \in Callers, NEW k \in Keys, NEW prio \in Priorities, NEW wait \in Waits,
             Enqueue(c, k, prio, wait)
      PROVE  RetryInv'
  BY <1>1, <1>2 DEF Enqueue, QueueCall, bucket, history, work
<1>3. ASSUME NEW c \in Callers, CallCreates(c) \/ CallMerges(c) PROVE RetryInv'
  <2>1. UNCHANGED <<inProgress, job, again, breached>>
    BY <1>3 DEF CallCreates, CallMerges, QueueCreate, QueueRead, QueueWrite, bucket, history, work
  <2> QED
    BY <1>3, <2>1, CallersQueue, GoroutineParts DEF RetryInv, MovesAreWhole, RetryWorkKept, Sound, TypeOK
<1>4. ASSUME NEW c \in Callers, CallFails(c) PROVE RetryInv'
  BY <1>1, <1>4 DEF CallFails, bucket, history, work
<1>5. ASSUME NEW h \in Rounds, ListInProgress(h) PROVE RetryInv'
  <2>1. UNCHANGED <<queued, inProgress, job, again>> /\ breached \subseteq breached'
    BY <1>5 DEF ListInProgress, gcsVars, work
  <2> QED
    BY <2>1 DEF RetryInv, MovesAreWhole, RetryWorkKept, Sound
<1>6. ASSUME NEW h \in Rounds, Launch(h) PROVE RetryInv'
  <2>1. PICK L : job' = [g \in Goroutines |->
                 IF g[1] # h THEN job[g]
                 ELSE IF g[3] = "start" /\ KeyOf(g) \in L THEN StartJob(KeyOf(g))
                 ELSE IF g[3] = "orphan" /\ KeyOf(g) \in Orphans(h) THEN OrphanJob(h, KeyOf(g))
                 ELSE NoJob]
    BY <1>6 DEF Launch
  <2>2. \A g \in Goroutines : job'[g] = job[g] \/ job'[g].pc \in {"idle", "startCopy", "requeue"}
    BY <2>1 DEF NoJob, StartJob, OrphanJob
  <2>3. UNCHANGED <<queued, inProgress, again, breached>>
    BY <1>6 DEF Launch, bucket, history, work
  <2> QED
    BY <2>2, <2>3 DEF RetryInv, MovesAreWhole, RetryWorkKept, Sound
<1>7. ASSUME NEW g \in Goroutines, Work(g) \/ Begin(g) PROVE RetryInv'
  BY <1>7, WorkRetries, BeginRetries
<1>8. ASSUME NEW g \in Goroutines, NEW r \in Results, Finish(g, r) PROVE RetryInv'
  <2>1. job[g].pc = "running" /\ UNCHANGED <<queued, inProgress, breached>>
    BY <1>8 DEF Finish, bucket
  <2>2. /\ again' = again \/ again' = again \union {KeyOf(g)}
        /\ \/ job'[g].pc = "requeue"
           \/ job'[g].pc \in {"complete", "deadletter"} /\ again' = again
    BY <1>8, FinishMoves
  <2> QED
    BY <1>8, <2>1, <2>2, FinishMoves, EndRetries
<1>9. ASSUME NEW g \in Goroutines, Heartbeat(g) PROVE RetryInv'
  <2>1. /\ queued' = queued /\ again' = again /\ breached' = breached
        /\ \A i \in Goroutines : job'[i].pc = job[i].pc
        /\ \A k \in Keys : inProgress[k].gen > 0 => inProgress'[k].gen > 0
    <3>1. CASE Beat(g)
      <4>1. \A i \in Goroutines : job'[i].pc = job[i].pc
        BY <3>1 DEF Beat, Renewed, TypeOK, Jobs
      <4>2. \A k \in Keys : inProgress[k].gen > 0 => inProgress'[k].gen > 0
        BY <3>1 DEF Beat, TypeOK, InProgressObjects
      <4> QED
        BY <1>9, <3>1, <4>1, <4>2 DEF Heartbeat, Beat, history, work
    <3>2. CASE BeatFails(g)
      BY <1>9, <3>2 DEF Heartbeat, BeatFails, TypeOK, Jobs, bucket, history, work
    <3> QED
      BY <1>9, <3>1, <3>2 DEF Heartbeat
  <2> QED
    BY <2>1 DEF RetryInv, MovesAreWhole, RetryWorkKept, Sound, TypeOK
<1>10. ASSUME NEW g \in Goroutines, Abort(g) PROVE RetryInv'
  <2>1. /\ UNCHANGED <<queued, inProgress, breached>> /\ Done(g)
        /\ again' = again \/ (again' = again \union {KeyOf(g)} /\ job[g].pc = "running")
    <3>1. CASE job[g].pc = "running"
      BY <1>10, <3>1 DEF Abort, bucket
    <3>2. CASE job[g].pc # "running"
      BY <1>10, <3>2 DEF Abort, bucket
    <3> QED
      BY <3>1, <3>2
  <2> QED
    BY <2>1, DoneMoves, EndRetries
<1>11. CASE Tick
  <2>1. again' = again /\ breached \subseteq breached'
    BY <1>11 DEF Tick, work
  <2> QED
    BY <1>11, <2>1, TickMoves, GoroutineParts DEF RetryInv, MovesAreWhole, RetryWorkKept, Sound, TypeOK
<1>12. CASE UNCHANGED vars
  BY <1>1, <1>12 DEF vars, gcsVars, history, work
<1> QED
  BY <1>2, <1>3, <1>4, <1>5, <1>6, <1>7, <1>8, <1>9, <1>10, <1>11, <1>12 DEF Next, Go

-----------------------------------------------------------------------------
(* The promise of interface.go, when no key is breached: when owners and    *)
(* rounds are timely and recoveries do not overlap.                        *)

Unbreached == OwnInv /\ breached = {}

\* What the abstract queue holds, said of owners whose objects are their own.
Waiting == {k \in Keys : queued[k].exists /\
              \A g \in Goroutines : KeyOf(g) = k => job[g].pc # "startDelete"}
Held == {k \in Keys : inProgress[k].gen > 0}
Owned == {p \in Goroutines \X Keys : KeyOf(p[1]) = p[2] /\ Owner(p[1])}

Mapped ==
  /\ {k \in Keys : queued[k].exists /\
        ~\E g \in Goroutines : KeyOf(g) = k /\ job[g].pc = "startDelete"
                               /\ inProgress[k].by = g} = Waiting
  /\ {k \in Keys : inProgress[k].gen > 0} = Held
  /\ {p \in Goroutines \X Keys :
        KeyOf(p[1]) = p[2] /\ Owner(p[1]) /\ inProgress[p[2]].by = p[1]} = Owned

LEMMA Mapping == Unbreached => Mapped
<1> SUFFICES ASSUME Unbreached PROVE Mapped
  OBVIOUS
<1>1. \A g \in Goroutines : job[g].pc = "startDelete" => Owner(g)
  BY GoroutineParts DEF Unbreached, OwnInv, OrphansArePassed, Owner
<1>2. \A g \in Goroutines : Owner(g) => inProgress[KeyOf(g)].by = g
  BY DEF Unbreached, OwnInv, Sound, OwnersHold
<1>3. \A g \in Goroutines : job[g].pc = "startDelete" => inProgress[KeyOf(g)].by = g
  BY <1>1, <1>2
<1>4. ASSUME NEW k \in Keys
      PROVE  (~\E g \in Goroutines : KeyOf(g) = k /\ job[g].pc = "startDelete"
                                     /\ inProgress[k].by = g)
             <=> (\A g \in Goroutines : KeyOf(g) = k => job[g].pc # "startDelete")
  BY <1>3
<1>5. ASSUME NEW p \in Goroutines \X Keys
      PROVE  (KeyOf(p[1]) = p[2] /\ Owner(p[1]) /\ inProgress[p[2]].by = p[1])
             <=> (KeyOf(p[1]) = p[2] /\ Owner(p[1]))
  BY <1>2
<1> QED
  BY <1>4, <1>5 DEF Mapped, Waiting, Held, Owned

LEMMA MappingNext == Unbreached' => Mapped'
BY Mapping, PTL

\* A step of the bucket, as a step of the abstract queue.
LEMMA Stutters ==
  ASSUME Unbreached, Unbreached', UNCHANGED <<Waiting, Held, Owned>>
  PROVE  UNCHANGED Promise!vars
  BY Mapping, MappingNext DEF Mapped, Promise!vars

LEMMA Queues ==
  ASSUME Unbreached, Unbreached', NEW k \in Keys, Waiting' = Waiting \union {k}, UNCHANGED <<Held, Owned>>
  PROVE  Promise!Queue(k)
  BY Mapping, MappingNext DEF Mapped, Promise!Queue

LEMMA Abstract ==
  ASSUME Unbreached, Unbreached', NEW k \in Keys, NEW g \in Goroutines
  PROVE  /\ k \in Waiting /\ k \notin Held /\ Waiting' = Waiting \ {k}
            /\ Held' = Held \union {k} /\ Owned' = Owned \union {<<g, k>>} => Promise!Start(k, g)
         /\ <<g, k>> \in Owned /\ Held' = Held \ {k} /\ Owned' = Owned \ {<<g, k>>}
            /\ Waiting' = Waiting => Promise!Finish(k, g)
         /\ k \in Held /\ (\A i \in Goroutines : <<i, k>> \notin Owned) /\ Held' = Held \ {k}
            /\ Waiting' = Waiting \union {k} /\ Owned' = Owned \ {<<g, k>>} => Promise!Requeue(k, g)
         /\ <<g, k>> \in Owned /\ Owned' = Owned \ {<<g, k>>} /\ Held' = Held
            /\ Waiting' \in {Waiting, Waiting \union {k}} => Promise!Abandon(k, g)
BY Mapping, MappingNext
DEF Mapped, Promise!Start, Promise!Finish, Promise!Requeue, Promise!Orphaned, Promise!Abandon

\* Who begins or ceases to own its key.
LEMMA OwnedGains ==
  ASSUME NEW g \in Goroutines, \A i \in Goroutines : Owner(i)' <=> Owner(i) \/ i = g
  PROVE  Owned' = Owned \union {<<g, KeyOf(g)>>}
<1>1. \A i \in Goroutines, k \in Keys :
        <<i, k>> \in Owned' <=> <<i, k>> \in Owned \/ (i = g /\ k = KeyOf(g))
  BY DEF Owned
<1>2. Owned \subseteq Goroutines \X Keys /\ Owned' \subseteq Goroutines \X Keys
  BY DEF Owned
<1>3. <<g, KeyOf(g)>> \in Goroutines \X Keys
  BY GoroutineParts
<1> QED
  BY <1>1, <1>2, <1>3

LEMMA OwnedLoses ==
  ASSUME NEW g \in Goroutines, \A i \in Goroutines : Owner(i)' <=> Owner(i) /\ i # g
  PROVE  Owned' = Owned \ {<<g, KeyOf(g)>>} /\ (Owner(g) => <<g, KeyOf(g)>> \in Owned)
<1>1. \A i \in Goroutines, k \in Keys :
        <<i, k>> \in Owned' <=> <<i, k>> \in Owned /\ ~(i = g /\ k = KeyOf(g))
  BY DEF Owned
<1>2. Owned \subseteq Goroutines \X Keys /\ Owned' \subseteq Goroutines \X Keys
  BY DEF Owned
<1>3. <<g, KeyOf(g)>> \in Goroutines \X Keys
  BY GoroutineParts
<1>4. Owner(g) => <<g, KeyOf(g)>> \in Owned
  BY <1>3 DEF Owned
<1> QED
  BY <1>1, <1>2, <1>3, <1>4

\* A step that creates no object, deletes none and makes nobody an owner.
LEMMA SameView ==
  ASSUME Unbreached, Unbreached',
         \A k \in Keys : queued'[k].exists = queued[k].exists,
         \A k \in Keys : (inProgress'[k].gen > 0) = (inProgress[k].gen > 0),
         \A g \in Goroutines : (job'[g].pc = "startDelete") = (job[g].pc = "startDelete"),
         \A g \in Goroutines : Owner(g)' = Owner(g)
  PROVE  UNCHANGED Promise!vars
<1>1. Waiting' = Waiting
  BY DEF Waiting
<1>2. Held' = Held
  BY DEF Held
<1>3. Owned' = Owned
  BY DEF Owned
<1> QED
  BY <1>1, <1>2, <1>3, Stutters

\* A queued object is created: unless an owner is about to delete it, that is
\* Queue, also when it is done by a requeue.
LEMMA QueueView ==
  ASSUME Unbreached, Unbreached', NEW k \in Keys,
         \A n \in Keys : queued'[n].exists = (n = k \/ queued[n].exists),
         inProgress' = inProgress,
         \A i \in Goroutines : (job'[i].pc = "startDelete") = (job[i].pc = "startDelete"),
         \A i \in Goroutines : Owner(i)' = Owner(i)
  PROVE  Promise!Queue(k) \/ UNCHANGED Promise!vars
<1>1. Held' = Held
  BY DEF Held
<1>2. Owned' = Owned
  BY DEF Owned
<1>3. CASE \A i \in Goroutines : KeyOf(i) = k => job[i].pc # "startDelete"
  <2>1. Waiting' = Waiting \union {k}
    BY <1>3 DEF Waiting
  <2> QED
    BY <1>1, <1>2, <2>1, Queues
<1>4. CASE \E i \in Goroutines : KeyOf(i) = k /\ job[i].pc = "startDelete"
  <2>1. Waiting' = Waiting
    BY <1>4 DEF Waiting
  <2> QED
    BY <1>1, <1>2, <2>1, Stutters
<1> QED
  BY <1>3, <1>4

\* The owner is gone, and its object stays: an abandoned key.
LEMMA AbandonView ==
  ASSUME Unbreached, Unbreached', NEW g \in Goroutines, Owner(g), job'[g].pc = "idle",
         UNCHANGED <<queued, inProgress>>, \A i \in Goroutines : i # g => job'[i] = job[i]
  PROVE  Promise!Abandon(KeyOf(g), g)
<1> DEFINE k == KeyOf(g)
<1>1. k \in Keys /\ \A i \in Goroutines : Owner(i)' <=> Owner(i) /\ i # g
  BY GoroutineParts DEF Owner
<1>2. Held' = Held
  BY DEF Held
<1>3. <<g, k>> \in Owned /\ Owned' = Owned \ {<<g, k>>}
  BY <1>1, OwnedLoses
<1>4. \A i \in Goroutines : i # g /\ KeyOf(i) = k => job[i].pc # "startDelete"
  BY OwnerIsUnique, GoroutineParts DEF Unbreached, OwnInv, Sound, OrphansArePassed, Owner
<1>5. Waiting' \in {Waiting, Waiting \union {k}}
  <2>1. CASE queued[k].exists
    <3>1. \A n \in Keys \ {k} : n \in Waiting' <=> n \in Waiting
      BY DEF Waiting
    <3>2. k \in Waiting'
      BY <1>1, <1>4, <2>1 DEF Waiting
    <3>3. Waiting \subseteq Keys /\ Waiting' \subseteq Keys
      BY DEF Waiting
    <3> QED
      BY <1>1, <3>1, <3>2, <3>3
  <2>2. CASE ~queued[k].exists
    <3>1. \A n \in Keys : n \in Waiting' <=> n \in Waiting
      BY <2>2 DEF Waiting
    <3>2. Waiting \subseteq Keys /\ Waiting' \subseteq Keys
      BY DEF Waiting
    <3> QED
      BY <3>1, <3>2
  <2> QED
    BY <2>1, <2>2
<1> QED
  BY <1>1, <1>2, <1>3, <1>5, Abstract

\* A goroutine goes from one call to the next: nobody sees it.
LEMMA MoveView ==
  ASSUME Unbreached, Unbreached', NEW g \in Goroutines,
         job[g].pc \notin {"idle", "startCopy", "startDelete"},
         job'[g].pc \notin {"idle", "startCopy", "startDelete"},
         \A i \in Goroutines : i # g => job'[i] = job[i],
         \A k \in Keys : (inProgress'[k].gen > 0) = (inProgress[k].gen > 0),
         \A k \in Keys : queued'[k].exists = queued[k].exists
  PROVE  UNCHANGED Promise!vars
<1>1. /\ \A i \in Goroutines : (job'[i].pc = "startDelete") = (job[i].pc = "startDelete")
      /\ \A i \in Goroutines : Owner(i)' = Owner(i)
  BY DEF Owner
<1> QED
  BY <1>1, SameView

LEMMA StartView ==
  ASSUME TypeOK, Unbreached, Unbreached', NEW g \in Goroutines, StartCopy(g)
  PROVE  Promise!Start(KeyOf(g), g) \/ UNCHANGED Promise!vars
<1> DEFINE k == KeyOf(g)
<1>1. k \in Keys /\ g[3] = "start" /\ job[g].pc = "startCopy" /\ queued' = queued
  BY GoroutineParts DEF StartCopy, Unbreached, OwnInv, OrphansArePassed
<1>2. CASE Done(g) /\ UNCHANGED inProgress
  <2>1. /\ \A i \in Goroutines : (job'[i].pc = "startDelete") = (job[i].pc = "startDelete")
        /\ \A i \in Goroutines : Owner(i)' = Owner(i)
    BY <1>1, <1>2, DoneMoves DEF Owner
  <2> QED
    BY <1>1, <1>2, <2>1, SameView
<1>3. ASSUME queued[k].exists, inProgress[k].gen = 0,
             inProgress' = [inProgress EXCEPT ![k] = Made(g)],
             job' = [job EXCEPT ![g] = Started(@)]
      PROVE  Promise!Start(k, g)
  <2>1. (\A i \in Goroutines : i # g => job'[i] = job[i]) /\ job'[g].pc = "startDelete"
    BY <1>3 DEF TypeOK, Started, Jobs
  <2>2. \A i \in Goroutines : KeyOf(i) = k => ~Owner(i)
    BY <1>3 DEF Unbreached, OwnInv, Sound, OwnersHold
  <2>3. \A i \in Goroutines : KeyOf(i) = k => job[i].pc # "startDelete"
    BY <2>2, GoroutineParts DEF Unbreached, OwnInv, OrphansArePassed, Owner
  <2>4. k \in Waiting /\ Waiting' = Waiting \ {k}
    BY <1>1, <1>3, <2>1, <2>3 DEF Waiting
  <2>5. k \notin Held /\ Held' = Held \union {k}
    <3>1. \A n \in Keys : (inProgress'[n].gen > 0) = (n = k \/ inProgress[n].gen > 0)
      BY <1>1, <1>3 DEF Made, TypeOK
    <3> QED
      BY <1>1, <1>3, <3>1 DEF Held
  <2>6. \A i \in Goroutines : Owner(i)' <=> Owner(i) \/ i = g
    BY <1>1, <2>1 DEF Owner
  <2>7. Owned' = Owned \union {<<g, k>>}
    BY <2>6, OwnedGains
  <2> QED
    BY <1>1, <2>4, <2>5, <2>7, Abstract
<1> QED
  BY <1>2, <1>3 DEF StartCopy

LEMMA DeleteView ==
  ASSUME TypeOK, Unbreached, Unbreached', MovesAreWhole, NEW g \in Goroutines, DeleteOwn(g),
         UNCHANGED scan
  PROVE  Promise!Finish(KeyOf(g), g) \/ Promise!Requeue(KeyOf(g), g)
<1> DEFINE k == KeyOf(g)
<1>1. /\ k \in Keys /\ job[g].pc = "delete" /\ queued' = queued
      /\ \A i \in Goroutines : i # g => job'[i] = job[i]
      /\ job'[g].pc = "idle"
  BY GoroutineParts, DoneMoves DEF DeleteOwn
<1>2. \A n \in Keys : inProgress'[n] = IF n = k THEN NoInProgress ELSE inProgress[n]
  BY <1>1 DEF DeleteOwn, DeleteInProgress, TypeOK
<1>3. Held' = Held \ {k}
  BY <1>2 DEF Held, NoInProgress
<1>4. \A i \in Goroutines : Owner(i)' <=> Owner(i) /\ i # g
  BY <1>1 DEF Owner
<1>5. Owned' = Owned \ {<<g, k>>}
  BY <1>4, OwnedLoses
<1>6. Waiting' = Waiting
  BY <1>1 DEF Waiting
<1>7. CASE g[3] = "start"
  <2>1. <<g, k>> \in Owned
    BY <1>1, <1>7 DEF Owned, Owner
  <2> QED
    BY <1>1, <1>3, <1>5, <1>6, <2>1, Abstract
<1>8. CASE g[3] = "orphan"
  <2>1. Free(k)
    BY <1>1, <1>8 DEF Unbreached, OwnInv, Sound, OrphansAreFree
  <2>2. k \in Held /\ \A i \in Goroutines : <<i, k>> \notin Owned
    BY <1>1, <2>1 DEF Free, Held, Owned
  <2>3. \A i \in Goroutines : KeyOf(i) = k => job[i].pc # "startDelete"
    BY <2>1, GoroutineParts DEF Free, Unbreached, OwnInv, OrphansArePassed, Owner
  <2>4. k \in Waiting
    BY <1>1, <1>8, <2>3 DEF Waiting, MovesAreWhole, Unbreached, Sound
  <2> QED
    BY <1>1, <1>3, <1>5, <1>6, <2>2, <2>4, Abstract
<1> QED
  BY <1>7, <1>8, GoroutineParts

LEMMA BeginView ==
  ASSUME TypeOK, Unbreached, Unbreached', NEW g \in Goroutines, Begin(g)
  PROVE  Promise!Abandon(KeyOf(g), g) \/ UNCHANGED Promise!vars
<1> DEFINE k == KeyOf(g)
<1>1. /\ k \in Keys /\ job[g].pc = "startDelete" /\ g[3] = "start" /\ Owner(g)
      /\ inProgress' = inProgress /\ queued' = [queued EXCEPT ![k] = NoQueued]
  BY GoroutineParts DEF Begin, StartDelete, Unbreached, OwnInv, OrphansArePassed, Owner
<1>2. CASE queued[k].exists
  <2>1. job' = [job EXCEPT ![g] = [job[g] EXCEPT !.pc = "running", !.live = TRUE]]
    BY <1>1, <1>2 DEF Begin, StartDelete, TypeOK
  <2>2. (\A i \in Goroutines : i # g => job'[i] = job[i]) /\ job'[g].pc = "running"
    BY <2>1 DEF TypeOK, Jobs
  <2>3. \A i \in Goroutines : Owner(i)' = Owner(i)
    BY <1>1, <2>2 DEF Owner
  <2>4. Held' = Held /\ Owned' = Owned
    BY <1>1, <2>3 DEF Held, Owned
  <2>5. \A n \in Keys : n # k => queued'[n] = queued[n]
    BY <1>1 DEF TypeOK
  <2>6. k \notin Waiting /\ k \notin Waiting'
    BY <1>1 DEF Waiting, NoQueued, TypeOK
  <2>7. \A n \in Keys : n # k => (n \in Waiting' <=> n \in Waiting)
    BY <2>2, <2>5 DEF Waiting
  <2>8. Waiting' = Waiting
    BY <2>6, <2>7 DEF Waiting
  <2> QED
    BY <2>4, <2>8, Stutters
<1>3. CASE ~queued[k].exists
  <2>1. Done(g)
    BY <1>3 DEF Begin, StartDelete
  <2>2. \A n \in Keys : queued'[n].exists = queued[n].exists
    <3>1. queued[k].exists \in BOOLEAN
      BY <1>1 DEF TypeOK, QueuedObjects
    <3>2. queued'[k].exists = FALSE /\ \A n \in Keys : n # k => queued'[n] = queued[n]
      BY <1>1 DEF TypeOK, NoQueued
    <3> QED
      BY <1>3, <3>1, <3>2
  <2>3. \A i \in Goroutines : Owner(i)' <=> Owner(i) /\ i # g
    BY <1>1, <2>1, DoneMoves DEF Owner
  <2>4. Held' = Held
    BY <1>1 DEF Held
  <2>5. <<g, k>> \in Owned /\ Owned' = Owned \ {<<g, k>>}
    BY <1>1, <2>3, OwnedLoses
  <2>6. \A n \in Keys : n \in Waiting' <=> n \in Waiting
    BY <1>3, <2>1, <2>2, DoneMoves DEF Waiting
  <2>7. Waiting' = Waiting
    BY <2>6 DEF Waiting
  <2> QED
    BY <1>1, <2>4, <2>5, <2>7, Abstract
<1> QED
  BY <1>2, <1>3

\* The calls of a goroutine between those that move its key.
LEMMA WorkView ==
  ASSUME TypeOK, Unbreached, Unbreached', MovesAreWhole, NEW g \in Goroutines, Work(g)
  PROVE  [Promise!Next]_(Promise!vars)
<1> DEFINE k == KeyOf(g)
<1>0. k \in Keys /\ scan' = scan /\ job[g].merge \in Metas
  BY GoroutineParts DEF Work, TypeOK, Jobs
<1>1. CASE StartCopy(g)
  BY <1>0, <1>1, StartView DEF Promise!Next
<1>2. CASE DeleteOwn(g)
  BY <1>0, <1>2, DeleteView DEF Promise!Next
<1>3. CASE CompleteDeadLetter(g) \/ DeadletterCopy(g)
  <2>1. job[g].pc \in {"complete", "deadletter"} /\ UNCHANGED <<queued, inProgress>>
    BY <1>3 DEF CompleteDeadLetter, DeadletterCopy
  <2>2. Owner(g)
    BY <2>1, GoroutineParts DEF Unbreached, OwnInv, OrphansArePassed, Owner
  <2>3. inProgress[k].gen # 0
    BY <2>2 DEF Unbreached, OwnInv, Sound, OwnersHold
  <2>4. Step(g, "delete")
    BY <1>3, <2>3 DEF CompleteDeadLetter, DeadletterCopy
  <2> QED
    BY <2>1, <2>4, StepMoves, MoveView
<1>4. ASSUME job[g].pc \in {"requeue", "requeueRead", "requeueWrite"}, inProgress' = inProgress,
             \A i \in Goroutines : i # g => job'[i] = job[i],
             job'[g].pc \in {"requeue", "requeueRead", "requeueWrite", "delete"},
             \/ \A n \in Keys : queued'[n].exists = queued[n].exists
             \/ \A n \in Keys : queued'[n].exists = (n = k \/ queued[n].exists)
      PROVE  [Promise!Next]_(Promise!vars)
  <2>1. CASE \A n \in Keys : queued'[n].exists = queued[n].exists
    BY <1>4, <2>1, MoveView
  <2>2. CASE \A n \in Keys : queued'[n].exists = (n = k \/ queued[n].exists)
    <3>1. /\ \A i \in Goroutines : (job'[i].pc = "startDelete") = (job[i].pc = "startDelete")
          /\ \A i \in Goroutines : Owner(i)' = Owner(i)
      BY <1>4 DEF Owner
    <3>2. Promise!Queue(k) \/ UNCHANGED Promise!vars
      BY <1>0, <1>4, <2>2, <3>1, QueueView
    <3> QED
      BY <1>0, <3>2 DEF Promise!Next
  <2> QED
    BY <1>4, <2>1, <2>2
<1>5. CASE RequeueCopy(g)
  <2>1. job[g].pc = "requeue" /\ inProgress' = inProgress
    BY <1>5 DEF RequeueCopy
  <2>2. inProgress[k].gen # 0
    BY <2>1, GoroutineParts DEF Unbreached, OwnInv, Sound, OwnersHold, OrphansAreFree, Free, Owner
  <2>3. ASSUME NEW meta, queued' = [queued EXCEPT ![k] = QueuedObject(meta)], Step(g, "delete")
        PROVE  [Promise!Next]_(Promise!vars)
    <3>1. \A n \in Keys : queued'[n].exists = (n = k \/ queued[n].exists)
      <4>1. \A n \in Keys : queued[n].exists \in BOOLEAN
        BY DEF TypeOK, QueuedObjects
      <4> QED
        BY <1>0, <2>3, <4>1 DEF TypeOK, QueuedObject
    <3> QED
      BY <1>4, <2>1, <2>3, <3>1, StepMoves
  <2>4. CASE queued' = queued /\ Step(g, "delete")
    BY <1>4, <2>1, <2>4, StepMoves
  <2>5. ASSUME NEW wait, queued' = queued,
               job' = [job EXCEPT ![g].pc = "requeueRead", ![g].wait = wait]
        PROVE  [Promise!Next]_(Promise!vars)
    <3>1. (\A i \in Goroutines : i # g => job'[i] = job[i]) /\ job'[g].pc = "requeueRead"
      BY <2>5 DEF TypeOK, Jobs
    <3> QED
      BY <1>4, <2>1, <2>5, <3>1
  <2> QED
    BY <1>5, <2>2, <2>3, <2>4, <2>5 DEF RequeueCopy
<1>6. CASE RequeueRead(g)
  <2>1. job[g].pc = "requeueRead" /\ inProgress' = inProgress /\ queued' = queued
    BY <1>6 DEF RequeueRead, bucket
  <2>2. CASE Step(g, "requeue") \/ Step(g, "delete")
    BY <1>4, <2>1, <2>2, StepMoves
  <2>3. ASSUME NEW merge, job' = [job EXCEPT ![g].pc = "requeueWrite", ![g].merge = merge]
        PROVE  [Promise!Next]_(Promise!vars)
    <3>1. (\A i \in Goroutines : i # g => job'[i] = job[i]) /\ job'[g].pc = "requeueWrite"
      BY <2>3 DEF TypeOK, Jobs
    <3> QED
      BY <1>4, <2>1, <3>1
  <2> QED
    BY <1>6, <2>2, <2>3 DEF RequeueRead
<1>7. CASE RequeueWrite(g)
  <2>1. job[g].pc = "requeueWrite" /\ inProgress' = inProgress
    BY <1>7 DEF RequeueWrite
  <2>2. Patched(queued[k], job[g].merge).exists = queued[k].exists
    BY <1>0, PatchedType DEF TypeOK
  <2>3. \A n \in Keys : queued'[n].exists = queued[n].exists
    BY <1>0, <1>7, <2>2 DEF RequeueWrite, TypeOK
  <2> QED
    BY <1>4, <1>7, <2>1, <2>3, StepMoves DEF RequeueWrite
<1> QED
  BY <1>1, <1>2, <1>3, <1>5, <1>6, <1>7 DEF Work

\* Every step of the bucket is a step of the abstract queue, or none.
LEMMA NextView ==
  ASSUME TypeOK, Unbreached, Unbreached', MovesAreWhole, [Next]_vars
  PROVE  [Promise!Next]_(Promise!vars)
<1>1. CASE UNCHANGED <<queued, inProgress, job>>
  BY <1>1, SameView DEF Owner
<1>2. ASSUME NEW c \in Callers, NEW k \in Keys, NEW prio \in Priorities, NEW wait \in Waits,
             Enqueue(c, k, prio, wait)
      PROVE  [Promise!Next]_(Promise!vars)
  BY <1>1, <1>2 DEF Enqueue, QueueCall, bucket
<1>3. ASSUME NEW c \in Callers, CallCreates(c) PROVE [Promise!Next]_(Promise!vars)
  <2>0. caller[c].key \in Keys
    BY <1>3 DEF TypeOK, Calls
  <2> PICK k \in Keys : k = caller[c].key
    BY <2>0
  <2>1. UNCHANGED <<inProgress, job>>
    BY <1>3 DEF CallCreates, QueueCreate
  <2>2. CASE queued' = queued
    BY <1>1, <2>1, <2>2
  <2>3. ASSUME NEW meta, queued' = [queued EXCEPT ![k] = QueuedObject(meta)]
        PROVE  [Promise!Next]_(Promise!vars)
    <3>1. \A n \in Keys : queued'[n].exists = (n = k \/ queued[n].exists)
      <4>1. \A n \in Keys : queued[n].exists \in BOOLEAN
        BY DEF TypeOK, QueuedObjects
      <4> QED
        BY <2>1, <2>3, <4>1 DEF TypeOK, QueuedObject
    <3>2. Promise!Queue(k) \/ UNCHANGED Promise!vars
      BY <2>1, <3>1, QueueView DEF Owner
    <3> QED
      BY <2>1, <3>2 DEF Promise!Next
  <2> QED
    BY <1>3, <2>2, <2>3 DEF CallCreates, QueueCreate
<1>4. ASSUME NEW c \in Callers, CallMerges(c) PROVE [Promise!Next]_(Promise!vars)
  <2>1. UNCHANGED <<inProgress, job>> /\ caller[c].key \in Keys /\ caller[c].merge \in Metas
    BY <1>4 DEF CallMerges, QueueRead, QueueWrite, bucket, TypeOK, Calls
  <2>2. Patched(queued[caller[c].key], caller[c].merge).exists = queued[caller[c].key].exists
    BY <2>1, PatchedType DEF TypeOK
  <2>3. \A n \in Keys : queued'[n].exists = queued[n].exists
    BY <1>4, <2>1, <2>2 DEF CallMerges, QueueRead, QueueWrite, TypeOK, bucket
  <2> QED
    BY <2>1, <2>3, SameView DEF Owner
<1>5. ASSUME NEW c \in Callers, CallFails(c) PROVE [Promise!Next]_(Promise!vars)
  BY <1>1, <1>5 DEF CallFails, bucket
<1>6. ASSUME NEW h \in Rounds, ListInProgress(h) PROVE [Promise!Next]_(Promise!vars)
  BY <1>1, <1>6 DEF ListInProgress, gcsVars
<1>7. ASSUME NEW h \in Rounds, Launch(h) PROVE [Promise!Next]_(Promise!vars)
  <2>1. UNCHANGED <<queued, inProgress>> /\ scan[h].on
    BY <1>7 DEF Launch, bucket
  <2>2. PICK L : job' = [g \in Goroutines |->
                 IF g[1] # h THEN job[g]
                 ELSE IF g[3] = "start" /\ KeyOf(g) \in L THEN StartJob(KeyOf(g))
                 ELSE IF g[3] = "orphan" /\ KeyOf(g) \in Orphans(h) THEN OrphanJob(h, KeyOf(g))
                 ELSE NoJob]
    BY <1>7 DEF Launch
  <2>3. \A g \in Goroutines : job'[g] = job[g]
          \/ (g[1] = h /\ job'[g].pc \in {"idle", "startCopy", "requeue"})
    BY <2>2 DEF NoJob, StartJob, OrphanJob
  <2>4. \A g \in Goroutines : g[1] = h => job[g].pc = "idle"
    BY <2>1 DEF Unbreached, OwnInv, ListsFirst, Of
  <2>5. \A g \in Goroutines : (job'[g].pc = "startDelete") = (job[g].pc = "startDelete")
    BY <2>3, <2>4
  <2>6. \A g \in Goroutines : Owner(g)' = Owner(g)
    BY <1>7, LaunchOwns DEF Unbreached, Owner
  <2> QED
    BY <2>1, <2>5, <2>6, SameView
<1>8. ASSUME NEW g \in Goroutines, Work(g) PROVE [Promise!Next]_(Promise!vars)
  BY <1>8, WorkView
<1>9. ASSUME NEW g \in Goroutines, Begin(g) PROVE [Promise!Next]_(Promise!vars)
  BY <1>9, BeginView, GoroutineParts DEF Promise!Next
<1>10. ASSUME NEW g \in Goroutines, NEW r \in Results, Finish(g, r)
       PROVE  [Promise!Next]_(Promise!vars)
  BY <1>10, FinishMoves, MoveView DEF Finish, bucket
<1>11. ASSUME NEW g \in Goroutines, Heartbeat(g) PROVE [Promise!Next]_(Promise!vars)
  <2>1. CASE Beat(g)
    <3>1. queued' = queued /\ \A i \in Goroutines : job'[i].pc = job[i].pc
      BY <2>1 DEF Beat, Renewed, TypeOK, Jobs
    <3>2. inProgress[KeyOf(g)].gen > 0
      BY <2>1, GoroutineParts DEF Beat, Unbreached, OwnInv, Sound, OrphansArePassed, OwnersHold, Owner
    <3>3. \A k \in Keys : (inProgress'[k].gen > 0) = (inProgress[k].gen > 0)
      BY <2>1, <3>2, GoroutineParts DEF Beat, TypeOK, InProgressObjects
    <3> QED
      BY <3>1, <3>3, SameView DEF Owner
  <2>2. CASE BeatFails(g)
    <3>1. UNCHANGED <<queued, inProgress>> /\ \A i \in Goroutines : job'[i].pc = job[i].pc
      BY <2>2 DEF BeatFails, TypeOK, Jobs, bucket
    <3> QED
      BY <3>1, SameView DEF Owner
  <2> QED
    BY <1>11, <2>1, <2>2 DEF Heartbeat
<1>12. ASSUME NEW g \in Goroutines, Abort(g) PROVE [Promise!Next]_(Promise!vars)
  <2>1. UNCHANGED <<queued, inProgress>> /\ Done(g)
    BY <1>12 DEF Abort, bucket
  <2>2. CASE Owner(g)
    BY <2>1, <2>2, DoneMoves, AbandonView, GoroutineParts DEF Promise!Next
  <2>3. CASE ~Owner(g)
    <3>1. /\ \A i \in Goroutines : Owner(i)' = Owner(i)
          /\ \A i \in Goroutines : (job'[i].pc = "startDelete") = (job[i].pc = "startDelete")
      BY <2>1, <2>3, DoneMoves, GoroutineParts DEF Owner, Unbreached, OwnInv, OrphansArePassed
    <3> QED
      BY <2>1, <3>1, SameView
  <2> QED
    BY <2>2, <2>3
<1>13. CASE Tick
  BY <1>13, TickMoves, SameView DEF Owner
<1>14. CASE UNCHANGED vars
  BY <1>1, <1>14 DEF vars, gcsVars
<1> QED
  BY <1>2, <1>3, <1>4, <1>5, <1>6, <1>7, <1>8, <1>9, <1>10, <1>11, <1>12, <1>13, <1>14 DEF Next, Go

-----------------------------------------------------------------------------
(* The invariants hold together. *)

AllInv == IInv /\ OwnInv /\ RetryInv

LEMMA AllInvHolds == Spec => []AllInv
<1>1. Init => AllInv
  <2> SUFFICES ASSUME Init PROVE AllInv
    OBVIOUS
  <2>1. RetryInv
    BY DEF Init, GcsInit, NoJob, RetryInv, MovesAreWhole, RetryWorkKept
  <2> QED
    BY <2>1, InitIInv, InitOwns DEF AllInv
<1>2. AllInv /\ [Next]_vars => AllInv'
  BY NextIInv, NextOwns, NextRetries DEF AllInv, IInv
<1> QED
  BY <1>1, <1>2, PTL DEF Spec

\* interface.go 91: while a callback runs, the object of its key is the one its
\* Start made, and the metageneration is the one its heartbeat expects, with
\* any keys, rounds, receivers and leases, stalled owners and overlapping
\* recoveries: but for the keys that those breached.
THEOREM OwnershipIsKept == Spec => []OwnedUntilDone
<1>1. AllInv => OwnedUntilDone
  BY GoroutineParts
  DEF AllInv, OwnInv, OrphansArePassed, OwnersHold, OwnedUntilDone, Owner, Sound
<1> QED
  BY <1>1, AllInvHolds, PTL

\* A key whose callback asked for another try, or was cut off, has an object a
\* round will start it from, wherever goroutines stop, unless it was breached.
THEOREM RetriesAreKept == Spec => []RetryWorkKept
<1>1. AllInv => RetryWorkKept
  BY DEF AllInv, RetryInv
<1> QED
  BY <1>1, AllInvHolds, PTL

\* Timely and SerialRecovery are what keeps every key from being breached.
LEMMA NothingBreached ==
  ASSUME Timely, SerialRecovery
  PROVE  Spec => [](breached = {})
<1>1. Init => breached = {}
  BY DEF Init
<1>2. breached = {} /\ [Next]_vars => (breached = {})'
  <2> SUFFICES ASSUME breached = {}, [Next]_vars PROVE breached' = {}
    OBVIOUS
  <2>1. CASE UNCHANGED breached
    BY <2>1
  <2>2. ASSUME NEW h \in Rounds, ListInProgress(h) PROVE breached' = {}
    BY <2>2 DEF ListInProgress
  <2>3. CASE Tick
    BY <2>3 DEF Tick
  <2> QED
    BY <2>1, <2>2, <2>3 DEF Next, Enqueue, CallCreates, CallMerges, CallFails, Launch, Go, Work,
       Begin, Finish, Heartbeat, Abort, history, vars
<1> QED
  BY <1>1, <1>2, PTL DEF Spec

\* The bucket under the dispatchers implements the promise of interface.go:
\* StartCopy is Start, the delete that ends a goroutine is Finish or Requeue,
\* one that stops is Abandon, and what creates a queued object is Queue.
THEOREM GcsImplementsWorkQueue ==
  ASSUME Timely, SerialRecovery
  PROVE  Spec => ImplementsWorkQueue
<1>1. Init => Promise!Init
  BY DEF Init, GcsInit, NoQueued, NoInProgress, NoJob, Owner, Promise!Init
<1>2. /\ AllInv /\ breached = {} /\ AllInv' /\ (breached = {})' /\ [Next]_vars
      => [Promise!Next]_(Promise!vars)
  BY NextView DEF AllInv, IInv, RetryInv, Unbreached
<1> QED
  BY <1>1, <1>2, AllInvHolds, NothingBreached, PTL DEF Spec, ImplementsWorkQueue, Promise!Spec
=============================================================================
