------------------------------ MODULE GcsQueue ------------------------------
(***************************************************************************)
(* The workqueue kept in a bucket, pkg/workqueue/gcs/gcs.go.  A key is an  *)
(* empty object whose name says its state (queued/, in-progress/,          *)
(* dead-letter/) and whose metadata says the rest.  No lock spans two      *)
(* calls to the bucket, so every remote call is a step of its own, and     *)
(* what a goroutine read before one is what it writes after it.            *)
(*                                                                         *)
(* This module holds the bucket, the calls of the receiver's Queue and     *)
(* those of a goroutine that owns or recovers a key: Start, the heartbeat, *)
(* Complete, Deadletter and RequeueWithOptions.  GcsDispatch adds who      *)
(* calls them when.                                                        *)
(*                                                                         *)
(* Times are kept as what is left of them (wait until NotBefore, lease     *)
(* until it expires).  A priority is kept as the rank of its text in the   *)
(* lexicographic order updateMetadata compares by: v for the zero-padded   *)
(* text of v, Unpadded + v for the text without padding (v below 10).      *)
(***************************************************************************)
EXTENDS Naturals, FiniteSets

CONSTANTS
  Keys,
  Callers,         \* receiver requests in flight
  Rounds,          \* rounds of the dispatcher that may overlap
  BackoffPeriod, MaximumBackoff, RequeueDelay,
  Lease,           \* 3 * RefreshInterval, a tick being one RefreshInterval
  MaxMeta,         \* bound: a callback ends before this many heartbeats
  MaxAttempts      \* bound: attempts are counted up to here

\* A round has two goroutines for a key at most: one that starts it, and one
\* that requeues it when it was orphaned.
Goroutines == Rounds \X Keys \X {"start", "orphan"}
KeyOf(g) == g[2]
Nobody == <<>>

Unpadded == 100

ASSUME GcsAssumption ==
  /\ Keys # {}
  /\ BackoffPeriod \in Nat /\ MaximumBackoff \in Nat
  /\ RequeueDelay \in Nat \ {0}
  /\ Lease \in Nat \ {0} /\ MaxMeta \in Nat \ {0}
  /\ MaxAttempts \in Nat \ {0}
  /\ MaxAttempts * BackoffPeriod >= MaximumBackoff

VARIABLES
  queued,      \* queued[k]: the object queued/k
  inProgress,  \* inProgress[k]: the object in-progress/k
  deadLetter,  \* deadLetter[k]: whether dead-letter/k exists
  caller,      \* caller[c]: a call of Queue in flight
  job          \* job[g]: what goroutine g does with its key

bucket == <<queued, inProgress, deadLetter>>
gcsVars == <<queued, inProgress, deadLetter, caller, job>>

Smaller(a, b) == IF a < b THEN a ELSE b
Larger(a, b) == IF a < b THEN b ELSE a

\* Mistake: the text is taken for the number.
ParsedRaw(text) == text

\* ParseInt of a priority text, and its text without padding.
Parsed(text) == IF text >= Unpadded THEN text - Unpadded ELSE text
Bare(priority) == Unpadded + priority

\* Metadata of a queued object: attempts 0 when it has no attempts entry.
Meta(prio, wait, attempts) == [prio |-> prio, wait |-> wait, attempts |-> attempts]
NoMeta == Meta(0, 0, 0)

NoQueued == [exists |-> FALSE, meta |-> NoMeta]
QueuedObject(meta) == [exists |-> TRUE, meta |-> meta]

\* gen is the metageneration, 0 when there is no object.  by, auxiliary, is
\* the goroutine whose Start created the object.
NoInProgress == [gen |-> 0, prio |-> 0, attempts |-> 0, lease |-> 0, by |-> Nobody]

\* plain says that the call gave neither a priority nor a NotBefore.
NoCall == [pc |-> "idle", key |-> CHOOSE k \in Keys : TRUE, prio |-> 0, wait |-> 0,
           plain |-> TRUE, merge |-> NoMeta]

\* prio and attempts are the cached metadata, priority the parsed one of the
\* enumeration, gen the cached metageneration, live the owner's context.
NoJob == [pc |-> "idle", prio |-> 0, priority |-> 0, attempts |-> 0, gen |-> 0,
          lease |-> 0, live |-> FALSE, delay |-> 0, wait |-> 0, merge |-> NoMeta]

GcsInit ==
  /\ queued = [k \in Keys |-> NoQueued]
  /\ inProgress = [k \in Keys |-> NoInProgress]
  /\ deadLetter = [k \in Keys |-> FALSE]
  /\ caller = [c \in Callers |-> NoCall]
  /\ job = [g \in Goroutines |-> NoJob]

-----------------------------------------------------------------------------
(* updateMetadata *)

\* Mistake: the last caller's priority and NotBefore win.
MergedOver(old, prio, wait) == [old EXCEPT !.prio = prio, !.wait = wait]

\* The metadata to write back after Attrs returned "old".
Merged(old, prio, wait) ==
  [old EXCEPT !.prio = Larger(@, prio), !.wait = Larger(@, wait)]

\* Update sends the whole map it read: it patches every entry of it.
Patched(obj, merge) ==
  [obj EXCEPT !.meta = [merge EXCEPT !.attempts =
      IF merge.attempts = 0 THEN obj.meta.attempts ELSE @]]

-----------------------------------------------------------------------------
(* Queue, for the call c of a receiver. *)

QueueCall(c, k, prio, wait) ==
  /\ caller[c].pc = "idle"
  /\ caller' = [caller EXCEPT ![c] =
       [pc |-> "create", key |-> k, prio |-> prio, wait |-> wait,
        plain |-> (prio = 0 /\ wait = 0), merge |-> NoMeta]]
  /\ UNCHANGED <<bucket, job>>

Call(c, pc) == caller' = [caller EXCEPT ![c].pc = pc, ![c].merge = NoMeta]
Return(c) == caller' = [caller EXCEPT ![c] = NoCall]

(* The writer creates queued/k if it does not exist. *)
QueueCreate(c) ==
  LET q == caller[c] IN
  /\ q.pc = "create"
  /\ \/ /\ ~queued[q.key].exists
        /\ queued' = [queued EXCEPT ![q.key] = QueuedObject(Meta(q.prio, q.wait, 0))]
        /\ Return(c)
     \/ /\ queued[q.key].exists
        /\ IF q.plain THEN Return(c) ELSE Call(c, "read")
        /\ UNCHANGED queued
  /\ UNCHANGED <<inProgress, deadLetter, job>>

\* Mistake: a duplicate that is gone counts as queued.
QueueReadGivesUp(c) ==
  LET q == caller[c]
      new == Merged(queued[q.key].meta, q.prio, q.wait) IN
  /\ q.pc = "read"
  /\ \/ ~queued[q.key].exists /\ Return(c)
     \/ /\ queued[q.key].exists
        /\ caller' = [caller EXCEPT ![c].pc = "write", ![c].merge = new]
  /\ UNCHANGED <<bucket, job>>

(* Attrs: recurse when the object is gone, return when it needs no change. *)
QueueRead(c) ==
  LET q == caller[c]
      old == queued[q.key].meta
      new == Merged(old, q.prio, q.wait) IN
  /\ q.pc = "read"
  /\ \/ ~queued[q.key].exists /\ Call(c, "create")
     \/ queued[q.key].exists /\ new = old /\ Return(c)
     \/ /\ queued[q.key].exists /\ new # old
        /\ caller' = [caller EXCEPT ![c].pc = "write", ![c].merge = new]
  /\ UNCHANGED <<bucket, job>>

(* Update, with no precondition: recurse when the object is gone. *)
QueueWrite(c) ==
  LET q == caller[c] IN
  /\ q.pc = "write"
  /\ \/ /\ queued[q.key].exists
        /\ queued' = [queued EXCEPT ![q.key] = Patched(@, q.merge)]
        /\ Return(c)
     \/ ~queued[q.key].exists /\ Call(c, "create") /\ UNCHANGED queued
  /\ UNCHANGED <<inProgress, deadLetter, job>>

-----------------------------------------------------------------------------
(* The calls of goroutine g.  Step(g, pc) moves it on, Done(g) ends it. *)

Step(g, pc) == job' = [job EXCEPT ![g].pc = pc]
Done(g) == job' = [job EXCEPT ![g] = NoJob]

\* Delete without precondition: whoever's object it is.
DeleteInProgress(k) == inProgress' = [inProgress EXCEPT ![k] = NoInProgress]

\* One more attempt.  Beyond MaxAttempts they only make the backoff longer,
\* which is at its maximum, and exceed the retries allowed, which they do.
Attempt(attempts) == Smaller(attempts + 1, MaxAttempts)

\* The object g creates, and g once it did.
Made(g) == [gen |-> 1, prio |-> job[g].prio, attempts |-> Attempt(job[g].attempts),
            lease |-> Lease, by |-> g]
Started(j) == [j EXCEPT !.pc = "startDelete", !.gen = 1, !.attempts = Attempt(@),
                        !.lease = Lease]

\* Mistake: the copy has no precondition.
StartOverwrites(g) ==
  LET k == KeyOf(g) IN
  /\ job[g].pc = "startCopy"
  /\ IF queued[k].exists
     THEN /\ inProgress' = [inProgress EXCEPT ![k] = Made(g)]
          /\ job' = [job EXCEPT ![g] = Started(@)]
     ELSE Done(g) /\ UNCHANGED inProgress
  /\ UNCHANGED <<queued, deadLetter, caller>>

(* Start, first call: copy queued/k to in-progress/k unless that exists.   *)
(* The metadata is that of the enumeration, with one more attempt.         *)
StartCopy(g) ==
  LET k == KeyOf(g) IN
  /\ job[g].pc = "startCopy"
  /\ \/ /\ queued[k].exists /\ inProgress[k].gen = 0
        /\ inProgress' = [inProgress EXCEPT ![k] = Made(g)]
        /\ job' = [job EXCEPT ![g] = Started(@)]
     \/ /\ ~queued[k].exists \/ inProgress[k].gen > 0
        /\ Done(g)
        /\ UNCHANGED inProgress
  /\ UNCHANGED <<queued, deadLetter, caller>>

(* Start, second call: delete queued/k.  On success the heartbeat and the  *)
(* callback begin; when it is gone already Start fails, and leaves the     *)
(* in-progress object behind.                                              *)
StartDelete(g) ==
  LET k == KeyOf(g) IN
  /\ job[g].pc = "startDelete"
  /\ IF queued[k].exists
     THEN job' = [job EXCEPT ![g] = [@ EXCEPT !.pc = "running", !.live = TRUE]]
     ELSE Done(g)
  /\ queued' = [queued EXCEPT ![k] = NoQueued]
  /\ UNCHANGED <<inProgress, deadLetter, caller>>

\* What the heartbeat's precondition compares.
StillOwned(g) == inProgress[KeyOf(g)].gen = job[g].gen

\* The attributes the bucket returns are cached.
Renewed(j, obj) == [j EXCEPT !.gen = @ + 1, !.lease = Lease, !.prio = obj.prio,
                             !.attempts = obj.attempts]

(* One beat: renew the lease if the metageneration is the cached one, and  *)
(* cache what the bucket returns.                                          *)
Beat(g) ==
  LET k == KeyOf(g) IN
  /\ job[g].pc = "running" /\ job[g].live
  /\ job[g].lease < Lease
  /\ StillOwned(g)
  /\ job[g].gen < MaxMeta
  /\ inProgress' = [inProgress EXCEPT ![k].gen = @ + 1, ![k].lease = Lease]
  /\ job' = [job EXCEPT ![g] = Renewed(@, inProgress[k])]
  /\ UNCHANGED <<queued, deadLetter, caller>>

(* The precondition fails: the heartbeat stops and cancels the callback. *)
BeatFails(g) ==
  /\ job[g].pc = "running" /\ job[g].live
  /\ job[g].lease < Lease
  /\ ~StillOwned(g)
  /\ job' = [job EXCEPT ![g].live = FALSE]
  /\ UNCHANGED <<bucket, caller>>

(* Complete: best-effort delete of dead-letter/k, then of in-progress/k. *)
CompleteDeadLetter(g) ==
  /\ job[g].pc = "complete"
  /\ deadLetter' = [deadLetter EXCEPT ![KeyOf(g)] = FALSE]
  /\ Step(g, "delete")
  /\ UNCHANGED <<queued, inProgress, caller>>

(* The last call of Complete, Deadletter and RequeueWithOptions. *)
DeleteOwn(g) ==
  /\ job[g].pc = "delete"
  /\ DeleteInProgress(KeyOf(g))
  /\ Done(g)
  /\ UNCHANGED <<queued, deadLetter, caller>>

(* Deadletter: copy in-progress/k to dead-letter/k, over what is there. *)
DeadletterCopy(g) ==
  LET k == KeyOf(g) IN
  /\ job[g].pc = "deadletter"
  /\ \/ /\ inProgress[k].gen > 0
        /\ deadLetter' = [deadLetter EXCEPT ![k] = TRUE]
        /\ Step(g, "delete")
     \/ inProgress[k].gen = 0 /\ Done(g) /\ UNCHANGED deadLetter
  /\ UNCHANGED <<queued, inProgress, caller>>

\* NotBefore of a requeue: the delay asked for, else the backoff of a key with
\* a priority, else what the in-progress object had, which is none.
RequeueWait(j) ==
  IF j.delay > 0 THEN j.delay
  ELSE IF j.prio # 0 THEN Smaller(j.attempts * BackoffPeriod, MaximumBackoff)
  ELSE 0

\* Mistake: the copy is not followed, the key stays in progress for good.
RequeueDeletesFirst(g) ==
  LET k == KeyOf(g) IN
  /\ job[g].pc = "requeue"
  /\ DeleteInProgress(k)
  /\ Done(g)
  /\ UNCHANGED <<queued, deadLetter, caller>>

(* RequeueWithOptions, first call: copy in-progress/k to queued/k unless   *)
(* that exists.  With neither the copy fails; which error the bucket gives *)
(* when the target exists and the source is gone is left open.             *)
RequeueCopy(g) ==
  LET k == KeyOf(g)
      j == job[g]
      meta == Meta(j.prio, RequeueWait(j), j.attempts) IN
  /\ j.pc = "requeue"
  /\ \/ /\ ~queued[k].exists /\ inProgress[k].gen > 0
        /\ queued' = [queued EXCEPT ![k] = QueuedObject(meta)]
        /\ Step(g, "delete")
     \/ /\ queued[k].exists
        /\ IF j.prio = 0 /\ j.delay = 0
           THEN Step(g, "delete")
           ELSE job' = [job EXCEPT ![g].pc = "requeueRead", ![g].wait = meta.wait]
        /\ UNCHANGED queued
     \/ inProgress[k].gen = 0 /\ Done(g) /\ UNCHANGED queued
  /\ UNCHANGED <<inProgress, deadLetter, caller>>

(* updateMetadata of a requeue: Attrs ... *)
RequeueRead(g) ==
  LET k == KeyOf(g)
      old == queued[k].meta
      new == Merged(old, job[g].prio, job[g].wait) IN
  /\ job[g].pc = "requeueRead"
  /\ \/ ~queued[k].exists /\ Step(g, "requeue")
     \/ queued[k].exists /\ new = old /\ Step(g, "delete")
     \/ /\ queued[k].exists /\ new # old
        /\ job' = [job EXCEPT ![g].pc = "requeueWrite", ![g].merge = new]
  /\ UNCHANGED <<bucket, caller>>

(* ... and Update. *)
RequeueWrite(g) ==
  LET k == KeyOf(g) IN
  /\ job[g].pc = "requeueWrite"
  /\ \/ /\ queued[k].exists
        /\ queued' = [queued EXCEPT ![k] = Patched(@, job[g].merge)]
        /\ Step(g, "delete")
     \/ ~queued[k].exists /\ Step(g, "requeue") /\ UNCHANGED queued
  /\ UNCHANGED <<inProgress, deadLetter, caller>>

-----------------------------------------------------------------------------
(* Time passes for every NotBefore and every lease. *)
Less(t) == IF t = 0 THEN 0 ELSE t - 1
Aged(meta) == [meta EXCEPT !.wait = Less(@)]

GcsTick ==
  /\ queued' = [k \in Keys |-> [queued[k] EXCEPT !.meta = Aged(@)]]
  /\ inProgress' = [k \in Keys |-> [inProgress[k] EXCEPT !.lease = Less(@)]]
  /\ caller' = [c \in Callers |-> [caller[c] EXCEPT !.wait = Less(@), !.merge = Aged(@)]]
  /\ job' = [g \in Goroutines |-> [job[g] EXCEPT !.wait = Less(@), !.lease = Less(@),
                                                 !.merge = Aged(@)]]
  /\ UNCHANGED deadLetter
=============================================================================
