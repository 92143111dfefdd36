---------------------------- MODULE GcsDispatch ----------------------------
(***************************************************************************)
(* The workqueue in production: receivers call Queue, dispatchers run      *)
(* rounds of HandleAsync over the same bucket, owners heartbeat, and any   *)
(* of them can stop between two calls to the bucket                        *)
(* (modules/workqueue/cmd/receiver, modules/workqueue/cmd/dispatcher).     *)
(*                                                                         *)
(* An owner keeps its object unless the environment is slow in one of      *)
(* three ways, and breached is the set of keys that has happened to:       *)
(*   its lease ran out (the owner stalled);                                *)
(*   it ran out in what a round had listed and not launched yet (the round *)
(*   stalled);                                                             *)
(*   a round listed it as an orphan while another was recovering it.       *)
(* The code rules none of them out.  Two constants say which the           *)
(* environment does: Timely the first two, SerialRecovery the third.       *)
(***************************************************************************)
EXTENDS GcsQueue, Dispatch

CONSTANTS
  Priorities, Waits,   \* what clients pass to Queue
  Timely, SerialRecovery,
  MaxQueues,           \* bound: calls of Queue
  MaxFailures          \* bound: goroutines and calls that stop midway

ASSUME GcsDispatchAssumption ==
  /\ Priorities \subseteq 0..9 /\ Waits \subseteq Nat
  /\ Timely \in BOOLEAN /\ SerialRecovery \in BOOLEAN
  /\ MaxQueues \in Nat /\ MaxFailures \in Nat
  /\ MaxAttempts >= MaxRetry

VARIABLES
  scan,      \* scan[h]: the in-progress objects round h has listed
  queues,    \* calls of Queue so far, at most MaxQueues
  failures,  \* failures so far, at most MaxFailures
  asked,     \* auxiliary: keys queued since their last callback began
  again,     \* auxiliary: keys whose last callback asked for another or was cut off
  breached   \* auxiliary: keys whose owner or recovery was overtaken

work == <<asked, again>>
history == <<work, breached>>
vars == <<gcsVars, scan, queues, failures, history>>

NoScan == [on |-> FALSE, seen |-> [k \in Keys |-> NoInProgress]]

Init ==
  /\ GcsInit
  /\ scan = [h \in Rounds |-> NoScan]
  /\ queues = 0
  /\ failures = 0
  /\ asked = {}
  /\ again = {}
  /\ breached = {}

-----------------------------------------------------------------------------
(* Receivers *)

Enqueue(c, k, prio, wait) ==
  /\ queues < MaxQueues
  /\ queues' = queues + 1
  /\ QueueCall(c, k, prio, wait)
  /\ UNCHANGED <<scan, failures, history>>

\* From here on queued/k exists, and the key waits for a callback.
CallCreates(c) ==
  /\ QueueCreate(c)
  /\ asked' = asked \union {caller[c].key}
  /\ UNCHANGED <<scan, queues, failures, again, breached>>

\* A callback may have begun meanwhile: a call that is answered asks again.
CallMerges(c) ==
  /\ QueueRead(c) \/ QueueWrite(c)
  /\ asked' = IF caller'[c].pc = "idle" THEN asked \union {caller[c].key} ELSE asked
  /\ UNCHANGED <<scan, queues, failures, again, breached>>

\* The call returns an error: the receiver stops or the bucket is unreachable.
CallFails(c) ==
  /\ caller[c].pc # "idle"
  /\ failures < MaxFailures
  /\ failures' = failures + 1
  /\ Return(c)
  /\ UNCHANGED <<bucket, job, scan, queues, history>>

-----------------------------------------------------------------------------
(* Rounds: HandleAsync *)

Of(h) == {g \in Goroutines : g[1] = h}

Present(h) == {k \in Keys : scan[h].seen[k].gen > 0}
\* Mistake: every key in progress is requeued, whatever its lease says.
OrphansAll(h) == Present(h)

\* Mistake: nothing in progress is ever taken for orphaned.
OrphansNone(h) == {}

\* IsOrphaned, of what was listed.
Orphans(h) == {k \in Present(h) : scan[h].seen[k].lease = 0}

\* h is about to requeue the orphan k, or is at it.
Recovering(h, k) ==
  \/ scan[h].on /\ k \in Orphans(h)
  \/ \E g \in Of(h) : g[3] = "orphan" /\ KeyOf(g) = k /\ job[g].pc # "idle"

\* Orphans that somebody recovers already.
Contested == {k \in Keys : /\ inProgress[k].gen > 0 /\ inProgress[k].lease = 0
                           /\ \E h \in Rounds : Recovering(h, k)}

(* Enumerate lists the bucket in the order of names and page by page: the  *)
(* in-progress objects come before the queued ones.                        *)
ListInProgress(h) ==
  /\ ~scan[h].on
  /\ \A g \in Of(h) : job[g].pc = "idle"
  /\ SerialRecovery => Contested = {}
  /\ scan' = [scan EXCEPT ![h] = [on |-> TRUE, seen |-> inProgress]]
  /\ breached' = breached \union Contested
  /\ UNCHANGED <<gcsVars, queues, failures, work>>

Ready == {k \in Keys : queued[k].exists /\ queued[k].meta.wait = 0}

\* Equal priorities are in the order of creation in the code, in any here.
Before == {p \in Keys \X Keys :
  Parsed(queued[p[1]].meta.prio) > Parsed(queued[p[2]].meta.prio)}

\* The goroutines a round launches, with what it enumerated.
StartJob(k) == [NoJob EXCEPT !.pc = "startCopy", !.prio = queued[k].meta.prio,
                             !.priority = Parsed(queued[k].meta.prio),
                             !.attempts = queued[k].meta.attempts]
OrphanJob(h, k) == [NoJob EXCEPT !.pc = "requeue", !.prio = scan[h].seen[k].prio,
                                 !.attempts = scan[h].seen[k].attempts]

(* The rest of Enumerate, and the launch: requeue the orphans, start the   *)
(* chosen keys.                                                            *)
Launch(h) ==
  /\ scan[h].on
  /\ \E L \in Launches(Ready, Present(h) \ Orphans(h), Before) :
       job' = [g \in Goroutines |->
                 IF g[1] # h THEN job[g]
                 ELSE IF g[3] = "start" /\ KeyOf(g) \in L THEN StartJob(KeyOf(g))
                 ELSE IF g[3] = "orphan" /\ KeyOf(g) \in Orphans(h) THEN OrphanJob(h, KeyOf(g))
                 ELSE NoJob]
  /\ scan' = [scan EXCEPT ![h] = NoScan]
  /\ UNCHANGED <<bucket, caller, queues, failures, history>>

-----------------------------------------------------------------------------
(* Goroutines *)

\* Start succeeds and the callback begins.
Begin(g) ==
  /\ StartDelete(g)
  /\ LET begun == IF job'[g].pc = "running" THEN {KeyOf(g)} ELSE {} IN
       asked' = asked \ begun /\ again' = again \ begun
  /\ UNCHANGED <<scan, queues, failures, breached>>

(* The callback returns: what is then done with the key.  The context of   *)
(* the owner, and with it the heartbeat, is cancelled first.               *)
Finish(g, result) ==
  /\ job[g].pc = "running"
  /\ LET d == Disposition(result, job[g].attempts)
         retry == d \in {"requeue", "requeueAfter"}
         next == [job[g] EXCEPT !.live = FALSE, !.pc = IF retry THEN "requeue" ELSE d] IN
       /\ job' = [job EXCEPT ![g] =
            IF d # "requeueAfter" THEN next
            ELSE [next EXCEPT !.delay = RequeueDelay,
                              !.prio = IF job[g].priority # 0 THEN Bare(job[g].priority) ELSE @]]
       /\ again' = IF retry THEN again \union {KeyOf(g)} ELSE again
  /\ UNCHANGED <<bucket, caller, scan, queues, failures, asked, breached>>

\* A call to the bucket, or a heartbeat.
Work(g) ==
  /\ \/ StartCopy(g)
     \/ CompleteDeadLetter(g) \/ DeadletterCopy(g) \/ DeleteOwn(g)
     \/ RequeueCopy(g) \/ RequeueRead(g) \/ RequeueWrite(g)
  /\ UNCHANGED <<scan, queues, failures, history>>

Heartbeat(g) ==
  /\ Beat(g) \/ BeatFails(g)
  /\ UNCHANGED <<scan, queues, failures, history>>

(* The goroutine stops midway: its process dies, its request is cancelled  *)
(* or a call to the bucket returns an error.                               *)
Abort(g) ==
  /\ job[g].pc # "idle"
  /\ failures < MaxFailures
  /\ failures' = failures + 1
  /\ Done(g)
  /\ again' = IF job[g].pc = "running" THEN again \union {KeyOf(g)} ELSE again
  /\ UNCHANGED <<bucket, caller, scan, queues, asked, breached>>

\* g holds, or is about to hold or give up, the in-progress object it made.
Owner(g) == g[3] = "start" /\ job[g].pc \notin {"idle", "startCopy"}

AgedScan(s) ==
  [s EXCEPT !.seen = [k \in Keys |-> [s.seen[k] EXCEPT !.lease = Less(@)]]]

\* Keys whose owner, and keys in a listing, have a lease about to run out.
Expiring ==
  {KeyOf(g) : g \in {i \in Goroutines : Owner(i) /\ job[i].lease <= 1}} \union
  {k \in Keys : \E h \in Rounds : scan[h].on /\ k \in Present(h) /\ scan[h].seen[k].lease = 1}

(* One RefreshInterval passes. *)
Tick ==
  /\ Timely => Expiring = {}
  /\ GcsTick
  /\ scan' = [h \in Rounds |-> AgedScan(scan[h])]
  /\ breached' = breached \union Expiring
  /\ UNCHANGED <<queues, failures, work>>

Go(g) == Work(g) \/ Begin(g) \/ \E r \in Results : Finish(g, r)

Next ==
  \/ \E c \in Callers :
       \/ \E k \in Keys, prio \in Priorities, wait \in Waits : Enqueue(c, k, prio, wait)
       \/ CallCreates(c) \/ CallMerges(c) \/ CallFails(c)
  \/ \E h \in Rounds : ListInProgress(h) \/ Launch(h)
  \/ \E g \in Goroutines : Go(g) \/ Heartbeat(g) \/ Abort(g)
  \/ Tick

Spec == Init /\ [][Next]_vars

(***************************************************************************)
(* Fairness: rounds are triggered again and again, every call to the       *)
(* bucket returns, callbacks return and time passes: rounds that always    *)
(* overlap do not stop the clock.                                          *)
(***************************************************************************)
Fairness ==
  /\ SF_vars(Tick) /\ []<>(Timely => Expiring = {})
  /\ \A c \in Callers : WF_vars(CallCreates(c) \/ CallMerges(c))
  /\ \A h \in Rounds : WF_vars(ListInProgress(h) \/ Launch(h))
  /\ \A g \in Goroutines : WF_vars(Go(g))

FairSpec == Spec /\ Fairness

-----------------------------------------------------------------------------
Ranks == (0..9) \union {Bare(p) : p \in 0..9}
Metas == [prio : Ranks, wait : Nat, attempts : 0..MaxAttempts]
QueuedObjects == [exists : BOOLEAN, meta : Metas]
InProgressObjects ==
  [gen : 0..MaxMeta, prio : Ranks, attempts : 0..MaxAttempts, lease : 0..Lease,
   by : Goroutines \union {Nobody}]
Calls ==
  [pc : {"idle", "create", "read", "write"}, key : Keys, prio : Priorities \union {0},
   wait : Nat, plain : BOOLEAN, merge : Metas]
Jobs ==
  [pc : {"idle", "startCopy", "startDelete", "running", "complete", "deadletter",
         "requeue", "requeueRead", "requeueWrite", "delete"},
   prio : Ranks, priority : 0..9, attempts : 0..MaxAttempts, gen : 0..MaxMeta,
   lease : 0..Lease, live : BOOLEAN, delay : Nat, wait : Nat, merge : Metas]

TypeOK ==
  /\ queued \in [Keys -> QueuedObjects]
  /\ inProgress \in [Keys -> InProgressObjects]
  /\ deadLetter \in [Keys -> BOOLEAN]
  /\ caller \in [Callers -> Calls]
  /\ job \in [Goroutines -> Jobs]
  /\ scan \in [Rounds -> [on : BOOLEAN, seen : [Keys -> InProgressObjects]]]
  /\ queues \in 0..MaxQueues /\ failures \in 0..MaxFailures
  /\ asked \subseteq Keys /\ again \subseteq Keys /\ breached \subseteq Keys

\* What a client queued stays queued until a callback begins for it: whatever
\* stalled goroutines, stale snapshots, late deletes, recoveries and crashes
\* do, no call of Queue is answered by an object that then disappears.
ClientWorkKept == \A k \in asked : queued[k].exists

\* A key whose callback asked for another try or was cut off has an object
\* from which a round will start it again, also when the goroutine that moves
\* it stops between two calls to the bucket.  Not for a key that was breached:
\* a stalled owner deletes the object of the next one.
RetryWorkKept ==
  \A k \in again \ breached : queued[k].exists \/ inProgress[k].gen > 0

\* While a callback runs, the in-progress object is the one its Start made,
\* with the metageneration the heartbeat expects (so one callback runs per
\* key), but for the three ways in which a key is breached.
OwnedUntilDone ==
  \A g \in Goroutines :
    job[g].pc = "running" /\ job[g].live /\ KeyOf(g) \notin breached =>
      inProgress[KeyOf(g)].by = g /\ inProgress[KeyOf(g)].gen = job[g].gen

\* gcs.go 524: "We are the only ones that should be updating the object, so if
\* we see anything manipulate the object, then assume that we've lost
\* ownership": a heartbeat never renews the lease of another owner's object.
BeatsOwnObject ==
  [][\A g \in Goroutines : Beat(g) => inProgress[KeyOf(g)].by = g]_vars

\* Every key gets a callback once clients stop queueing and nothing fails any
\* more: objects of dead owners are recovered, half-done moves are completed.
EveryKeyServed == \A k \in Keys : k \in asked ~> k \notin asked

\* The promise of interface.go.  A goroutine owns its key from the copy of
\* Start, which takes it out of the queue although queued/k still exists.
Promise == INSTANCE WorkQueue WITH
  Owners <- Goroutines,
  queued <- {k \in Keys : queued[k].exists /\
               ~\E g \in Goroutines : KeyOf(g) = k /\ job[g].pc = "startDelete"
                                      /\ inProgress[k].by = g},
  inProgress <- {k \in Keys : inProgress[k].gen > 0},
  owns <- {p \in Goroutines \X Keys :
             KeyOf(p[1]) = p[2] /\ Owner(p[1]) /\ inProgress[p[2]].by = p[1]}

\* Objects that are copied and deleted in two calls, by whoever is first, move
\* as interface.go promises: only the owner, or a round that finds the owner
\* gone, takes a key out of progress.
ImplementsWorkQueue == Promise!Spec
=============================================================================
