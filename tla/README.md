# Verification of terraform-cloudrun-glue

TLA+ models of the programs in this repository, TLC runs over small instances of
them, and TLAPS proofs for instances of any size. The heart of the repository
is the **workqueue** (`pkg/workqueue`, `modules/workqueue`): a deduplicating
queue of keys kept in a Cloud Storage bucket with no lock, no transaction and
no server of its own, driven by dispatchers that come and go. That part is
modelled first and in most detail, together with the suite its implementations
are tested with. Around it are the **event relays** that turn webhooks and
notifications into keys of the queue, and the **GitHub reconciler** that works
on them. Two parts with concurrency of their own, the rate limiter of the
GitHub bots and the rotation of recorded events, are modelled beside it.

- [What the system is](#what-the-system-is): the inventory
- [Modules](#modules): which module models what
- [Runs](#runs): what each run asks and shows, with its bounds
- [Fairness](#fairness) and the [assumptions about timing](#assumptions-about-timing)
- [Findings](#findings): where the code and what is said of it differ
- [Proofs](#proofs)
- [What is not modelled](#what-is-not-modelled) and the [plan](#plan)

`tlc -config X.cfg M` checks a run, `tlapm M.tla` a proof module. The cfg of
each run and its module are in `PROJECT.json`, with the lines of source every
definition stands for (`map`), a plausible bug for every property (`mutants`)
and the places where this code is hard to test (`hazards`).

## What the system is

### The workqueue

| Part | Code | State it keeps | Operations |
|---|---|---|---|
| Interface | `pkg/workqueue/interface.go` | none; says what a queue promises | Queue, Enumerate, Start, Complete, Deadletter, Requeue, IsOrphaned |
| In-memory queue | `pkg/workqueue/inmem/inmem.go` | a map of queued items, a set of keys in progress, one RWMutex | the same, each under the lock from start to end |
| Bucket queue | `pkg/workqueue/gcs/gcs.go` | objects `queued/k`, `in-progress/k`, `dead-letter/k` and their metadata; in each owner the attributes it read last | the same, each a sequence of calls to Cloud Storage, and a heartbeat goroutine per owned key |
| Rounds | `pkg/workqueue/dispatcher/dispatcher.go` | none between rounds; goroutines in flight | HandleAsync: requeue orphans, start the keys that fit, run the callback, act on its result |
| Dispatch handler | `pkg/workqueue/dispatcher/handler.go` | two mutexes | ServeHTTP: coalesce requests, run a round |
| Binaries | `modules/workqueue/cmd/{receiver,dispatcher,inmem}` | none | turn gRPC calls into Queue, HTTP requests or a ticker into rounds |
| Conformance suite | `pkg/workqueue/conformance` | none | the tests both queues have to pass |

How they interact: a client calls the receiver, which calls `Queue`. The change
of an object in the bucket makes Pub/Sub push a request to the dispatcher, and
a cron job pushes one every five minutes (`modules/workqueue/dispatcher.tf`).
A request runs a round (`HandleAsync`), which lists the bucket once and then
launches goroutines that outlive it. A goroutine moves its key from `queued/`
to `in-progress/` (`Start`), calls the reconciler service, and then completes,
dead-letters or requeues the key. Several instances of the dispatcher and of
the receiver share the bucket and nothing else.

What is hard:

- *No atomic move.* `Start` is a conditional copy and a delete, `Requeue` is a
  conditional copy, a possible read-modify-write of metadata, and a delete,
  `Deadletter` is a copy and a delete. A process may stop between any two, and
  others see what is half done.
- *Stale data.* What `Enumerate` read is what `Start` writes, what a heartbeat
  read is what it compares, and neither is read again.
- *Leases.* An owner that stalls for three refresh intervals is taken for dead
  and its key is run again, although it may still be alive.
- *Overlap.* The handler's mutex covers the listing and the launch, not the
  goroutines; a second round sees the first one's half-started keys.
- *A lock per owned key.* The owner and its heartbeat share cached attributes under
  a read-write lock, which one method takes twice.
- *Two implementations.* What one suite says of both has to hold of each, after any calls.
- *Coalescing.* A request that finds another one waiting is answered 200 and
  does nothing: what it asked for must be done by the other.

What makes each part correct:

- *Handler*: one scan at a time; a coalesced request is followed by a scan that
  begins after it arrived, or by a redelivery; every request is answered.
- *Queue*: work a client queued is not lost and is given a callback; a key
  has one owner until the owner is done; a merge forgets no priority and no delay
  asked for; a key that keeps failing is dead-lettered. (Which of two NotBefore times
  a merge keeps is told in two ways, see [Findings](#findings).)
- *Rounds*: no more keys than the concurrency; orphans are recovered; a key
  whose callback failed is tried again with its attempts counted.

### The rate limiter of the bots

`modules/github-bots/sdk/ratelimit.go` wraps the transport of a GitHub client. State:
the time until which requests pause, and the channel they wait on, under one mutex;
a goroutine per pause. Operations: `RoundTrip` (wait, send, look at the answer, perhaps
again), `Wait`, `PauseFor`. Callers are all the goroutines that use the client.
What is hard: a pause may be extended while requests wait, while one has taken the
channel and not waited yet, and while the goroutine of the old pause is about to end
it. What makes it correct: no channel is closed twice, nobody waits for a channel that
nobody closes, a pause lasts as long as was asked for.

### The rotation of recorded events

`modules/cloudevent-recorder` runs two containers that share a directory: the recorder
writes each event to `<type>/<id>`, the uploader (`pkg/rotate/blob.go`) combines the files
of a directory into one object of a bucket, from which BigQuery loads, and deletes them.
State: the files; the loop variables of `Run`. Operations: the recorder's handler; a
rotation (list, upload with up to three attempts per directory, delete), the sleep, the
last rotation on SIGTERM. What is hard: there is no lock, calls fail after having taken
effect, the uploader restarts with nothing but the directory, repeated deliveries write
to a file that may be in hand. What makes it correct: an event the recorder accepted is
in a file or in an object; it is uploaded in the end, once if nothing fails, and
before the uploader exits on SIGTERM.

### The event relays

| Part | Code | Operations |
|---|---|---|
| Webhook trampoline | `modules/github-events/internal/trampoline/server.go` | check the signature and the filters, give the event its extensions, send it |
| Bucket trampoline | `modules/bucket-events/cmd/trampoline/main.go` | map the type of a notification, send it |
| Ingress | `modules/cloudevent-broker/cmd/ingress/main.go` | publish the event on the topic of the broker |
| Bot | `modules/github-bots/sdk/bot.go` | hand the event to the handler of its type |
| Subscriber | `modules/cloudevents-workqueue/cmd/subscriber/main.go` | queue the key an extension of the event holds |
| Replayer | `cmd/replayer/main.go` | publish dead letters again and acknowledge them |

They keep no state. Between them are Pub/Sub subscriptions, which deliver at least
once, and HTTP calls, which are tried again a few times. What is hard: what each of
them answers decides whether the one before it tries again, and GitHub never does; an
answer may be lost after its work was done; the replayer ends its process when it has
seen no message for a while, wherever it is; an event may come while a callback for its
key has already read the resource. What makes them correct: an event answered 200 is
at every moment somewhere it will be taken up from, until a callback that began later
and the bot's handler have seen it.

### The GitHub reconciler

`pkg/githubreconciler` runs a reconcile function on an issue or a pull request, as the callback
of a workqueue. State: a client per repository in a map under an RWMutex (`client.go`); the
state of the reconciler in a comment on the resource, known by a marker (`state.go`), which
`Fetch` reads and `Commit` edits or creates. What is hard: two callers that miss the
cache at once; a listing in pages while comments come and go; a call that takes effect
and whose answer is lost. What makes it correct: one client per repository, one state
comment, no comment of others touched, and a failure that is reported, so that the
queue tries again.

### The other parts

`modules/github-bots/sdk/github.go` (calls to GitHub), `modules/cloudevent-recorder/cmd/dejavu-bq`,
`pkg/httpmetrics`, `pkg/prober`, `pkg/profiler` and the Terraform modules are instrumentation,
command-line tools, single calls and declarations: they keep no state that another
part depends on.

## Modules

```
 DispatchHandler          WorkQueue  <---- implemented by ----+------------------+
       ^                    ^                                 |                  |
 DispatchHandlerProofs      |                  InMemQueue  Dispatch  GcsQueue    |
                            |                   ^   ^      ^  ^  ^    ^   ^      |
                            |       Conformance-+---|------|--|--|----+   |      |
                            |           ^           +--+---+  |  +----+---+      |
                            |   ConformanceProofs      |      |       |          |
                            |                InMemDispatch    |   GcsDispatch ---+
                            |                     ^           |       ^
                            |        InMemDispatchProofs      |  GcsDispatchProofs
                            |                                 |
                       EventRelay     ClientCache --> Reconciler <-- StateComment
                         ^    ^                        ^     ^
           EventRelayProofs  MCEventRelay   MCReconciler  ReconcilerProofs

 RequeueLock      RateLimiter <-- RateLimiterProofs
                                          LogRotateProofs --> LogRotate <-- MCLogRotate
```

**`DispatchHandler`** is `handler.go`. `doWork` and `doWait` are the sets of
requests that hold the two mutexes (a set, so that two holders would be seen);
`pc[r]` is where a request is in `ServeHTTP`. `TryWork`/`WorkBusy` are the two
outcomes of `doWork.TryLock`, `EnterWaitingRoom`/`Deduplicate` those of
`doWait.TryLock`, then `LockWork`, `VacateWaitingRoom`, `BeginScan`, `Launch` and
the answer. A scan is two steps because what is queued while it runs may be
missed. `ScanFails` is an error or a panic, with the deferred unlock; `Crash` the
end of the instance. `owed` is auxiliary: the requests that no scan begun after
their arrival has covered.

**`WorkQueue`** is the abstract specification, what `interface.go` promises: a
key is queued at most once and in progress at most once, under one owner, and
only the owner, or someone who finds it gone, takes it out of progress.

**`Dispatch`** holds the decisions of `HandleAsync` as operators, used by both
queues: `Launches` (which keys a round may launch, after `Enumerate` truncated the
ready keys to `Limit`) and `Disposition` (what follows a callback's result). The
orders are passed as sets of pairs, so that ties stay open where the code's order
is not determined. The recovery of orphans is in the composing modules.

**`InMemQueue`** is `inmem.go`: `queue`, `item` and `wip` are its two maps; `older`
replaces the timestamps, which only break ties. **`InMemDispatch`** composes it
with `Dispatch` as `cmd/inmem/main.go` does: rounds that begin whether or not the
earlier ones have ended. `task[h][k]` is the goroutine round `h` launched for `k`,
with the priority and attempts it enumerated. Auxiliary: `unserved`, the keys
queued or requeued since their last callback began; `due[k]`, the most that was asked of `k`
since then, the highest priority and what is left of the longest delay of a requeue; `settled`, that
no round enumerated between a launch and its `Start`.

**`GcsQueue`** is `gcs.go`. `queued[k]`, `inProgress[k]` and `deadLetter[k]` are the
objects of a key. Every call to the bucket is an action, and what the caller
remembers from one to the next is in `caller[c]` (a receiver's `Queue`) or `job[g]`
(a dispatcher's goroutine):

| Code | Actions |
|---|---|
| `Queue`, `updateMetadata` | `QueueCall`, `QueueCreate`, `QueueRead`, `QueueWrite`, back to `QueueCreate` when the object is gone |
| `Start` | `StartCopy` (precondition: no in-progress object), `StartDelete` |
| `startHeartbeat` | `Beat`, `BeatFails` (precondition: the cached metageneration) |
| `Complete` | `CompleteDeadLetter`, `DeleteOwn` |
| `Deadletter` | `DeadletterCopy`, `DeleteOwn` |
| `RequeueWithOptions` | `RequeueCopy` (precondition: no queued object), `RequeueRead`, `RequeueWrite`, `DeleteOwn` |

No delete has a precondition, as in the code. **`GcsDispatch`** adds who calls them:
receivers, rounds, goroutines that stop midway (`Abort`, `CallFails`) and time
(`Tick`, one RefreshInterval). A round is two steps, because a listing is not
atomic: `ListInProgress` reads the objects under `in-progress/`, which come first in
the order of names, `Launch` reads those under `queued/`, judges the orphans by what
was listed and launches. `asked` and `again` are auxiliary: keys queued since their
last callback began (by a call that made the object or merged into it), and keys whose last
callback asked for another try or was cut off. So is `breached`: the keys whose lease ran out under
their owner or in a round's listing (`Expiring`), and those a round listed as orphans
while another was recovering them (`Contested`). The code prevents neither.

**`RequeueLock`** is the lock of an owned key in `gcs.go`, which `GcsQueue` leaves out: it
takes each section under the lock for a part of the call inside. `step` is where the
owner is in `Requeue`, `RequeueWithOptions`, `Complete` or `Deadletter`, `held` how many
read locks it holds, `beat` where the heartbeat is. `prioritized` says whether the key has a priority,
which makes a plain `Requeue` merge too (`Merges`). `RLock` waits for a writer that has
the lock and for one that waits for it, as `sync.RWMutex` does. Of the bucket there are
the two objects of the key, which others may change (`OthersStep`).

**`Conformance`** is `pkg/workqueue/conformance`: each of its tests is a script of calls and
checks, followed by `drain`. The calls are made on instances of both queue modules side
by side: a call in memory is one step, the same call in the bucket several (`Work`), and
the next call of the script waits for its end. Beside the scripts there is the test that
makes any sequence of calls (`AnyCall`), about the keys `AnyKeys`, with the priorities
`Priorities` and the delays `Waits`. `earlier` stands for the times at which queued
objects were created.

**`RateLimiter`** is `ratelimit.go`. `pauseUntil`, `pauseCh` are the fields of `limiter`; a
channel is a number, given in the order they are made; `timer[c]` is the goroutine of
channel `c`. `pc[r]` and `waitsOn[r]` are where a request is and the channel it took under
the lock, which is a step before waiting on it. `Extend` is `PauseFor` with a later time;
what a response asks for, by whichever header, is a duration, 0 for a reset time
that has passed. `owed` is auxiliary: the time left until a request may be sent again.

**`LogRotate`** is `blob.go` and the recorder's handler. `file[e]` is the file of an event, named
by its type and ID, `handler[h]` a request of the recorder: `WriteFile` is two steps, `Open`
(the file is emptied or created) and `Write`, and `linked` says whether the file
it has open still has a name, since a write to a removed file succeeds. `up` is the uploader:
`Walk` lists, `NextDir` picks a directory (map order is random), `Read` takes a file,
`CloseSucceeds`/`CloseFails` end an attempt, `Remove` deletes a file, `Awake` is the `select`.
`object[d]` is the object of the running rotation for a directory, overwritten
by further attempts; earlier ones are counted in `copies`. `due`, `acked` and `nacked` are
auxiliary. `MCLogRotate` gives the events their types.

**`EventRelay`** is all the relays of the table above with the topic between them. `request[e]` is
what the trampoline has answered or is doing, `tries[e]` the retries left of its send;
`waiting[s][e]` and `dead[s][e]` count the copies of `e` on a subscription and among its
dead letters. `Verdict` is `ServeHTTP` up to the send, `PullRequestURL` and `IssueURL` the extensions it
gives an event. A send that fails may have been published. `BotFails` and `SubscriberFails` may have
done their work. `Replay` has three outcomes: published and acknowledged, published only, neither.
The queue behind the subscriber is an instance of `WorkQueue`, so what is shown holds
of every queue that implements it. `seen` is auxiliary: events accepted before the
last callback of their key began. `MCEventRelay` lists payloads, one for each case the code tells apart.

**`ClientCache`** is `client.go`: the steps of `Get` between which others may take the lock. **`StateComment`**
is `state.go`: a step per call to GitHub. `Fetch` and `Commit` list page by page; a comment is its
identifier and body, and a body is foreign, marked without a readable state, or a state. The message
beside the state may differ or not, so a `Commit` of the state that is there may edit or leave the comment.
People comment, delete and edit. `disturbed` is auxiliary: whether two reconcilers overlapped, a
deletion moved comments across a page boundary a listing had passed, or somebody
deleted or edited the state comment; the code guards against none of these, and the properties
that need it say so. **`Reconciler`** composes the two as `reconciler.go` does, under `Disposition` of
`Dispatch`: parse the key, get the client, run the reconcile function, which is a user's: here
it fetches the state, commits the next until it is `Target`, and asks to be
requeued in between. `MCReconciler` gives the keys: one pull request under both its
URLs, and a URL that names no resource.

How data is abstracted:

- *Times* (NotBefore, lease) are what is left of them, so no clock grows. A `Tick`
  lowers every one, those in listings and in goroutines included.
- *Priorities* of the bucket are ranks of their text in the order `updateMetadata`
  compares by: `v` for the zero-padded text `Queue` writes, `Unpadded + v` for the text
  without padding that a requeue writes. Priorities are 0 to 9, where this ranking is
  that of the text; the module does not claim it for longer numbers.
- *Attempts* saturate at `MaxAttempts`, by assumption at least `MaxRetry` and large
  enough for the backoff to be at its maximum: more attempts act the same.
- *Which error* the bucket gives when a copy's source is missing and its target exists
  is left open: both are possible.
- The body of a key, latencies, metrics and logs are left out.

## Runs

Runs that must pass:

| Run | Instance | What it shows |
|---|---|---|
| `handler` | 3 requests, 2 failures | One scan at a time; no coalesced trigger without a scan to come; an answer 200 means a scan that covered it; every trigger is scanned for. |
| `inmem` | 2 keys, 2 overlapping rounds, 1 slot, 4 calls of Queue | One owner per key, nothing lost, no priority or delay forgotten in a merge, the promise of the interface, every queued key served, and the concurrency limit as far as the code keeps it. |
| `gcs` | 1 key, 2 rounds, 2 calls of Queue, 1 failure, retry limit 2 | Under both timing assumptions: no client's work and no retry is lost, an owner keeps its object, the bucket implements the promise, every queued key is served. |
| `conformance` | all tests of the suite with a limit of 2; any 6 calls on 2 keys | Every check of the suite holds; after any call the two queues list the same keys in the same order, have the same in progress and count the same attempts; no test gets stuck. |
| `relay` | 2 webhooks (9 payloads for the first), 1 notification, 1 retry, 2 failures | What was answered 200 is kept for the queue and for the bot, and arrives; a notification of a known type arrives. |
| `reconciler` | 3 keys, 1 repository, pages of 1, 2 states, 1 comment of others, 1 deletion or edit, 1 failure | One client per repository, one state comment, a fetch returns what the last commit wrote, nobody's comment is touched, a settled key has its state stored, every key is reconciled or dead-lettered. |
| `ratelimit` | 3 requests, 3 pauses or extensions, waits of 0 to 2 | No channel is closed twice, nobody is stranded, no pause is cut short, every request returns. |
| `rotate` | 3 events of 2 types, one too long to scan, 1 request at a time, 1 repeated delivery, 2 failures, 2 attempts | Under `Apart`: what was accepted is kept and uploaded, not twice unless Run failed or it was delivered twice, and flushed on SIGTERM. |

Runs that show a difference between the code and what is said of it, one property
each: `gcs_heartbeat`, `requeue_lock`, `ratelimit_retry`, `rotate_overlap` (see
[Findings](#findings)).

Why these bounds are enough for what they ask:

- Three requests are the fewest that reach every state of the coalescing: one scans,
  one waits, one is turned away. A fourth can only be turned away as well.
- Two rounds are the fewest that overlap, and everything known to go wrong between
  rounds happens between two. A round is reused once its goroutines are done, so the
  number of rounds in time is not bounded.
- Keys do not share objects. They meet in the choice of what to launch only, so one
  key serves the protocol of a key, with all its interleavings, and two keys
  (`inmem`) the competition for slots, which is the same code for both queues.
- Two calls of `Queue` per run let a key be queued again at any moment of its first
  life: while queued, started, running, requeued or orphaned.
- `Lease` is 2 ticks rather than 3, the fewest that tell a fresh lease from
  one that has to be renewed; `MaxMeta` 2 allows that renewal.
- `MaxFailures`: one stop, at any point, per behaviour in the bucket runs, two in
  `handler`. `MaxQueues`, `MaxFailures`, `MaxMeta` and, in memory, `MaxAttempts` (beyond
  which callbacks stop asking for another try) are the only bounds on behaviour, and
  each is named in its module.

- `ratelimit`: three requests let one wait, one extend the pause and one hold the answer that
  will extend it again; with three channels a pause is replaced while the goroutines
  of two earlier ones are still to come.
- `rotate`: two events share a directory, so that a rotation can stop between them, and the
  third is in another, so that it can stop between directories. Two attempts are the
  fewest with a retry and a last one (the code has three). Two failures let a failed
  attempt be followed by a failed rotation. One request at a time is enough, as two
  requests for different events share nothing.

- `conformance`: the suite queues five times as many keys as its limit, so the limit is the
  number that makes it large: 2 leaves all its orders and cuts, with 10 keys. Six calls
  on two keys reach a key that is queued, started, queued again, requeued with a delay,
  waited for and started a second time; any number of calls about any keys is `QueuesAgree`,
  below. A priority above and a NotBefore after those of a
  queued key in one call is left out (`Dropped`): there the two queues do differ.
- `relay`: two failures let a send fail and its event be dead-lettered and replayed, or
  an answer be lost twice. The second event is always about the pull request of the first,
  so that one can come while the callback of the other runs. `MaxCopies` 2 lets a duplicate
  and a replay meet.
- `reconciler`: with pages of one comment every comment is on a page of its own, so a listing
  takes as many calls as there are comments and every place in it is a page boundary. Two
  states make the callback edit what it created, by way of a requeue. Two calls of Queue
  let the two URLs of one resource overlap, and let one key be reconciled twice. `MaxComments` bounds the
  comments ever posted, those of people included.
- `requeue_lock`: five steps of others are what it takes to expire the lease, queue the key
  (it may be queued again), requeue it, start it and delete the queued object.

`CHECK_DEADLOCK FALSE` everywhere but in `conformance`: with all requests answered, or all
queues empty and no call of Queue left, nothing remains to be done. In `conformance` a step
that does nothing is added once a test is over, so that a test that cannot go on is a deadlock.

## Fairness

- `DispatchHandler`: a goroutine that can run runs (WF). `Lock()` on `doWork` is
  SF: Go's mutex hands over to a waiter that has waited a millisecond, however many
  `TryLock`s come in between. A push answered 500 is delivered again.
- `InMemDispatch`: a round begins every 100ms (`cmd/inmem/main.go`), goroutines run,
  callbacks return, time passes. What a callback returns is not fair.
- `GcsDispatch`: rounds are triggered again and again, since the cron job calls the
  dispatcher every five minutes whatever happens; calls to the bucket and
  callbacks return (Cloud Run bounds a request). SF for `Tick`, and under `Timely` the
  assumption that again and again no lease is about to run out: a clock does not stop, and rounds
  that always overlap do not stop it. Stopped goroutines are not
  restarted: recovery is through the lease alone.
- `RateLimiter`: requests that can go on do, are answered, the goroutine of a timer runs once
  it has fired, time passes. That GitHub stops limiting is the bound on pauses.
- `LogRotate`: the uploader goes on, wakes up after the flush interval, and is
  restarted by Cloud Run when it ended with an error; what the recorder began it ends.
  SIGTERM and failures are not fair, and a repeated delivery need not come.
- `EventRelay`: the services answer what they are sent, Pub/Sub pushes a message until it is
  acknowledged or dead-lettered (`retry_policy` of `modules/cloudevent-trigger`), the dispatcher
  runs. Nothing is fair of GitHub, of people who redeliver by hand, of the replayer and of failures.
- `Reconciler`: the dispatcher runs every queued key, locks are handed out, calls
  return. People and failures are not fair.
- `RequeueLock`: SF for the owner, since readers that wait are let in whenever a writer unlocks; WF for the
  heartbeat.

## Assumptions about timing

The bucket code relies on its environment for two things it does not enforce, the
rotation for a third. They are constants of `GcsDispatch` and `LogRotate`, so
that each can be dropped:

- `Timely`: an owner renews its lease, or finishes with its key, before the lease
  runs out, and a round launches before a lease it listed does.
- `SerialRecovery`: a round does not list an orphan that another is about to requeue
  or is requeueing.
- `Apart`: the recorder does not write a file while the uploader has it in hand. Writing one
  takes a moment and rotations are minutes apart, but nothing else keeps them apart.

What holds without the first two is told per key: `OwnedUntilDone` and `RetryWorkKept` except for keys in
`breached`, and `ClientWorkKept` for every key. `GcsDispatchProofs` proves the three without assuming either.
The asymmetry is the design's strength: a queued object is only ever deleted by a `Start` whose callback then begins.
The implementation of `WorkQueue`, where a key has one owner, needs both assumptions, since after a breach it
may have two. So does the run `gcs`, for that and for its liveness, and there no key is ever breached.
`gcs_heartbeat` drops `SerialRecovery` and shows what a breach costs: two rounds recover one
orphan, and with every lease renewed in time a running owner loses its object, and then renews its successor's
lease.
`RecordedIsKept` and `FlushedAtExit` need `Apart` (`rotate_overlap` drops it for the first);
`UploadedOnce` does not, as `UploadsAreOnce` proves.

## Findings

Each is quoted with its lines in `PROJECT.json`; the run prints the behaviour.

1. `gcs_heartbeat`: the heartbeat compares the metageneration only, and that starts at
   1 for every object. Two rounds that both listed one orphan requeue it both, and the delete of the slower one, which
   has no precondition (`gcs.go:408`), removes the object of the owner that started the key
   in between. When the key is started again, the first owner renews its successor's lease and
   runs on beside it, where the comment says it will see that it lost ownership. An owner that stalled past its lease
   gets there too. A generation precondition, on the delete and on the renewal, would tell the objects apart.
2. `requeue_lock`: `RequeueWithOptions`, and `Requeue` for a key with a priority, holds a read lock to its
   end (`gcs.go:353`), and when the queued object it found is gone by the time it updates it, calls
   itself and takes the lock again (`gcs.go:403`). If the heartbeat asks for the write lock in between,
   neither goes on: `sync.RWMutex` lets no new reader in while a writer waits. Releasing the lock
   before the call, or a loop, would do.
3. `ratelimit_retry`: extending a pause closes the channel of the old one, and `Wait` does not
   look again: every request that waited is sent at once, in the middle of
   the longer pause. Looping in `Wait` until there is no pause would make them wait.
   That no request is stranded by an extension is what the close is for, and it holds.
4. `rotate_overlap`: the uploader takes a file the recorder has created and not written yet,
   uploads nothing and deletes it with the event in it, which was acknowledged. A write
   to a temporary name and a rename would hide it until it is whole.

Seen while modelling, with no run of their own. In the workqueue:

- `interface.go:45` says of two NotBefore times "the oldest time is used". Both queues keep the
  later one, and `conformance.go:423` tests that they do: the sentence is what has to change. `SuitePasses` and
  `SameContent` check what the suite asks.
- In memory a call of `Queue` with both a higher priority and a later NotBefore loses the NotBefore
  (`inmem.go:59`, an else-if), where the bucket merges both. `OptionsKept` says nothing of NotBefore
  times for these two reasons: it is about priorities and about the delay of a requeue.
- A goroutine that enumerated a key starts it although it was queued again or requeued
  meanwhile with a later NotBefore (`inmem.go:270`).
- The attempts compared with `max-retry` count every start (`dispatcher.go:130`), where `modules/workqueue/README.md:86`
  says failed attempts: a key that asked to be requeued after a delay is dead-lettered after fewer
  failures.
- Two rounds that enumerate before the other's goroutines called `Start` launch two full
  sets of keys (`dispatcher.go:77`); `conformance/concurrency.go:34` would call it "Too
  many inflight". `WithinConcurrencyWhenSettled` shows that this window is the
  only way past the limit in memory.
- A late `Start` writes back the attempts it enumerated (`gcs.go:593`), so a failure in between is not
  counted and a key may be tried more often than `max-retry`.
- A requeue writes the priority unpadded (`gcs.go:393`), so "1" compares above "00000002" and a later
  `Queue` with priority 2 does not raise it.
- Dead letters have no timestamp in their name, as `modules/workqueue/README.md:89` says
  they have, and replace each other (`gcs.go:434`).
- Requeueing a key observed in progress keeps its metadata in the bucket and forgets them in memory,
  where no such key is ever orphaned.
- The suite does not tell a `Queue` that keeps the last of two priorities from one that
  keeps the higher; `SameContent` does.
- `GetAttempts` logs the name under the read lock that `Name` takes again (`gcs.go:336`), but only for attempts
  that are no number, which this code never writes.

Elsewhere:

- Comments are listed by page number, so when a comment of a page already read is
  deleted, one moves from the next page to that page and is never read. If it is the state comment,
  `findExistingComment` does not find it although it exists (`state.go:247`), and `Commit` makes a second one.
- The bucket trampoline answers 400 to a type it does not know, which Pub/Sub takes for a failure: such
  a notification is pushed again until it expires.
- A panic in a bot's handler is recovered and the event acknowledged (`bot.go:91`).
- A dead letter of one subscription is replayed to the topic, and so to all of them.
- A check run or suite of several pull requests gets the URL of the first only (`server.go:299`).
- Two keys name one pull request (`/issues/1` and `/pull/1`), and `ParseURL` accepts both: their
  callbacks may overlap on the state comment and make two.
- The client of a repository is made with the context of the request that first asked for it
  (`client.go:68`) and used by the later ones.
- `SetComment` of the bot SDK looks at the first page of comments only, where its comment says it replaces
  the bot's (`github.go:283`).
- `ratelimit.go:50` sends a request again whose body has been read; `httpmetrics/transport.go:371` calls
  `strings.Cut` with its arguments swapped.
- A line too long for the scanner is logged and its file deleted (`blob.go:217`).

## Proofs

All proofs hold for every value of the constants that meets the named assumptions of
the modules (`HandlerAssumption`, `QueueAssumption`, `BoundAssumption`,
`DispatchAssumption`, `GcsAssumption`, `GcsDispatchAssumption`, `LimiterAssumption`,
`RelayAssumption`, `PayloadAssumption`, `CacheAssumption`, `CommentAssumption`, `ReconcilerAssumption`,
`LogRotateAssumption`, `ConformanceAssumption`): types and signs of the
constants, `Keys` not empty for the bucket nor `Events` for the recorder, for its saturating counter that it
saturates where nothing changes any more, and for the two queues side by side priorities that
the padding of the bucket has room for. Any number of requests, keys, rounds and
callers, finite or not. Where a theorem needs more, its statement says so: `Timely` and
`SerialRecovery` for `GcsImplementsWorkQueue`, a list with room for every slot for `SlotsAreFilled`, `Apart`
for two of `LogRotateProofs`.

**`DispatchHandlerProofs`** (`TypeCorrect`, `DispatchIsExclusive`, `CoalescingIsSafe`,
`OkIsHonest`). The inductive invariant adds to the properties that the holder of a mutex
is exactly the request whose `pc` says so (`LocksMatch`), and that a scan covers the
request that makes it (`ScanCoversSelf`). `NoTriggerLost` needs `LocksMatch`: a request is
turned away because `doWait` is held, and only `LocksMatch` turns the held lock into a
request that will scan.

**`InMemDispatchProofs`** (`TypeCorrect`, `OwnerIsUnique`, `WorkIsNeverLost`,
`OptionsAreKept`, `InMemImplementsWorkQueue`, `ConcurrencyIsKept`, `SlotsAreFilled`). Everything rests on `OneOwnerPerKey`:
`wip` is exactly the set of keys some round runs, and two rounds never run the same key.
`Start` keeps it because it refuses a key in `wip`, the others because whoever calls them
is the only owner. The types need a strengthening: an attempt count in the queue or in a
listing is below `MaxAttempts`, since `Start` will add one. The refinement
follows step by step from the invariant. `OptionsKept` is inductive beside `NoLostWork`: a key that is
not served yet is in the queue, so every call about it is a merge, and the one that makes it anew begins
what is due of it anew. `ConcurrencyIsKept` counts: a round that finds
the goroutines of all the others started finds the key of each in `wip`, and a different
one for each (`OneOwnerPerKey`), so that `wip` is at least as large as the goroutines are many, and what
`Launches` leaves open is room for the new ones. It needs that the two maps and the
goroutines are finite (`Finite`), which every step keeps. `SlotsAreFilled` counts the other way: a list cut at `Limit` keys, of which no more than
those in progress are skipped, has a key left for every slot.

**`GcsDispatchProofs`**, first part (`TypeCorrect`, `QueuedIsKept`). The inductive invariant is
`TypeOK /\ ClientWorkKept`, with a lemma per action. The argument for `ClientWorkKept`
is that of the code: of all actions only `StartDelete` deletes a queued object, and
when it does the callback begins, which is when the key stops waiting; the conditional
copies and the metadata updates only create or change it.

Second part (`OwnershipIsKept`, `RetriesAreKept`). Nothing in the code ties an owner to its object but
what the owner remembers of it, so the invariant says that this is true, for the sound
keys, those that were not breached. `OwnInv` has five parts:

- `OwnersHold`: the in-progress object of an owner's key is the one it made, with the
  generation and lease the owner remembers, and the lease has not run out;
- `OrphansAreFree`: a key that a round listing the bucket takes for orphaned, or that a
  goroutine is about to requeue as one, is in progress and nobody owns it;
- `OneRecovers`: one round at a time does so;
- `ListsFirst`, `OrphansArePassed`: a round lists before it launches, and what it launches
  for an orphan never runs a callback.

Neither timing assumption is made. Time can break `OwnersHold` and `OrphansAreFree` only for a key in `Expiring`,
and a listing `OneRecovers` only for one in `Contested`, and both are breached by that very step; a
breach of one key leaves the others alone, since no call touches two. Between the listing of a
sound orphan and its delete, which has no precondition, no other round requeues it, and so nobody can
start it meanwhile. For retries `MovesAreWhole` is added: a goroutine that is about to delete the object of a
key to be tried again has queued it before, which is the order of the calls in
`RequeueWithOptions`.

Third part (`GcsImplementsWorkQueue`), under both assumptions, which keep `breached` empty (`NothingBreached`). The
refinement maps the goroutines that own a key to the owners of `WorkQueue`: `StartCopy`
is `Start`, the delete that ends a goroutine `Finish` or `Requeue`, one that stops
`Abandon`, what creates a queued object `Queue`, and every other step stutters.

**`RateLimiterProofs`** (`TypeCorrect`, `ChannelsClosedOnce`, `AllAreReleased`, `PausesLast`). Two
strengthenings carry all of it: channels are made in order, so a new one is neither
closed nor has a goroutine yet (`Made`); and the current channel is open, and its
goroutine is still to come, in as much time as is left of the pause (`Current`). From `Current` a goroutine that finds its channel current closes it for the
first time and at the end of the pause, and an extension, which closes the channel it
replaces, leaves nobody behind.

**`EventRelayProofs`** (`TypeCorrect`, `AcceptedIsNeverLost`, `OneOwner`, `CallbacksAreExclusive`). The types need that only messages with a key
are on the subscription of the workqueue or were dead-lettered there (`OnlyKeys`), and that the extensions
of a payload name resources. With them `AcceptedIsKept` is inductive as it stands: a step that takes
a copy away from a subscription leaves a dead letter or a queued key, or records who has seen the
event; `Replay` acknowledges after it has published; and a key leaves the queue only when a
callback begins.

`OneOwner` is about `WorkQueue` alone: the promise implies that an owned key is in progress
and has one owner, and what implements `WorkQueue` inherits it. `CallbacksAreExclusive` says that
the relays use the queue within that promise: with `OnlyKeys` every message the subscriber
gets has a key to queue, so each step is one of `WorkQueue` or none, and no key has two callbacks
at once.

**`ConformanceProofs`** (`QueuesAgree`). Over any number of calls, one after the other, about any keys,
priorities and delays, the two queues list the same keys in the same order, have the
same in progress and count the same attempts. `SameContent` itself says nothing of the steps of a call
in the bucket, and it compares orders, which are defined by counting what comes before. The invariant
is about single keys instead. Between calls (`AtRest`) a key is queued in both or in neither, with the
same priority, delay and attempts, and created after the same keys (`Aligned`); and it is in progress
in both or in neither, with owners that know the same of it (`Working`). While a call is under way the
queue in memory is ahead, and each kind of call has a predicate that says what is left for the bucket:

- `Queueing`: the object is not created yet, or what was there before is still to be
  merged; merging what is there with the options of the call gives what memory holds;
- `Starting`: the object of the attempt is to be made, then the queued one deleted, which until
  then still counts as created before the others;
- `Refused`: `Start` of a key in progress, which fails in memory and is about to fail in the bucket;
- `Ending`: `Complete`, `Deadletter` and `RequeueWithOptions`, of which the last has to queue or to merge
  before it deletes.

The other keys are as at rest all the while. That updating one field at a time, as `Queue` in memory does, gives what
`updateMetadata` gives is `QueueMerges`; it needs that the call is not one of those `Dropped` names. The
two back off alike by `SameWait`, and time passes alike by `SleepIsCalled`. That both then list the same follows
because both lists are made from the same keys and the same relation (`RestIsSame`).

**`ReconcilerProofs`** (`ClientsAreUnique`, `CommentIsOne`, `FetchedStateIsCommitted`,
`OthersCommentsAreKept`, `SettledStateIsStored`, `ReconcilerIsTyped`). `OneClientPerRepo` is not inductive: the strengthening
`MakerIsAlone` says that whoever makes a client holds the lock alone and that the map has no client
for its repository. The second look under the lock establishes it, and the lock keeps it, also
against `Clear`. The steps on the comment leave the cache alone.

For the comment, `IdsAreUnique` (identifiers are never used again) and `FoundIsMarked` (what is
about to be edited has the identifier of a comment with the marker, if it is still there) hold whatever happens,
and are enough for `OthersKept`. Unless reconcilers overlapped or a deletion shifted the pages, `Alone` says that
one worker is at it, that one comment has the marker, and that a listing has passed no such comment
(`PassedUnmarked`): so one that comes to its end may create the comment. And undisturbed, the comment reads what
was committed last (`StoredIsMarked`) and what a worker holds is that or the next state (`StatesFollow`),
also after a commit that failed and took effect. `SettledIsStored` adds `StoredIsTarget`.

**`LogRotateProofs`** (`RotationIsTyped`, `UploadsAreOnce`, `RecordedEventsAreKept`, `ExitIsFlushed`). `Shaped` says what
the uploader has in hand: the files of one directory and the listed ones of directories it has not
uploaded in this rotation, whose objects are empty. `FileInv` says what a file is to the recorder: an empty one is being
written, one that is whole and was delivered once is not. On these two rest both arguments:

- `OnceInv`: what was read or uploaded of an event is final when it was delivered once. Its
  object counts for the next rotation only after its file is gone (or the removal failed and `Run` ends), so no later
  rotation finds the file. That the attempts of one rotation write to one name is what
  `CommitStores` uses: each replaces what the last one left.
- `KeptInv`, under `Apart`: nothing in hand is being written (`HandsOff`), so all that is read is whole
  (`GotAll`) and all that is removed is in an object (`RemovedAreStored`). A file may be removed while it is
  written, by the recorder itself, when two requests for one event overlap and one fails: `Unnamed` says that the
  event is then kept elsewhere or will be delivered again. `Flushing` follows the rotation that SIGTERM
  asks for: what was accepted is uploaded, or still before it.

Only model-checked:

- all liveness (`EveryTriggerScanned`, `EveryKeyServed`, `EveryRequestReturns`, `EveryEventUploaded`,
  `EveryEventArrives`, `EveryKeyEnds`), which is out of the prover's reach;
- of `Conformance`, the scripts of the suite and their drain: they are finite, and TLC runs all of
  them (`SuitePasses`, and `SameContent` while they run);
- the properties that runs refute.

## What is not modelled

- *Locks inside `GcsQueue`.* Owners read their cached attributes under an RWMutex;
  the module takes each such section as part of the call that follows. `RequeueLock` has the lock, with
  less of the bucket.
- *TestDurability and TestConcurrency* of the suite: the first opens a second queue on the same bucket, and every
  action of `GcsQueue` reads the bucket anew; the second is `InMemDispatch`. The suite's checks of
  contexts, and priorities given to a requeue, are left out of `Conformance`.
- *Bodies of events and of comments*: an event is what the relays tell apart, a state comment its marker and state.
  A payload that does not parse is refused or fails like any other.
- *How the client of the relays retries*: which failures it takes for passing ones is left open.
- *Two repositories at once*: `ClientCache` is written for any, and checked with the one the
  reconciler's keys are in.
- *The body of the callback*: a call to another service. It returns any of four results
  at any time, or is cut off. A callback that runs on after its context was cancelled is
  a goroutine with `live = FALSE`.
- *Malformed metadata*: the objects are only written by this code.
- *The reads the dispatcher makes for metrics* (`cmd/dispatcher/main.go`, a background
  `Enumerate`): they change no state.
- *Retries inside the Cloud Storage client*: a call happens once or fails. A call that
  fails after having taken effect is covered where the goroutine stops right after it.
- *The headers of a response* (`processLimit`): which one gives the wait. Any wait may follow.
- *Contents of recorded files*: an event is one line, or one too long to scan. A failed read of
  the middle of a file is `RunFails`; a write that fails in part leaves its file to
  `RemoveAll`.
- *Two uploaders*: an instance has one, with a directory of its own.
- *The parts listed under* The other parts. The calls to GitHub of the bot SDK (`github.go`) are one request
  each, and what they find and change is GitHub's; the others keep no state.

## Plan

What is modelled is complete in the sense above, and what a run checks of safety is proved, but for the
scripts of `Conformance`. What could be added:

1. Of `GcsDispatch`, what a breached key still promises as a whole: an abstract specification weaker than
   `WorkQueue`, with more than one owner of a key.
2. `QueuesAgree` for calls that overlap: an abstract queue with merges that are not atomic, which the
   one in the bucket implements for any number of callers.
