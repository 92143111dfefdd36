--------------------------- MODULE InMemDispatch ---------------------------
(***************************************************************************)
(* The in-memory workqueue served by the dispatcher, as                    *)
(* modules/workqueue/cmd/inmem/main.go runs it: every 100ms another round  *)
(* of dispatcher.Handle begins, beside the rounds that are still waiting   *)
(* for their callbacks, while clients queue keys.                          *)
(*                                                                         *)
(* task[h][k] is the goroutine that round h launched for key k.  It holds  *)
(* the priority and the attempts of the moment h enumerated the queue.     *)
(***************************************************************************)
EXTENDS InMemQueue, Dispatch

CONSTANTS
  Waits,         \* times from now that clients give as NotBefore
  Rounds,        \* rounds of Handle that may overlap
  MaxQueues,     \* bound: calls of Queue
  MaxAttempts    \* bound: attempts after which callbacks stop asking for more

ASSUME BoundAssumption ==
  /\ Waits \subseteq Nat
  /\ MaxQueues \in Nat
  /\ MaxAttempts \in Nat \ {0}

VARIABLES
  task,      \* task[h][k]: a goroutine, idle when h did not launch k
  queues,    \* calls of Queue so far, at most MaxQueues
  unserved,  \* auxiliary: keys queued or requeued since their last callback began
  due,       \* auxiliary: due[k]: the most that was asked of k since then
  settled    \* auxiliary: no round enumerated between a launch and its Start

history == <<unserved, due, settled>>
vars == <<queueVars, task, queues, history>>

Idle == [pc |-> "idle", prio |-> 0, attempts |-> 0]

Running(h, k) == task[h][k].pc = "running"

\* The highest priority, and what is left of the longest delay of a requeue.
NothingDue == [prio |-> 0, wait |-> 0]
MoreDue(k, prio, wait) ==
  [due EXCEPT ![k] = IF k \in unserved
                     THEN [prio |-> Larger(@.prio, prio), wait |-> Larger(@.wait, wait)]
                     ELSE [prio |-> prio, wait |-> wait]]

Init ==
  /\ QueueInit
  /\ task = [h \in Rounds |-> [k \in Keys |-> Idle]]
  /\ queues = 0
  /\ unserved = {}
  /\ due = [k \in Keys |-> NothingDue]
  /\ settled = TRUE

-----------------------------------------------------------------------------
(* A client of the interface queues k, at once or not before a while (the   *)
(* gRPC service of this binary gives no NotBefore).                        *)
Enqueue(k, prio, wait) ==
  /\ queues < MaxQueues
  /\ queues' = queues + 1
  /\ Queue(k, prio, wait)
  /\ unserved' = unserved \union {k}
  /\ due' = MoreDue(k, prio, 0)
  /\ UNCHANGED <<task, settled>>

(* HandleAsync: enumerate, and launch one goroutine per chosen key.  No    *)
(* key in progress is ever orphaned in memory, so all of wip is active.    *)
HandleAsync(h) ==
  /\ \A k \in Keys : task[h][k] = Idle
  /\ \E L \in Launches(Ready, wip, Before) :
       /\ L # {}
       /\ task' = [task EXCEPT ![h] = [k \in Keys |->
                     IF k \in L THEN [pc |-> "launched", prio |-> item[k].prio,
                                      attempts |-> item[k].attempts]
                                ELSE Idle]]
  /\ settled' = (settled /\ \A g \in Rounds, k \in Keys : task[g][k].pc # "launched")
  /\ UNCHANGED <<queueVars, queues, unserved, due>>

(* The goroutine's Start succeeds and its callback begins, with the        *)
(* attempts it enumerated plus one.                                        *)
Begin(h, k) ==
  /\ task[h][k].pc = "launched"
  /\ Start(k)
  /\ task' = [task EXCEPT ![h][k].pc = "running", ![h][k].attempts = @ + 1]
  /\ unserved' = unserved \ {k}
  /\ due' = [due EXCEPT ![k] = NothingDue]
  /\ UNCHANGED <<queues, settled>>

(* Start fails: somebody else has started the key. *)
Skip(h, k) ==
  /\ task[h][k].pc = "launched"
  /\ StartFails(k)
  /\ task' = [task EXCEPT ![h][k] = Idle]
  /\ UNCHANGED <<queueVars, queues, history>>

(* The callback returns and the goroutine deals with its key. *)
Finish(h, k, result) ==
  /\ Running(h, k)
  /\ LET t == task[h][k]
         d == Disposition(result, t.attempts)
         again == d \in {"requeue", "requeueAfter"}
         delay == IF d = "requeueAfter" THEN RequeueDelay ELSE 0 IN
       /\ again => t.attempts < MaxAttempts
       /\ \/ d = "complete" /\ Complete(k)
          \/ d = "deadletter" /\ Deadletter(k)
          \/ again /\ RequeueWithOptions(k, t.prio, t.attempts, delay)
       /\ unserved' = IF again THEN unserved \union {k} ELSE unserved
       /\ due' = IF again THEN MoreDue(k, t.prio, RequeueWait(t.prio, t.attempts, delay))
                          ELSE due
  /\ task' = [task EXCEPT ![h][k] = Idle]
  /\ UNCHANGED <<queues, settled>>

Tick ==
  /\ \E k \in queue : item[k].wait > 0
  /\ QueueTick
  /\ due' = [k \in Keys |-> [due[k] EXCEPT !.wait = IF @ = 0 THEN 0 ELSE @ - 1]]
  /\ UNCHANGED <<task, queues, unserved, settled>>

Step(h) ==
  \/ HandleAsync(h)
  \/ \E k \in Keys : Begin(h, k) \/ Skip(h, k) \/ \E r \in Results : Finish(h, k, r)

Next ==
  \/ \E k \in Keys, prio \in Priorities, wait \in Waits : Enqueue(k, prio, wait)
  \/ \E h \in Rounds : Step(h)
  \/ Tick

Spec == Init /\ [][Next]_vars

(***************************************************************************)
(* Fairness: rounds keep starting, goroutines run, callbacks return, time  *)
(* passes.  The choice of what a callback returns is not fair.             *)
(***************************************************************************)
Fairness ==
  /\ WF_vars(Tick)
  /\ \A h \in Rounds :
       /\ WF_vars(HandleAsync(h))
       /\ \A k \in Keys : WF_vars(Begin(h, k) \/ Skip(h, k) \/ \E r \in Results : Finish(h, k, r))

FairSpec == Spec /\ Fairness

-----------------------------------------------------------------------------
Attempts == 0..MaxAttempts

TypeOK ==
  /\ QueueTypeOK(Attempts)
  /\ task \in [Rounds -> [Keys -> [pc : {"idle", "launched", "running"},
                                   prio : Priorities \union {0}, attempts : Attempts]]]
  /\ queues \in 0..MaxQueues
  /\ unserved \subseteq Keys
  /\ due \in [Keys -> [prio : Priorities \union {0}, wait : Nat]]
  /\ settled \in BOOLEAN

\* A key is in progress exactly while one goroutine runs its callback: two
\* rounds that enumerated the same key, however late their goroutines call
\* Start, never both process it, and no key stays in wip without an owner
\* (nothing would ever take it out: IsOrphaned is always false in memory).
OneOwnerPerKey ==
  /\ \A k \in Keys : k \in wip <=> \E h \in Rounds : Running(h, k)
  /\ \A k \in Keys, g, h \in Rounds : Running(g, k) /\ Running(h, k) => g = h

\* A key queued at any moment, also while its callback runs, and a key whose
\* callback asked for another try, stay queued until a callback begins for
\* them: neither a late goroutine nor a requeue that meets a queued duplicate
\* drops one.
NoLostWork == unserved \subseteq queue

\* What was asked of a key holds until its callback begins, whoever asks for
\* something less in between: a requeue that meets an item queued meanwhile
\* keeps its priority, a Queue call that meets a requeued item keeps the delay
\* or the backoff (interface.go 47: "Delay is an optional duration to wait
\* before processing the key"), and neither lowers what the other gave.
OptionsKept ==
  \A k \in unserved : item[k].prio >= due[k].prio /\ item[k].wait >= due[k].wait

\* Every queued key gets a callback, once clients stop queueing.
EveryKeyServed == \A k \in Keys : k \in unserved ~> k \notin unserved

\* The goroutines of all rounds together stay within Concurrency as long as
\* no round enumerates while a goroutine of another has not yet called Start:
\* that window is the only way past the limit (dispatcher.go 77-98).
WithinConcurrencyWhenSettled ==
  settled => Cardinality({p \in Rounds \X Keys : task[p[1]][p[2]] # Idle}) <= Concurrency

\* The promise of interface.go, with the round that runs a key as its owner.
Promise == INSTANCE WorkQueue WITH
  queued <- queue, inProgress <- wip, Owners <- Rounds,
  owns <- {p \in Rounds \X Keys : Running(p[1], p[2])}

\* The two key sets behave as interface.go promises although neither records
\* an owner: only the round whose Start took a key ever takes it out of wip.
ImplementsWorkQueue == Promise!Spec
=============================================================================
