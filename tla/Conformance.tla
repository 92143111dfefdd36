---------------------------- MODULE Conformance ----------------------------
(***************************************************************************)
(* pkg/workqueue/conformance: the tests every implementation of the        *)
(* workqueue has to pass, run on the models of both: InMemQueue and        *)
(* GcsQueue.  A test is a script of calls and checks, made one after the   *)
(* other.  Both queues get the same calls side by side; a call of the one  *)
(* in the bucket takes several steps, and the next waits for its end.      *)
(*                                                                         *)
(* Beside the scripts of the suite there is any sequence of up to MaxCalls *)
(* calls, which ought to leave the two queues with the same content.  One  *)
(* call is left out there, as they differ on it: Queue with a priority     *)
(* above and a NotBefore after those of the queued key, of which the one   *)
(* in memory drops the NotBefore.                                          *)
(*                                                                         *)
(* "foo" and "bar" are the keys 1 and 2, the priorities 1000 and 1001 are  *)
(* 1 and 2, and delays are counted in BackoffPeriods.  The suite's checks  *)
(* of contexts and the heartbeats, which are slower than it, are left out. *)
(***************************************************************************)
EXTENDS Naturals, Sequences, FiniteSets

CONSTANTS
  Limit,     \* concurrency of the queues under test, 5 in the suite
  MaxCalls,  \* bound: calls of the tests that are not of the suite
  AnyKeys, Priorities, Waits   \* what these calls are about

foo == 1
bar == 2
Keys == 1..(5 * Limit)

VARIABLES
  queue, item, older, wip,                        \* the queue in memory
  queued, inProgress, deadLetter, caller, job,    \* the queue in the bucket
  owned,     \* priority and attempts of the OwnedInProgressKeys in memory
  earlier,   \* earlier[k]: queued objects created before queued/k
  script,    \* what the test is still to do
  phase,     \* "test" of the suite, "drain" after it, "any" other calls, "done"
  calls      \* calls still to come in phase "any"

BackoffPeriod == 1
MaximumBackoff == 2 * BackoffPeriod

Mem == INSTANCE InMemQueue WITH RequeueDelay <- 1

Gcs == INSTANCE GcsQueue WITH Callers <- {"test"}, Rounds <- {"test"}, RequeueDelay <- 1,
         Lease <- 3, MaxMeta <- 1, MaxAttempts <- 4 + MaxCalls

ASSUME ConformanceAssumption ==
  /\ Limit \in Nat \ {0, 1}   \* most tests have two keys queued
  /\ MaxCalls \in Nat
  /\ AnyKeys \subseteq Keys /\ Waits \subseteq Nat
  /\ Priorities \subseteq 0..(Gcs!Unpadded - 1)   \* what the padding has room for

memVars == <<queue, item, older, wip, owned>>
bucketVars == <<queued, inProgress, deadLetter, caller, job, earlier>>
testVars == <<script, phase, calls>>
vars == <<memVars, bucketVars, testVars>>

-----------------------------------------------------------------------------
(* The steps of a script. *)

Queue(k, prio, wait) == [do |-> "Queue", key |-> k, prio |-> prio, wait |-> wait]
Start(k) == [do |-> "Start", key |-> k]
Requeue(k) == [do |-> "Requeue", key |-> k]
RequeueAfter(k) == [do |-> "RequeueAfter", key |-> k]
Recover(k) == [do |-> "Recover", key |-> k]   \* Requeue of an ObservedInProgressKey
Complete(k) == [do |-> "Complete", key |-> k]
Deadletter(k) == [do |-> "Deadletter", key |-> k]
Sleep == [do |-> "Sleep"]
Check(inWork, list) == [do |-> "Check", inWork |-> inWork, list |-> list]
Attempts(k, n) == [do |-> "Attempts", key |-> k, n |-> n]

(* conformance.go *)

SimpleQueueOrdering ==
  << Queue(foo, 0, 0), Check({}, <<foo>>),
     Queue(bar, 0, 0), Check({}, <<foo, bar>>) >>

MoreThanConcurrency ==
  [i \in 1..(5 * Limit) |-> Queue(i, 0, 0)] \o << Check({}, [i \in 1..Limit |-> i]) >>

SimpleDeduplication ==
  << Queue(foo, 0, 0), Check({}, <<foo>>),
     Queue(foo, 0, 0), Check({}, <<foo>>) >>

PriorityOrdering ==
  << Queue(foo, 0, 0), Check({}, <<foo>>),
     Queue(bar, 0, 0), Check({}, <<foo, bar>>),
     Queue(bar, 1, 0), Check({}, <<bar, foo>>),
     Queue(foo, 1, 0), Check({}, <<foo, bar>>),
     Queue(bar, 2, 0), Check({}, <<bar, foo>>) >>

StartAndComplete ==
  << Queue(foo, 0, 0), Check({}, <<foo>>),
     Start(foo), Check({foo}, <<>>),
     Complete(foo), Check({}, <<>>) >>

StartAndRequeue ==
  << Queue(foo, 0, 0), Queue(bar, 0, 0), Check({}, <<foo, bar>>),
     Start(foo), Check({foo}, <<bar>>),
     Requeue(foo), Check({}, <<bar, foo>>) >>

StartAndQueue ==
  << Queue(foo, 0, 0), Check({}, <<foo>>),
     Start(foo), Queue(foo, 0, 0), Check({foo}, <<foo>>) >>

StartQueueAndRequeueWithPriority ==
  << Queue(foo, 1, 0), Queue(bar, 0, 0), Check({}, <<foo, bar>>),
     Start(foo), Queue(foo, 0, 0), Check({foo}, <<bar, foo>>),
     Requeue(foo), Check({}, <<bar>>),
     Sleep, Check({}, <<foo, bar>>) >>

SimpleNotBefore ==
  << Queue(foo, 0, 1), Check({}, <<>>),
     Sleep, Check({}, <<foo>>),
     Queue(foo, 0, 1), Check({}, <<>>),
     Queue(foo, 0, 2), Check({}, <<>>),
     Sleep, Check({}, <<>>),
     Sleep, Check({}, <<foo>>) >>

NotBeforeWithPriorities ==
  << Queue(foo, 0, 0), Check({}, <<foo>>),
     Queue(bar, 1, 1), Check({}, <<foo>>),
     Sleep, Check({}, <<bar, foo>>) >>

RequeueKeepsNotBefore ==
  << Queue(foo, 0, 0), Check({}, <<foo>>),
     Start(foo), Check({foo}, <<>>),
     Queue(foo, 0, 1), Check({foo}, <<>>),
     Requeue(foo), Check({}, <<>>),
     Sleep, Check({}, <<foo>>) >>

PriorityBackoff ==
  << Queue(foo, 1, 0), Check({}, <<foo>>),
     Start(foo), Check({foo}, <<>>), Requeue(foo), Check({}, <<>>),
     Sleep, Check({}, <<foo>>),
     Start(foo), Check({foo}, <<>>), Requeue(foo), Check({}, <<>>),
     Sleep, Check({}, <<>>), Sleep, Check({}, <<foo>>),
     Start(foo), Check({foo}, <<>>), Requeue(foo), Check({}, <<>>),
     Sleep, Sleep, Check({}, <<foo>>) >>

MaxRetryWithFail ==
  << Queue(foo, 1, 0), Check({}, <<foo>>),
     Start(foo), Check({foo}, <<>>), Attempts(foo, 1), Requeue(foo), Check({}, <<>>),
     Sleep, Check({}, <<foo>>),
     Start(foo), Check({foo}, <<>>), Attempts(foo, 2), Deadletter(foo), Check({}, <<>>),
     Sleep, Sleep, Check({}, <<>>) >>

TestSemantics ==
  { SimpleQueueOrdering, MoreThanConcurrency, SimpleDeduplication, PriorityOrdering,
    StartAndComplete, StartAndRequeue, StartAndQueue, StartQueueAndRequeueWithPriority,
    SimpleNotBefore, NotBeforeWithPriorities, RequeueKeepsNotBefore, PriorityBackoff }
TestMaxRetry == { MaxRetryWithFail }

-----------------------------------------------------------------------------
(* Enumerate: the first Limit of S, those with fewest before them first. *)
Listed(S, before) ==
  [i \in 1..Mem!Smaller(Limit, Cardinality(S)) |->
     CHOOSE k \in S : Cardinality({j \in S : <<j, k>> \in before}) = i - 1]

MemBefore == Mem!Before \intersect (Mem!Ready \X Mem!Ready)
MemList == Listed(Mem!Ready, MemBefore)

\* Of equal priorities in the bucket, the object created first.
GcsReady == {k \in Keys : queued[k].exists /\ queued[k].meta.wait = 0}
GcsBefore ==
  LET prio(k) == Gcs!Parsed(queued[k].meta.prio) IN
  {p \in GcsReady \X GcsReady :
     \/ prio(p[1]) > prio(p[2])
     \/ prio(p[1]) = prio(p[2]) /\ p[1] \in earlier[p[2]]}
GcsList == Listed(GcsReady, GcsBefore)
GcsWip == {k \in Keys : inProgress[k].gen > 0}

\* The goroutine that owns k, and one more for a Start that should fail.
Owner(k) == <<"test", k, "start">>
Starter(k) == IF job[Owner(k)].pc = "idle" THEN Owner(k) ELSE <<"test", k, "orphan">>

\* No call is under way.
Idle ==
  /\ caller["test"].pc = "idle"
  /\ \A g \in Gcs!Goroutines : job[g].pc \in {"idle", "running"}

NotOwned == [prio |-> 0, attempts |-> 0]

Init ==
  /\ Mem!QueueInit /\ owned = [k \in Keys |-> NotOwned]
  /\ Gcs!GcsInit /\ earlier = [k \in Keys |-> {}]
  /\ \/ script \in TestSemantics \union TestMaxRetry /\ phase = "test" /\ calls = 0
     \/ script = <<>> /\ phase = "any" /\ calls = MaxCalls

-----------------------------------------------------------------------------
(* One step of a test, on both queues. *)

CallQueue(s) ==
  /\ s.do = "Queue"
  /\ Mem!Queue(s.key, s.prio, s.wait)
  /\ Gcs!QueueCall("test", s.key, s.prio, s.wait)
  /\ UNCHANGED <<owned, earlier>>

\* Start of a listed key; in progress already, it is an error in both.
CallStart(s) ==
  /\ s.do = "Start"
  /\ IF Mem!StartFails(s.key) THEN UNCHANGED memVars
     ELSE /\ Mem!Start(s.key)
          /\ owned' = [owned EXCEPT ![s.key] =
               [prio |-> item[s.key].prio, attempts |-> item[s.key].attempts + 1]]
  /\ LET meta == queued[s.key].meta IN
       job' = [job EXCEPT ![Starter(s.key)] =
         [Gcs!NoJob EXCEPT !.pc = "startCopy", !.prio = meta.prio, !.attempts = meta.attempts]]
  /\ UNCHANGED <<queued, inProgress, deadLetter, caller, earlier>>

\* The owner of a key is done with it.
Ends(k, pc, delay) ==
  /\ job' = [job EXCEPT ![Owner(k)].pc = pc, ![Owner(k)].live = FALSE, ![Owner(k)].delay = delay]
  /\ owned' = [owned EXCEPT ![k] = NotOwned]
  /\ UNCHANGED <<queued, inProgress, deadLetter, caller, earlier>>

CallEnd(s) ==
  \/ s.do = "Complete" /\ Mem!Complete(s.key) /\ Ends(s.key, "complete", 0)
  \/ s.do = "Deadletter" /\ Mem!Deadletter(s.key) /\ Ends(s.key, "deadletter", 0)
  \/ /\ s.do = "Requeue"
     /\ Mem!RequeueWithOptions(s.key, owned[s.key].prio, owned[s.key].attempts, 0)
     /\ Ends(s.key, "requeue", 0)
  \/ /\ s.do = "RequeueAfter"
     /\ Mem!RequeueWithOptions(s.key, owned[s.key].prio, owned[s.key].attempts, 1)
     /\ Ends(s.key, "requeue", 1)
  \/ /\ s.do = "Recover"   \* in memory an observed key has no options
     /\ Mem!RequeueWithOptions(s.key, 0, 0, 0)
     /\ Ends(s.key, "requeue", 0)

\* time.Sleep(delay), and what only looks.
CallSleep(s) == s.do = "Sleep" /\ Mem!QueueTick /\ Gcs!GcsTick /\ UNCHANGED <<owned, earlier>>
CallLook(s) == s.do \in {"Check", "Attempts"} /\ UNCHANGED <<memVars, bucketVars>>

Call(s) == CallQueue(s) \/ CallStart(s) \/ CallEnd(s) \/ CallSleep(s) \/ CallLook(s)

\* The next step of the script.
Step ==
  /\ Idle /\ script # <<>>
  /\ Call(Head(script))
  /\ script' = Tail(script)
  /\ UNCHANGED <<phase, calls>>

\* A sequence of the elements of S.
AsSeq(S) == Listed(S, {p \in S \X S : p[1] < p[2]})

(* One round of drain: requeue what is in progress, start and complete     *)
(* what is queued, until there is neither.                                 *)
Drain ==
  /\ Idle /\ script = <<>> /\ phase \in {"test", "drain"}
  /\ LET inWork == AsSeq(wip \union GcsWip)
         recover == [i \in DOMAIN inWork |-> Recover(inWork[i])]
         process == [i \in 1..(2 * Len(MemList)) |->
            IF i % 2 = 1 THEN Start(MemList[(i + 1) \div 2]) ELSE Complete(MemList[i \div 2])]
     IN script' = recover \o process
  /\ phase' = IF script' = <<>> THEN "done" ELSE "drain"
  /\ UNCHANGED <<memVars, bucketVars, calls>>

\* Queue with a higher priority and a later NotBefore than the queued key has.
Dropped(s) == s.key \in queue /\ s.prio > item[s.key].prio /\ s.wait > item[s.key].wait

\* The calls a test may make.
Legal ==
  {s \in {Queue(k, prio, wait) : k \in AnyKeys, prio \in Priorities, wait \in Waits} : ~Dropped(s)}
  \union {Start(k) : k \in Mem!Ready}
  \union (UNION {{Requeue(k), RequeueAfter(k), Complete(k), Deadletter(k)} : k \in wip})
  \union {Sleep}

AnyCall ==
  /\ Idle /\ phase = "any" /\ calls > 0
  /\ \E s \in Legal : Call(s)
  /\ calls' = calls - 1
  /\ UNCHANGED <<script, phase>>

\* A call to the bucket, of the call under way.
Work ==
  /\ \/ Gcs!QueueCreate("test") \/ Gcs!QueueRead("test") \/ Gcs!QueueWrite("test")
     \/ \E g \in Gcs!Goroutines :
          \/ Gcs!StartCopy(g) \/ Gcs!StartDelete(g)
          \/ Gcs!CompleteDeadLetter(g) \/ Gcs!DeadletterCopy(g) \/ Gcs!DeleteOwn(g)
          \/ Gcs!RequeueCopy(g) \/ Gcs!RequeueRead(g) \/ Gcs!RequeueWrite(g)
  /\ LET old == {k \in Keys : queued[k].exists}
         now == {k \in Keys : queued'[k].exists} IN
     earlier' = [k \in Keys |-> IF k \notin now THEN {}
                                ELSE IF k \in old THEN earlier[k] \intersect now
                                ELSE old \intersect now]
  /\ UNCHANGED <<memVars, testVars>>

\* The test is over.
Ended == phase = "done" \/ (phase = "any" /\ calls = 0 /\ Idle)
Over == Ended /\ UNCHANGED vars

Next == Step \/ Drain \/ AnyCall \/ Work \/ Over

Spec == Init /\ [][Next]_vars

-----------------------------------------------------------------------------
\* checkQueue and GetAttempts: every check of every test holds of the queue in
\* memory.
SuitePasses ==
  Idle /\ script # <<>> => LET s == Head(script) IN
    /\ s.do = "Check" => s.inWork = wip /\ s.list = MemList
    /\ s.do = "Attempts" => owned[s.key].attempts = s.n

\* The tests run against both implementations: whatever is called, one call
\* after the other, they list the same keys in the same order, have the same in
\* progress and count the same attempts of their owners.
SameContent ==
  Idle =>
    /\ GcsWip = wip
    /\ GcsList = MemList
    /\ \A k \in wip : owned[k].attempts # 0 => job[Owner(k)].attempts = owned[k].attempts
=============================================================================
