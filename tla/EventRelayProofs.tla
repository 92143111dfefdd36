-------------------------- MODULE EventRelayProofs --------------------------
(***************************************************************************)
(* What was answered 200 is kept, for any events, payloads, options of the *)
(* trampoline, retries, copies and failures.                               *)
(*                                                                         *)
(* A copy leaves a subscription in three ways: for a dead letter, for a    *)
(* handled event, or for a queued key; and a key leaves the queue when its *)
(* callback begins, which has seen every event accepted by then.  A dead   *)
(* letter goes only when it was published again, to every subscription     *)
(* that wants it.  So AcceptedIsKept is inductive with the types.          *)
(*                                                                         *)
(* The workqueue between them is used as promised, and what the promise    *)
(* gives its users, one owner for a key, holds here.                       *)
(***************************************************************************)
EXTENDS EventRelay, TLAPS

\* What subscribers queue are keys: only messages with one are on their
\* subscription, or were dead-lettered there.
OnlyKeys ==
  \A e \in Events : waiting["workqueue"][e] > 0 \/ dead["workqueue"][e] > 0 => KeyOf(e) # NoKey

IInv == TypeOK /\ OnlyKeys

\* An event has a key of a resource, or none.
LEMMA KeyIsKey ==
  ASSUME NEW e \in Events, payload[e] \in PayloadsOf(e)
  PROVE  KeyOf(e) \in Keys \union {NoKey}
<1>1. CASE e \in Notifications
  BY <1>1 DEF KeyOf
<1>2. CASE e \notin Notifications
  <2> DEFINE p == payload[e]
  <2>1. p.number \in Numbers \union {0} /\ p.checks \in Seq(Numbers)
    BY <1>2, PayloadAssumption DEF Events, PayloadsOf
  <2>2. p.checks # <<>> => p.checks[1] \in Numbers
    BY <2>1
  <2>3. IssueURL(p) \in Keys \union {NoKey}
    BY <2>1 DEF IssueURL, Keys
  <2>4. PullRequestURL(p) \in Keys \union {NoKey}
    BY <2>1, <2>2 DEF PullRequestURL, Keys
  <2> QED
    BY <1>2, <2>3, <2>4 DEF KeyOf
<1> QED
  BY <1>1, <1>2

-----------------------------------------------------------------------------
(* Types *)

\* Publishing where there is room keeps the counts in their bounds.
LEMMA PublishType ==
  ASSUME TypeOK, OnlyKeys, NEW e \in Events, Room(e), Publish(e)
  PROVE  /\ waiting' \in [Subscriptions -> [Events -> 0..MaxCopies]]
         /\ \A d \in Events : waiting'["workqueue"][d] > 0 =>
              waiting["workqueue"][d] > 0 \/ KeyOf(d) # NoKey
<1>1. \A s \in Subscriptions : waiting[s] \in [Events -> 0..MaxCopies] /\ waiting[s][e] + 1 \in 0..MaxCopies
  BY RelayAssumption DEF TypeOK, Room
<1>2. waiting' = [s \in Subscriptions |->
                   IF Wants(s, e) THEN [waiting[s] EXCEPT ![e] = @ + 1] ELSE waiting[s]]
  BY DEF Publish
<1>3. waiting' \in [Subscriptions -> [Events -> 0..MaxCopies]]
  BY <1>1, <1>2
<1>4. waiting'["workqueue"] = IF KeyOf(e) # NoKey THEN [waiting["workqueue"] EXCEPT ![e] = @ + 1]
                              ELSE waiting["workqueue"]
  BY <1>2 DEF Wants, Subscriptions
<1>5. waiting["workqueue"] \in [Events -> 0..MaxCopies]
  BY <1>1 DEF Subscriptions
<1> QED
  BY <1>3, <1>4, <1>5

\* So does what becomes of a message after its answer.
LEMMA AnswerType ==
  ASSUME TypeOK, OnlyKeys, NEW s \in Subscriptions, NEW e \in Events, waiting[s][e] > 0,
         Acked(s, e) \/ Nacked(s, e)
  PROVE  /\ waiting' \in [Subscriptions -> [Events -> 0..MaxCopies]]
         /\ dead' \in [Subscriptions -> [Events -> 0..MaxCopies]]
         /\ \A d \in Events :
              waiting'["workqueue"][d] > 0 \/ dead'["workqueue"][d] > 0 =>
                waiting["workqueue"][d] > 0 \/ dead["workqueue"][d] > 0
<1>1. /\ waiting \in [Subscriptions -> [Events -> 0..MaxCopies]]
      /\ dead \in [Subscriptions -> [Events -> 0..MaxCopies]]
      /\ MaxCopies \in Nat
  BY RelayAssumption DEF TypeOK
<1>2. CASE Acked(s, e)
  BY <1>1, <1>2 DEF Acked, Subscriptions
<1>3. CASE Nacked(s, e)
  BY <1>1, <1>3 DEF Nacked, topic, Subscriptions
<1> QED
  BY <1>2, <1>3

LEMMA InitTypes == Init => IInv
<1> SUFFICES ASSUME Init PROVE IInv
  OBVIOUS
<1>1. Work!TypeOK
  BY DEF Init, Work!TypeOK
<1>2. \A e \in Events : payload[e] \in PayloadsOf(e)
  BY DEF Init
<1>3. TypeOK
  BY <1>1, <1>2, RelayAssumption DEF Init, TypeOK
<1>4. OnlyKeys
  BY DEF Init, OnlyKeys, Subscriptions
<1> QED
  BY <1>3, <1>4 DEF IInv

\* No step changes an event, nor its key.
LEMMA SamePayload == [Next]_vars => payload' = payload
<1> SUFFICES ASSUME [Next]_vars PROVE payload' = payload
  OBVIOUS
<1>1. CASE UNCHANGED vars
  BY <1>1 DEF vars
<1>2. ASSUME NEW e \in Events, Forward(e) \/ RedeliverByHand(e) \/ Push(e) \/ PushKey(e)
      PROVE  payload' = payload
  BY <1>2 DEF Forward, Receive, SendSucceeds, SendFails, NotifyAgain, RedeliverByHand,
              Push, BotIgnores, BotHandles, BotFails, PushKey, SubscriberQueues, SubscriberFails
<1>3. ASSUME NEW e \in Events, NEW s \in Subscriptions, Replay(s, e) PROVE payload' = payload
  BY <1>3 DEF Replay
<1>4. ASSUME NEW k \in Keys, Callback(k) \/ \E w \in Owners : RetryCallback(k, w)
      PROVE  payload' = payload
  BY <1>4 DEF Callback, StartCallback, EndCallback, RetryCallback
<1> QED
  BY <1>1, <1>2, <1>3, <1>4 DEF Next

LEMMA SameKey ==
  ASSUME payload' = payload, NEW e \in Events
  PROVE  KeyOf(e)' = KeyOf(e)
BY DEF KeyOf, IssueURL, PullRequestURL

\* The work of the trampoline.
LEMMA ForwardTypes ==
  ASSUME IInv, NEW e \in Events, Forward(e) \/ RedeliverByHand(e), payload' = payload
  PROVE  IInv'
<1> USE DEF IInv
<1>0. \A d \in Events : KeyOf(d)' = KeyOf(d)
  BY SameKey
<1>1. MaxRetry \in Nat /\ MaxFailures \in Nat
  BY RelayAssumption
<1>2. \A d \in Events : (payload[d] \in PayloadsOf(d))'
  BY DEF TypeOK, PayloadsOf
<1>3. ASSUME UNCHANGED <<topic, queue>> PROVE OnlyKeys' /\ Work!TypeOK'
  BY <1>0, <1>3 DEF OnlyKeys, TypeOK, Work!TypeOK, topic, queue
<1>4. ASSUME Publish(e) \/ UNCHANGED waiting, Room(e), UNCHANGED <<dead, queue>>
      PROVE  OnlyKeys' /\ Work!TypeOK' /\ waiting' \in [Subscriptions -> [Events -> 0..MaxCopies]]
  BY <1>0, <1>4, PublishType DEF OnlyKeys, TypeOK, Work!TypeOK, queue
<1>5. CASE Receive(e)
  <2>1. PICK v \in {"refused", "ignored", "sending"} :
          Answer(e, v) /\ tries' = [tries EXCEPT ![e] = IF v = "sending" THEN MaxRetry ELSE 0]
    BY <1>5 DEF Receive, Verdict
  <2> QED
    BY <1>1, <1>2, <1>3, <1>5, <2>1 DEF Receive, Answer, TypeOK, topic
<1>6. CASE SendSucceeds(e)
  BY <1>1, <1>2, <1>4, <1>6 DEF SendSucceeds, Answer, TypeOK
<1>7. CASE SendFails(e)
  <2>1. /\ waiting' \in [Subscriptions -> [Events -> 0..MaxCopies]]
        /\ OnlyKeys' /\ Work!TypeOK'
    BY <1>4, <1>7 DEF SendFails
  <2>2. tries' \in [Events -> 0..MaxRetry]
    BY <1>1, <1>7 DEF SendFails, TypeOK
  <2>3. /\ request' \in [Events -> {"due", "sending", "accepted", "failed", "ignored", "refused"}]
        /\ failures' \in 0..MaxFailures
    BY <1>1, <1>7 DEF SendFails, Fail, Answer, TypeOK
  <2> QED
    BY <1>2, <1>7, <2>1, <2>2, <2>3 DEF SendFails, TypeOK
<1>8. CASE NotifyAgain(e)
  BY <1>2, <1>3, <1>8 DEF NotifyAgain, Answer, TypeOK, topic
<1>9. CASE RedeliverByHand(e)
  BY <1>1, <1>2, <1>3, <1>9 DEF RedeliverByHand, Fail, Answer, TypeOK, topic
<1> QED
  BY <1>5, <1>6, <1>7, <1>8, <1>9 DEF Forward

\* The answers of the bot and of the subscriber.
LEMMA PushTypes ==
  ASSUME IInv, NEW e \in Events, Push(e) \/ PushKey(e), payload' = payload
  PROVE  IInv'
<1> USE DEF IInv
<1>0. \A d \in Events : KeyOf(d)' = KeyOf(d)
  BY SameKey
<1>1. MaxFailures \in Nat
  BY RelayAssumption
<1>2. \A d \in Events : (payload[d] \in PayloadsOf(d))'
  BY DEF TypeOK, PayloadsOf
<1>3. ASSUME NEW s \in Subscriptions, waiting[s][e] > 0, Acked(s, e) \/ Nacked(s, e)
      PROVE  /\ OnlyKeys'
             /\ waiting' \in [Subscriptions -> [Events -> 0..MaxCopies]]
             /\ dead' \in [Subscriptions -> [Events -> 0..MaxCopies]]
  BY <1>0, <1>3, AnswerType DEF OnlyKeys
<1>4. ASSUME waiting["workqueue"][e] > 0, Work!Queue(KeyOf(e)) \/ UNCHANGED queue
      PROVE  Work!TypeOK'
  <2>1. KeyOf(e) \in Keys
    BY <1>4, KeyIsKey DEF OnlyKeys, TypeOK
  <2> QED
    BY <1>4, <2>1 DEF TypeOK, Work!TypeOK, Work!Queue, queue
<1>5. UNCHANGED queue => Work!TypeOK'
  BY DEF TypeOK, Work!TypeOK, queue
<1>6. "bot" \in Subscriptions /\ "workqueue" \in Subscriptions
  BY DEF Subscriptions
<1>7. CASE BotIgnores(e)
  BY <1>2, <1>3, <1>5, <1>6, <1>7 DEF BotIgnores, TypeOK
<1>8. CASE BotHandles(e)
  BY <1>2, <1>3, <1>5, <1>6, <1>8 DEF BotHandles, TypeOK
<1>9. CASE BotFails(e)
  BY <1>1, <1>2, <1>3, <1>5, <1>6, <1>9 DEF BotFails, Fail, TypeOK
<1>10. CASE SubscriberQueues(e)
  BY <1>2, <1>3, <1>4, <1>6, <1>10 DEF SubscriberQueues, TypeOK
<1>11. CASE SubscriberFails(e)
  BY <1>1, <1>2, <1>3, <1>4, <1>6, <1>11 DEF SubscriberFails, Fail, TypeOK
<1> QED
  BY <1>7, <1>8, <1>9, <1>10, <1>11 DEF Push, PushKey

\* The replayer.
LEMMA ReplayTypes ==
  ASSUME IInv, NEW e \in Events, NEW s \in Subscriptions, Replay(s, e), payload' = payload
  PROVE  IInv'
<1> USE DEF IInv
<1>0. \A d \in Events : KeyOf(d)' = KeyOf(d)
  BY SameKey
<1>1. \A d \in Events : (payload[d] \in PayloadsOf(d))'
  BY DEF TypeOK, PayloadsOf
<1>2. /\ waiting' \in [Subscriptions -> [Events -> 0..MaxCopies]]
      /\ \A d \in Events : waiting'["workqueue"][d] > 0 =>
           waiting["workqueue"][d] > 0 \/ KeyOf(d) # NoKey
  BY PublishType DEF Replay, topic, TypeOK
<1>3. /\ dead' \in [Subscriptions -> [Events -> 0..MaxCopies]]
      /\ \A d \in Events : dead'["workqueue"][d] > 0 => dead["workqueue"][d] > 0
  BY RelayAssumption DEF Replay, topic, TypeOK, Subscriptions
<1>4. OnlyKeys'
  BY <1>0, <1>2, <1>3 DEF OnlyKeys
<1>5. Work!TypeOK'
  BY DEF Replay, TypeOK, Work!TypeOK, queue
<1> QED
  BY <1>1, <1>2, <1>3, <1>4, <1>5, RelayAssumption DEF Replay, Fail, TypeOK

\* The workqueue.
LEMMA CallbackTypes ==
  ASSUME IInv, NEW k \in Keys, Callback(k) \/ \E w \in Owners : RetryCallback(k, w),
         payload' = payload
  PROVE  IInv'
<1> USE DEF IInv
<1>0. \A d \in Events : KeyOf(d)' = KeyOf(d)
  BY SameKey
<1>1. \A d \in Events : (payload[d] \in PayloadsOf(d))'
  BY DEF TypeOK, PayloadsOf
<1>2. UNCHANGED topic => OnlyKeys'
  BY <1>0 DEF OnlyKeys, topic
<1>3. ASSUME NEW w \in Owners, Work!Start(k, w) \/ Work!Finish(k, w) \/ Work!Requeue(k, w)
      PROVE  Work!TypeOK'
  BY <1>3 DEF TypeOK, Work!TypeOK, Work!Start, Work!Finish, Work!Requeue
<1>4. ASSUME NEW w \in Owners, StartCallback(k, w) PROVE IInv'
  BY <1>1, <1>2, <1>3, <1>4 DEF StartCallback, TypeOK, topic, Events
<1>5. ASSUME NEW w \in Owners, EndCallback(k, w) PROVE IInv'
  BY <1>1, <1>2, <1>3, <1>5 DEF EndCallback, TypeOK, topic
<1>6. ASSUME NEW w \in Owners, RetryCallback(k, w) PROVE IInv'
  BY <1>1, <1>2, <1>3, <1>6, RelayAssumption DEF RetryCallback, Fail, TypeOK, topic
<1> QED
  BY <1>4, <1>5, <1>6 DEF Callback

LEMMA StepTypes == IInv /\ [Next]_vars => IInv'
<1> SUFFICES ASSUME IInv, [Next]_vars PROVE IInv'
  OBVIOUS
<1>0. payload' = payload
  BY SamePayload
<1>1. CASE UNCHANGED vars
  BY <1>1 DEF IInv, vars, TypeOK, OnlyKeys, PayloadsOf, KeyOf, IssueURL, PullRequestURL, Work!TypeOK
<1>2. ASSUME NEW e \in Events, Forward(e) \/ RedeliverByHand(e) \/ Push(e) \/ PushKey(e)
      PROVE  IInv'
  BY <1>0, <1>2, ForwardTypes, PushTypes
<1>3. ASSUME NEW e \in Events, NEW s \in Subscriptions, Replay(s, e) PROVE IInv'
  BY <1>0, <1>3, ReplayTypes
<1>4. ASSUME NEW k \in Keys, Callback(k) \/ \E w \in Owners : RetryCallback(k, w) PROVE IInv'
  BY <1>0, <1>4, CallbackTypes
<1> QED
  BY <1>1, <1>2, <1>3, <1>4 DEF Next

\* TypeOK: services, subscriptions and the queue hold what they should, and the
\* bounds of the module are kept by its guards.
THEOREM TypeCorrect == Spec => []TypeOK
<1>1. IInv => TypeOK
  BY DEF IInv
<1> QED
  BY <1>1, InitTypes, StepTypes, PTL DEF Spec
-----------------------------------------------------------------------------
(* What was accepted is kept *)

KInv == IInv /\ AcceptedIsKept

LEMMA InitKept == Init => AcceptedIsKept
  BY DEF Init, AcceptedIsKept

\* Publishing e leaves a copy for whoever it is for, and takes none away.
LEMMA PublishKeeps ==
  ASSUME TypeOK, NEW e \in Events, Publish(e)
  PROVE  /\ \A s \in Subscriptions, d \in Events : waiting[s][d] > 0 => waiting'[s][d] > 0
         /\ \A s \in Subscriptions : Wants(s, e) => waiting'[s][e] > 0
<1>1. \A s \in Subscriptions : waiting[s] \in [Events -> 0..MaxCopies]
  BY DEF TypeOK
<1>2. \A s \in Subscriptions :
        waiting'[s] = IF Wants(s, e) THEN [waiting[s] EXCEPT ![e] = @ + 1] ELSE waiting[s]
  BY DEF Publish
<1>3. ASSUME NEW s \in Subscriptions, Wants(s, e) PROVE waiting'[s][e] > 0
  <2>1. waiting[s] \in [Events -> 0..MaxCopies] /\ waiting[s][e] \in Nat
    BY <1>1, RelayAssumption
  <2>2. waiting'[s] = [waiting[s] EXCEPT ![e] = waiting[s][e] + 1]
    BY <1>2, <1>3, Zenon
  <2> QED
    BY <2>1, <2>2
<1>4. ASSUME NEW s \in Subscriptions, NEW d \in Events, waiting[s][d] > 0
      PROVE  waiting'[s][d] > 0
  <2>1. waiting[s] \in [Events -> 0..MaxCopies]
    BY <1>1
  <2>2. CASE d = e /\ Wants(s, e)
    BY <1>3, <2>2
  <2>3. CASE ~Wants(s, e)
    BY <1>2, <1>4, <2>3, Zenon
  <2>4. CASE Wants(s, e) /\ d # e
    <3>1. waiting'[s] = [waiting[s] EXCEPT ![e] = waiting[s][e] + 1]
      BY <1>2, <2>4, Zenon
    <3> QED
      BY <1>4, <2>1, <2>4, <3>1
  <2> QED
    BY <2>2, <2>3, <2>4
<1> QED
  BY <1>3, <1>4

\* An event whose message is answered: only this copy may be gone, and it is
\* not when the message was refused.
LEMMA AnswerKeeps ==
  ASSUME TypeOK, NEW s \in Subscriptions, NEW e \in Events, waiting[s][e] > 0,
         Acked(s, e) \/ Nacked(s, e)
  PROVE  /\ \A r \in Subscriptions, d \in Events :
              (r # s \/ d # e) /\ Held(r, d) => Held(r, d)'
         /\ Nacked(s, e) => Held(s, e)'
<1>1. /\ waiting \in [Subscriptions -> [Events -> 0..MaxCopies]]
      /\ dead \in [Subscriptions -> [Events -> 0..MaxCopies]]
      /\ MaxCopies \in Nat
  BY RelayAssumption DEF TypeOK
<1>2. CASE Acked(s, e)
  <2>1. Nacked(s, e) => Held(s, e)'
    BY <1>1, <1>2 DEF Nacked, Acked, Held, topic
  <2>2. \A r \in Subscriptions, d \in Events : (r # s \/ d # e) /\ Held(r, d) => Held(r, d)'
    BY <1>1, <1>2 DEF Acked, Held
  <2> QED
    BY <2>1, <2>2
<1>3. CASE Nacked(s, e)
  BY <1>1, <1>3 DEF Nacked, Held, topic
<1> QED
  BY <1>2, <1>3

LEMMA ForwardKeeps ==
  ASSUME KInv, NEW e \in Events, Forward(e) \/ RedeliverByHand(e), payload' = payload
  PROVE  AcceptedIsKept'
<1> USE DEF KInv, IInv
<1>0. \A d \in Events : KeyOf(d)' = KeyOf(d)
  BY SameKey
<1>1. request \in [Events -> {"due", "sending", "accepted", "failed", "ignored", "refused"}]
  BY DEF TypeOK
<1>2. ASSUME UNCHANGED <<topic, queue, handled, seen>>,
             \A d \in Events : (request[d] = "accepted")' => request[d] = "accepted"
      PROVE  AcceptedIsKept'
  BY <1>0, <1>2 DEF AcceptedIsKept, KeptForQueue, KeptForBot, Held, topic, queue
<1>3. ASSUME Publish(e) \/ UNCHANGED waiting, UNCHANGED <<dead, queue, handled, seen>>,
             \A d \in Events \ {e} : (request[d] = "accepted")' => request[d] = "accepted",
             Publish(e) \/ request'[e] # "accepted"
      PROVE  AcceptedIsKept'
  <2>1. \A s \in Subscriptions, d \in Events : Held(s, d) => Held(s, d)'
    BY <1>3, PublishKeeps DEF Held
  <2>2. \A d \in Events \ {e} : request'[d] = "accepted" => KeptForQueue(d)' /\ KeptForBot(d)'
    BY <1>0, <1>3, <2>1 DEF AcceptedIsKept, KeptForQueue, KeptForBot, queue, Subscriptions
  <2>3. ASSUME Publish(e) PROVE KeptForQueue(e)' /\ KeptForBot(e)'
    <3>1. \A s \in Subscriptions : Wants(s, e) => Held(s, e)'
      BY <2>3, PublishKeeps DEF Held
    <3> QED
      BY <1>0, <3>1 DEF Wants, Subscriptions, KeptForQueue, KeptForBot
  <2> QED
    BY <1>3, <2>2, <2>3 DEF AcceptedIsKept
<1>4. CASE Receive(e)
  <2>1. PICK v \in {"refused", "ignored", "sending"} : Answer(e, v)
    BY <1>4 DEF Receive, Verdict
  <2> QED
    BY <1>1, <1>2, <1>4, <2>1 DEF Receive, Answer, topic, queue
<1>5. CASE SendSucceeds(e)
  BY <1>1, <1>3, <1>5 DEF SendSucceeds, Answer
<1>6. CASE SendFails(e)
  <2>1. request'[e] # "accepted" /\ \A d \in Events \ {e} : request'[d] = request[d]
    BY <1>1, <1>6 DEF SendFails, Answer
  <2> QED
    BY <1>3, <1>6, <2>1 DEF SendFails
<1>7. CASE NotifyAgain(e)
  BY <1>1, <1>2, <1>7 DEF NotifyAgain, Answer, topic, queue
<1>8. CASE RedeliverByHand(e)
  BY <1>1, <1>2, <1>8 DEF RedeliverByHand, Answer, topic, queue
<1> QED
  BY <1>4, <1>5, <1>6, <1>7, <1>8 DEF Forward

LEMMA PushKeeps ==
  ASSUME KInv, NEW e \in Events, Push(e) \/ PushKey(e), payload' = payload
  PROVE  AcceptedIsKept'
<1> USE DEF KInv, IInv
<1>0. \A d \in Events : KeyOf(d)' = KeyOf(d)
  BY SameKey
<1>1. "bot" \in Subscriptions /\ "workqueue" \in Subscriptions
  BY DEF Subscriptions
<1>2. ASSUME waiting["bot"][e] > 0, Acked("bot", e) \/ Nacked("bot", e),
             UNCHANGED <<request, queue, seen>>, handled \subseteq handled',
             \/ payload[e].type \notin Handlers
             \/ e \in handled'
             \/ Nacked("bot", e)
      PROVE  AcceptedIsKept'
  <2>1. /\ \A r \in Subscriptions, d \in Events : (r # "bot" \/ d # e) /\ Held(r, d) => Held(r, d)'
        /\ Nacked("bot", e) => Held("bot", e)'
    BY <1>1, <1>2, AnswerKeeps
  <2>2. \A d \in Events : KeptForQueue(d) => KeptForQueue(d)'
    BY <1>0, <1>1, <1>2, <2>1 DEF KeptForQueue, queue
  <2>3. \A d \in Events \ {e} : KeptForBot(d) => KeptForBot(d)'
    BY <1>1, <1>2, <2>1 DEF KeptForBot
  <2>4. KeptForBot(e)'
    BY <1>2, <2>1 DEF KeptForBot
  <2> QED
    BY <1>2, <2>2, <2>3, <2>4 DEF AcceptedIsKept
<1>3. ASSUME waiting["workqueue"][e] > 0, Acked("workqueue", e) \/ Nacked("workqueue", e),
             UNCHANGED <<request, handled, seen>>, queued \subseteq queued',
             KeyOf(e) \in queued' \/ Nacked("workqueue", e)
      PROVE  AcceptedIsKept'
  <2>1. /\ \A r \in Subscriptions, d \in Events :
             (r # "workqueue" \/ d # e) /\ Held(r, d) => Held(r, d)'
        /\ Nacked("workqueue", e) => Held("workqueue", e)'
    BY <1>1, <1>3, AnswerKeeps
  <2>2. \A d \in Events : KeptForBot(d) => KeptForBot(d)'
    BY <1>1, <1>3, <2>1 DEF KeptForBot
  <2>3. \A d \in Events \ {e} : KeptForQueue(d) => KeptForQueue(d)'
    BY <1>0, <1>1, <1>3, <2>1 DEF KeptForQueue
  <2>4. KeptForQueue(e)'
    BY <1>0, <1>3, <2>1 DEF KeptForQueue
  <2> QED
    BY <1>3, <2>2, <2>3, <2>4 DEF AcceptedIsKept
<1>4. CASE BotIgnores(e)
  BY <1>2, <1>4 DEF BotIgnores
<1>5. CASE BotHandles(e)
  BY <1>2, <1>5 DEF BotHandles
<1>6. CASE BotFails(e)
  <2>1. handled \subseteq handled'
    BY <1>6 DEF BotFails
  <2> QED
    BY <1>2, <1>6, <2>1 DEF BotFails
<1>7. CASE SubscriberQueues(e)
  BY <1>3, <1>7 DEF SubscriberQueues, Work!Queue
<1>8. CASE SubscriberFails(e)
  <2>1. queued \subseteq queued'
    BY <1>8 DEF SubscriberFails, Work!Queue, queue
  <2> QED
    BY <1>3, <1>8, <2>1 DEF SubscriberFails
<1> QED
  BY <1>4, <1>5, <1>6, <1>7, <1>8 DEF Push, PushKey

\* A dead letter is acknowledged only after it was published: to the
\* subscription it comes from as well, since it was there before.
LEMMA ReplayKeeps ==
  ASSUME KInv, NEW e \in Events, NEW s \in Subscriptions, Replay(s, e), payload' = payload
  PROVE  AcceptedIsKept'
<1> USE DEF KInv, IInv
<1>0. \A d \in Events : KeyOf(d)' = KeyOf(d)
  BY SameKey
<1>1. UNCHANGED <<request, handled, queue, seen>>
  BY DEF Replay
<1>2. CASE UNCHANGED topic
  BY <1>0, <1>1, <1>2 DEF AcceptedIsKept, KeptForQueue, KeptForBot, Held, topic, queue
<1>3. CASE Publish(e) /\ (UNCHANGED dead \/ dead' = [dead EXCEPT ![s][e] = @ - 1])
  <2>1. \A r \in Subscriptions, d \in Events \ {e} : Held(r, d) => Held(r, d)'
    BY <1>3, PublishKeeps DEF Held, TypeOK
  <2>2. \A r \in Subscriptions : Wants(r, e) => Held(r, e)'
    BY <1>3, PublishKeeps DEF Held
  <2>3. KeptForQueue(e)' /\ KeptForBot(e)'
    BY <1>0, <2>2 DEF Wants, Subscriptions, KeptForQueue, KeptForBot
  <2>4. \A d \in Events \ {e} : /\ KeptForQueue(d) => KeptForQueue(d)'
                                /\ KeptForBot(d) => KeptForBot(d)'
    BY <1>0, <1>1, <2>1 DEF KeptForQueue, KeptForBot, Subscriptions, queue
  <2> QED
    BY <1>1, <2>3, <2>4 DEF AcceptedIsKept
<1> QED
  BY <1>2, <1>3 DEF Replay

\* A key leaves the queue only as its callback begins.
LEMMA CallbackKeeps ==
  ASSUME KInv, NEW k \in Keys, Callback(k) \/ \E w \in Owners : RetryCallback(k, w),
         payload' = payload
  PROVE  AcceptedIsKept'
<1> USE DEF KInv, IInv
<1>0. \A d \in Events : KeyOf(d)' = KeyOf(d)
  BY SameKey
<1>1. ASSUME NEW w \in Owners, StartCallback(k, w) PROVE AcceptedIsKept'
  <2>1. ASSUME NEW d \in Events, request[d] = "accepted", KeyOf(d) = k PROVE KeptForQueue(d)'
    <3>1. CASE d \in Webhooks
      BY <1>0, <1>1, <2>1, <3>1 DEF StartCallback, KeptForQueue
    <3>2. CASE d \in Notifications
      BY <1>0, <3>2 DEF KeptForQueue, KeyOf
    <3> QED
      BY <3>1, <3>2 DEF Events
  <2>2. ASSUME NEW d \in Events, KeyOf(d) # k, KeptForQueue(d) PROVE KeptForQueue(d)'
    BY <1>0, <1>1, <2>2 DEF StartCallback, KeptForQueue, Work!Start, Held, topic
  <2>3. \A d \in Events : KeptForBot(d) => KeptForBot(d)'
    BY <1>1 DEF StartCallback, KeptForBot, Held, topic
  <2>4. request' = request
    BY <1>1 DEF StartCallback
  <2> QED
    BY <2>1, <2>2, <2>3, <2>4 DEF AcceptedIsKept
<1>2. ASSUME UNCHANGED <<request, topic, handled, seen>>, queued \subseteq queued'
      PROVE  AcceptedIsKept'
  BY <1>0, <1>2 DEF AcceptedIsKept, KeptForQueue, KeptForBot, Held, topic
<1>3. ASSUME NEW w \in Owners, EndCallback(k, w) PROVE AcceptedIsKept'
  BY <1>2, <1>3 DEF EndCallback, Work!Finish
<1>4. ASSUME NEW w \in Owners, RetryCallback(k, w) PROVE AcceptedIsKept'
  BY <1>2, <1>4 DEF RetryCallback, Work!Requeue
<1> QED
  BY <1>1, <1>3, <1>4 DEF Callback

LEMMA StepKept == KInv /\ [Next]_vars => KInv'
<1> SUFFICES ASSUME KInv, [Next]_vars PROVE AcceptedIsKept'
  BY StepTypes DEF KInv
<1>0. payload' = payload
  BY SamePayload
<1>1. CASE UNCHANGED vars
  BY <1>1, SameKey DEF KInv, vars, AcceptedIsKept, KeptForQueue, KeptForBot, Held
<1>2. ASSUME NEW e \in Events, Forward(e) \/ RedeliverByHand(e) \/ Push(e) \/ PushKey(e)
      PROVE  AcceptedIsKept'
  BY <1>0, <1>2, ForwardKeeps, PushKeeps
<1>3. ASSUME NEW e \in Events, NEW s \in Subscriptions, Replay(s, e) PROVE AcceptedIsKept'
  BY <1>0, <1>3, ReplayKeeps
<1>4. ASSUME NEW k \in Keys, Callback(k) \/ \E w \in Owners : RetryCallback(k, w)
      PROVE  AcceptedIsKept'
  BY <1>0, <1>4, CallbackKeeps
<1> QED
  BY <1>1, <1>2, <1>3, <1>4 DEF Next

\* AcceptedIsKept: what was answered 200 is kept for the queue and for the bot,
\* whatever is lost, repeated, dead-lettered and replayed.
THEOREM AcceptedIsNeverLost == Spec => []AcceptedIsKept
<1>1. KInv => AcceptedIsKept
  BY DEF KInv
<1>2. Init => KInv
  BY InitTypes, InitKept DEF KInv
<1> QED
  BY <1>1, <1>2, StepKept, PTL DEF Spec

-----------------------------------------------------------------------------
(* The workqueue as promised: nobody here asks more of it. *)

OneOwnerInv == Work!TypeOK /\ Work!OwnedUntilDone

\* Start makes the only owner of a key; the others take one away.
LEMMA StepOneOwner == OneOwnerInv /\ [Work!Next]_(Work!vars) => OneOwnerInv'
<1> SUFFICES ASSUME OneOwnerInv, [Work!Next]_(Work!vars) PROVE OneOwnerInv'
  OBVIOUS
<1> USE DEF OneOwnerInv, Work!TypeOK, Work!OwnedUntilDone
<1>1. CASE UNCHANGED Work!vars
  BY <1>1 DEF Work!vars
<1>2. CASE Work!Next
  <2>1. PICK k \in Keys :
          \/ Work!Queue(k)
          \/ \E w \in Owners :
               Work!Start(k, w) \/ Work!Finish(k, w) \/ Work!Requeue(k, w) \/ Work!Abandon(k, w)
    BY <1>2 DEF Work!Next
  <2>2. CASE Work!Queue(k)
    BY <2>2 DEF Work!Queue
  <2>3. ASSUME NEW w \in Owners, Work!Start(k, w) PROVE OneOwnerInv'
    <3>1. \A p \in owns : p[2] # k
      BY <2>3 DEF Work!Start
    <3>2. \A p \in owns' : p \in owns \/ p = <<w, k>>
      BY <2>3 DEF Work!Start
    <3>3. Work!TypeOK'
      BY <2>3 DEF Work!Start
    <3>4. \A p \in owns' : p[2] \in inProgress'
      BY <2>3, <3>2 DEF Work!Start
    <3>5. \A p, q \in owns' : p[2] = q[2] => p = q
      BY <3>1, <3>2
    <3> QED
      BY <3>3, <3>4, <3>5
  <2>4. ASSUME NEW w \in Owners, Work!Finish(k, w) PROVE OneOwnerInv'
    BY <2>4 DEF Work!Finish
  <2>5. ASSUME NEW w \in Owners, Work!Requeue(k, w) PROVE OneOwnerInv'
    <3>1. CASE <<w, k>> \in owns
      BY <2>5, <3>1 DEF Work!Requeue
    <3>2. CASE Work!Orphaned(k)
      <4>1. \A p \in owns : p[2] # k
        BY <3>2 DEF Work!Orphaned
      <4> QED
        BY <2>5, <4>1 DEF Work!Requeue
    <3> QED
      BY <2>5, <3>1, <3>2 DEF Work!Requeue
  <2>6. ASSUME NEW w \in Owners, Work!Abandon(k, w) PROVE OneOwnerInv'
    BY <2>6 DEF Work!Abandon
  <2> QED
    BY <2>1, <2>2, <2>3, <2>4, <2>5, <2>6
<1> QED
  BY <1>1, <1>2

\* Of the promise: an owned key is in progress and has one owner, whatever is
\* queued, recovered or abandoned meanwhile (interface.go 91).  What implements
\* WorkQueue inherits it.
THEOREM OneOwner == Work!Spec => []Work!OwnedUntilDone
<1>1. Work!Init => OneOwnerInv
  BY DEF Work!Init, OneOwnerInv, Work!TypeOK, Work!OwnedUntilDone
<1>2. OneOwnerInv => Work!OwnedUntilDone
  BY DEF OneOwnerInv
<1> QED
  BY <1>1, <1>2, StepOneOwner, PTL DEF Work!Spec

\* Whatever a service does, the queue makes a step of its own or none.
LEMMA StepOfQueue == IInv /\ [Next]_vars => [Work!Next]_(Work!vars)
<1> SUFFICES ASSUME IInv, [Next]_vars PROVE [Work!Next]_(Work!vars)
  OBVIOUS
<1>1. UNCHANGED queue => UNCHANGED Work!vars
  BY DEF queue, Work!vars
<1>2. CASE UNCHANGED vars
  BY <1>2 DEF vars, Work!vars
<1>3. ASSUME NEW e \in Events, Forward(e) \/ RedeliverByHand(e) \/ Push(e)
      PROVE  UNCHANGED queue
  BY <1>3 DEF Forward, Receive, SendSucceeds, SendFails, NotifyAgain, RedeliverByHand,
              Push, BotIgnores, BotHandles, BotFails
<1>4. ASSUME NEW e \in Events, PushKey(e) PROVE [Work!Next]_(Work!vars)
  <2>1. KeyOf(e) \in Keys
    <3>1. KeyOf(e) \in Keys \union {NoKey}
      BY KeyIsKey DEF IInv, TypeOK
    <3>2. KeyOf(e) # NoKey
      BY <1>4 DEF IInv, OnlyKeys, PushKey, SubscriberQueues, SubscriberFails
    <3> QED
      BY <3>1, <3>2
  <2>2. Work!Queue(KeyOf(e)) \/ UNCHANGED queue
    BY <1>4 DEF PushKey, SubscriberQueues, SubscriberFails
  <2> QED
    BY <1>1, <2>1, <2>2 DEF Work!Next
<1>5. ASSUME NEW e \in Events, NEW s \in Subscriptions, Replay(s, e) PROVE UNCHANGED queue
  BY <1>5 DEF Replay
<1>6. ASSUME NEW k \in Keys, Callback(k) \/ \E w \in Owners : RetryCallback(k, w)
      PROVE  Work!Next
  <2>1. PICK w \in Owners : Work!Start(k, w) \/ Work!Finish(k, w) \/ Work!Requeue(k, w)
    BY <1>6 DEF Callback, StartCallback, EndCallback, RetryCallback
  <2> QED
    BY <2>1 DEF Work!Next
<1> QED
  BY <1>1, <1>2, <1>3, <1>4, <1>5, <1>6 DEF Next

\* The subscriber and the callbacks use the queue as promised: every key the
\* subscriber queues is one, and every step is one of WorkQueue or none.  So no
\* key has two callbacks at once, whatever is delivered twice or replayed.
THEOREM CallbacksAreExclusive == Spec => Work!Spec /\ []Work!OwnedUntilDone
<1>1. Init => Work!Init
  BY DEF Init, Work!Init
<1>2. Spec => Work!Spec
  BY <1>1, InitTypes, StepTypes, StepOfQueue, PTL DEF Spec, Work!Spec
<1> QED
  BY <1>2, OneOwner, PTL
=============================================================================
