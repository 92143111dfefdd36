----------------------------- MODULE EventRelay -----------------------------
(***************************************************************************)
(* The way of an event from GitHub, or from a bucket, to its handlers:     *)
(*   a trampoline (github-events/internal/trampoline/server.go,            *)
(*     bucket-events/cmd/trampoline/main.go) turns the request into a      *)
(*     cloud event and sends it, with retries, to                          *)
(*   the ingress (cloudevent-broker/cmd/ingress/main.go), which publishes  *)
(*     it on the topic of the broker;                                      *)
(*   every subscription of the topic pushes it to a service until that     *)
(*     answers well or the message is dead-lettered: a bot                 *)
(*     (github-bots/sdk/bot.go), or the subscriber that queues the key of  *)
(*     the event (cloudevents-workqueue/cmd/subscriber/main.go);           *)
(*   the replayer (cmd/replayer/main.go) publishes dead letters again.     *)
(*                                                                         *)
(* The services keep no state: what they answer decides who tries again.   *)
(* GitHub never does by itself, the notifications of a bucket and the      *)
(* subscriptions do.  The queue is the promise of interface.go.  Copies of *)
(* an event on a subscription are counted, not told apart; a failed push   *)
(* may be the last one before the message is dead-lettered.                *)
(***************************************************************************)
EXTENDS Integers, Sequences

CONSTANTS
  Webhooks,       \* deliveries of GitHub
  Notifications,  \* notifications of a bucket
  Payloads,       \* Payloads[e]: what delivery e may hold, see below
  Numbers,        \* numbers of pull requests and issues
  NoticeTypes,    \* Eventtype headers of notifications
  WebhookIDs, RequestedOnly, OrgFilter,   \* options of the trampoline
  Handlers,       \* event types the bot has a handler for
  ExtensionKey,   \* "pullrequesturl" or "issueurl"
  Owners,         \* callbacks of the workqueue at a time
  MaxRetry,       \* retries of a send (3 in the code)
  MaxCopies,      \* bound: copies of an event on a subscription
  MaxFailures     \* bound: failing calls, replays and redeliveries by hand

ASSUME RelayAssumption ==
  /\ Numbers \subseteq Nat \ {0}
  /\ Webhooks \intersect Notifications = {}
  /\ ExtensionKey \in {"pullrequesturl", "issueurl"}
  /\ MaxRetry \in Nat /\ MaxCopies \in Nat \ {0} /\ MaxFailures \in Nat

\* A payload: the type of the event and its action, whether the repository is
\* named, the number of the pull request or issue (0 if there is none), whether
\* the issue is a pull request, the pull requests of a check, the webhook, the
\* organization and whether the signature fits one of the secrets.
ASSUME PayloadAssumption ==
  \A e \in Webhooks : \A p \in Payloads[e] :
    p.number \in Numbers \union {0} /\ p.checks \in Seq(Numbers)

VARIABLES
  payload,   \* payload[e]: of a webhook; of a notification, its type alone
  request,   \* request[e]: the trampoline's work on e and its last answer
  tries,     \* tries[e]: retries left of the send under way
  waiting,   \* waiting[s][e]: copies of e on subscription s
  dead,      \* dead[s][e]: copies of e on the dead-letter subscription of s
  handled,   \* events a handler of the bot returned nil for, or panicked on
  queued, inProgress, owns,   \* the workqueue
  seen,      \* auxiliary: events whose key got a callback since they were accepted
  failures   \* auxiliary: failures so far

vars == <<payload, request, tries, waiting, dead, handled, queued, inProgress, owns,
          seen, failures>>

Events == Webhooks \union Notifications
PayloadsOf(e) == IF e \in Webhooks THEN Payloads[e] ELSE [type : NoticeTypes]
Subscriptions == {"bot", "workqueue"}

NoKey == <<>>
\* The URLs of the resources there are.
Keys == {"pull", "issues"} \X Numbers

Work == INSTANCE WorkQueue

-----------------------------------------------------------------------------
(* The attributes of an event. *)

\* extractPullRequestURL.  A check may belong to several pull requests: it
\* gets the URL of the first.
PullRequestURL(p) ==
  LET number ==
        CASE p.type \in {"pull_request", "pull_request_review", "pull_request_review_comment"}
               -> p.number
          [] p.type = "issue_comment" /\ p.onPullRequest -> p.number
          [] p.type \in {"check_run", "check_suite"} /\ p.checks # <<>> -> p.checks[1]
          [] OTHER -> 0
  IN IF p.repo /\ number > 0 THEN <<"pull", number>> ELSE NoKey

\* extractIssueURL.
IssueURL(p) ==
  IF /\ p.repo /\ p.number > 0
     /\ p.type = "issues" \/ (p.type = "issue_comment" /\ ~p.onPullRequest)
  THEN <<"issues", p.number>> ELSE NoKey

\* The extension the subscriber looks at.
KeyOf(e) ==
  IF e \in Notifications THEN NoKey
  ELSE IF ExtensionKey = "issueurl" THEN IssueURL(payload[e])
  ELSE PullRequestURL(payload[e])

\* Only the requests to check again.
Requested(p) ==
  /\ p.type \in {"check_run", "check_suite"}
  /\ p.action \in {"requested", "rerequested", "requested_action"}

\* What ServeHTTP does with a request, in the order of its tests.
Verdict(p) ==
  IF ~p.signed \/ p.type = "" THEN "refused"
  ELSE IF \/ WebhookIDs # {} /\ p.hook \notin WebhookIDs
          \/ p.hook \in RequestedOnly /\ ~Requested(p)
          \/ OrgFilter # {} /\ p.org \notin OrgFilter
       THEN "ignored"
  ELSE "sending"

\* The eventTypes of the bucket's trampoline.
Known(type) == type \in {"OBJECT_FINALIZE", "OBJECT_METADATA_UPDATE", "OBJECT_DELETE",
                         "OBJECT_ARCHIVE"}

-----------------------------------------------------------------------------
Init ==
  /\ payload \in {f \in [Events -> UNION {PayloadsOf(e) : e \in Events}] :
                    \A e \in Events : f[e] \in PayloadsOf(e)}
  /\ request = [e \in Events |-> "due"]
  /\ tries = [e \in Events |-> 0]
  /\ waiting = [s \in Subscriptions |-> [e \in Events |-> 0]]
  /\ dead = [s \in Subscriptions |-> [e \in Events |-> 0]]
  /\ handled = {}
  /\ queued = {} /\ inProgress = {} /\ owns = {}
  /\ seen = {}
  /\ failures = 0

queue == <<queued, inProgress, owns>>
topic == <<waiting, dead>>
Fail == failures < MaxFailures /\ failures' = failures + 1
Answer(e, a) == request' = [request EXCEPT ![e] = a]

\* The trampoline takes the request, up to Send.
Receive(e) ==
  /\ request[e] = "due"
  /\ LET verdict == IF e \in Webhooks THEN Verdict(payload[e])
                    ELSE IF Known(payload[e].type) THEN "sending" ELSE "refused" IN
       /\ Answer(e, verdict)
       /\ tries' = [tries EXCEPT ![e] = IF verdict = "sending" THEN MaxRetry ELSE 0]
  /\ UNCHANGED <<payload, topic, handled, queue, seen, failures>>

\* Filters of the subscriptions: the workqueue's wants the extension there.
Wants(s, e) == s = "bot" \/ KeyOf(e) # NoKey

\* A message on the topic: a copy on every subscription that wants it.
Publish(e) ==
  waiting' = [s \in Subscriptions |->
    IF Wants(s, e) THEN [waiting[s] EXCEPT ![e] = @ + 1] ELSE waiting[s]]
Room(e) == \A s \in Subscriptions : waiting[s][e] < MaxCopies

(* A send arrives at the ingress, which publishes and answers well. *)
SendSucceeds(e) ==
  /\ request[e] = "sending" /\ Room(e)
  /\ Publish(e)
  /\ Answer(e, "accepted")
  /\ tries' = [tries EXCEPT ![e] = 0]
  /\ UNCHANGED <<payload, dead, handled, queue, seen, failures>>

\* Mistake: one retry too many is counted.
SendRetriesOn(e) ==
  /\ request[e] = "sending" /\ Room(e)
  /\ Fail
  /\ Publish(e) \/ UNCHANGED waiting
  /\ tries' = [tries EXCEPT ![e] = @ - 1] /\ UNCHANGED request
  /\ UNCHANGED <<payload, dead, handled, queue, seen>>

(* A send fails: the request, the publishing or the answer is lost, the    *)
(* ingress refuses it or cannot publish.  The client tries again if it has *)
(* tries left and takes the failure for a passing one; else the answer to  *)
(* the request is an error.                                                *)
SendFails(e) ==
  /\ request[e] = "sending" /\ Room(e)
  /\ Fail
  /\ Publish(e) \/ UNCHANGED waiting
  /\ \/ tries[e] > 0 /\ tries' = [tries EXCEPT ![e] = @ - 1] /\ UNCHANGED request
     \/ Answer(e, "failed") /\ tries' = [tries EXCEPT ![e] = 0]
  /\ UNCHANGED <<payload, dead, handled, queue, seen>>

\* Pub/Sub pushes a notification again that was answered with an error, one of
\* an unknown type too.
NotifyAgain(e) ==
  /\ e \in Notifications /\ request[e] \in {"failed", "refused"}
  /\ Answer(e, "due")
  /\ UNCHANGED <<payload, tries, topic, handled, queue, seen, failures>>

\* Somebody asks GitHub to deliver a failed webhook again.
RedeliverByHand(e) ==
  /\ e \in Webhooks /\ request[e] = "failed"
  /\ Fail
  /\ Answer(e, "due")
  /\ UNCHANGED <<payload, tries, topic, handled, queue, seen>>

-----------------------------------------------------------------------------
(* The services push messages go to.  Acked and Nacked say what becomes of *)
(* the message after the answer.                                           *)

Acked(s, e) == waiting' = [waiting EXCEPT ![s][e] = @ - 1] /\ UNCHANGED dead
Nacked(s, e) ==
  \/ UNCHANGED topic
  \/ /\ dead[s][e] < MaxCopies
     /\ waiting' = [waiting EXCEPT ![s][e] = @ - 1]
     /\ dead' = [dead EXCEPT ![s][e] = @ + 1]

\* Bot: an event no handler is registered for is ignored.
BotIgnores(e) ==
  /\ waiting["bot"][e] > 0 /\ payload[e].type \notin Handlers
  /\ Acked("bot", e)
  /\ UNCHANGED <<payload, request, tries, handled, queue, seen, failures>>

(* The handler returns nil, or panics: the panic is recovered, and the     *)
(* answer is that of success.                                              *)
BotHandles(e) ==
  /\ waiting["bot"][e] > 0 /\ payload[e].type \in Handlers
  /\ handled' = handled \union {e}
  /\ Acked("bot", e)
  /\ UNCHANGED <<payload, request, tries, queue, seen, failures>>

(* The event cannot be read or its handler returns an error; or the answer *)
(* is lost and the handler had returned nil.                               *)
BotFails(e) ==
  /\ waiting["bot"][e] > 0 /\ payload[e].type \in Handlers
  /\ Fail
  /\ Nacked("bot", e)
  /\ handled' \in {handled, handled \union {e}}
  /\ UNCHANGED <<payload, request, tries, queue, seen>>

(* handleEvent queues the key of the event. *)
SubscriberQueues(e) ==
  /\ waiting["workqueue"][e] > 0
  /\ Work!Queue(KeyOf(e))
  /\ Acked("workqueue", e)
  /\ UNCHANGED <<payload, request, tries, handled, seen, failures>>

\* Mistake: the event is acknowledged although its key could not be queued.
SubscriberAcks(e) ==
  /\ waiting["workqueue"][e] > 0
  /\ Fail
  /\ Work!Queue(KeyOf(e)) \/ UNCHANGED queue
  /\ Acked("workqueue", e)
  /\ UNCHANGED <<payload, request, tries, handled, seen>>

(* Process returns an error, having queued the key or not; or the answer   *)
(* of the subscriber is lost.                                              *)
SubscriberFails(e) ==
  /\ waiting["workqueue"][e] > 0
  /\ Fail
  /\ Work!Queue(KeyOf(e)) \/ UNCHANGED queue
  /\ Nacked("workqueue", e)
  /\ UNCHANGED <<payload, request, tries, handled, seen>>

\* Mistake: the message is acknowledged before it is published.
ReplayAcksFirst(s, e) ==
  /\ dead[s][e] > 0 /\ Room(e)
  /\ Fail
  /\ Publish(e) \/ UNCHANGED waiting
  /\ dead' = [dead EXCEPT ![s][e] = @ - 1]
  /\ UNCHANGED <<payload, request, tries, handled, queue, seen>>

(* The replayer publishes a dead letter on the topic.  It is acknowledged, *)
(* or not: publishing failed, or its process exits as it is idle, which it *)
(* takes itself for while it waits for Publish or between Publish and Ack. *)
Replay(s, e) ==
  /\ dead[s][e] > 0 /\ Room(e)
  /\ Fail
  /\ \/ Publish(e) /\ dead' = [dead EXCEPT ![s][e] = @ - 1]
     \/ Publish(e) /\ UNCHANGED dead
     \/ UNCHANGED topic
  /\ UNCHANGED <<payload, request, tries, handled, queue, seen>>

-----------------------------------------------------------------------------
(* The workqueue, as promised. *)

\* A callback for k begins: it sees whatever was accepted before.
StartCallback(k, w) ==
  /\ Work!Start(k, w)
  /\ seen' = seen \union {e \in Webhooks : request[e] = "accepted" /\ KeyOf(e) = k}
  /\ UNCHANGED <<payload, request, tries, topic, handled, failures>>

EndCallback(k, w) ==
  /\ Work!Finish(k, w)
  /\ UNCHANGED <<payload, request, tries, topic, handled, seen, failures>>

RetryCallback(k, w) ==
  /\ Work!Requeue(k, w)
  /\ Fail
  /\ UNCHANGED <<payload, request, tries, topic, handled, seen>>

-----------------------------------------------------------------------------
Forward(e) == Receive(e) \/ SendSucceeds(e) \/ SendFails(e) \/ NotifyAgain(e)
Push(e) == BotIgnores(e) \/ BotHandles(e) \/ BotFails(e)
PushKey(e) == SubscriberQueues(e) \/ SubscriberFails(e)
Callback(k) == \E w \in Owners : StartCallback(k, w) \/ EndCallback(k, w)

Next ==
  \/ \E e \in Events :
       \/ Forward(e) \/ RedeliverByHand(e) \/ Push(e) \/ PushKey(e)
       \/ \E s \in Subscriptions : Replay(s, e)
  \/ \E k \in Keys : Callback(k) \/ \E w \in Owners : RetryCallback(k, w)

Spec == Init /\ [][Next]_vars

(***************************************************************************)
(* Fairness: requests are worked on, notifications and messages are pushed *)
(* until they are answered well (retry_policy of cloudevent-trigger), and  *)
(* the dispatcher runs.  None for GitHub, people and the replayer.         *)
(***************************************************************************)
FairSpec ==
  /\ Spec
  /\ \A e \in Events : WF_vars(Forward(e)) /\ WF_vars(Push(e)) /\ WF_vars(PushKey(e))
  /\ \A k \in Keys : WF_vars(Callback(k))

-----------------------------------------------------------------------------
TypeOK ==
  /\ \A e \in Events : payload[e] \in PayloadsOf(e)
  /\ request \in [Events -> {"due", "sending", "accepted", "failed", "ignored", "refused"}]
  /\ tries \in [Events -> 0..MaxRetry]
  /\ waiting \in [Subscriptions -> [Events -> 0..MaxCopies]]
  /\ dead \in [Subscriptions -> [Events -> 0..MaxCopies]]
  /\ handled \subseteq Events /\ seen \subseteq Events
  /\ Work!TypeOK
  /\ failures \in 0..MaxFailures

\* Where an accepted event still is for subscription s.
Held(s, e) == waiting[s][e] > 0 \/ dead[s][e] > 0

\* An event of a resource: until a callback that began later runs for its key,
\* it is on the subscription, a dead letter, or its key is queued, also when a
\* callback for the key was running as it came.
KeptForQueue(e) ==
  KeyOf(e) # NoKey /\ e \notin seen => Held("workqueue", e) \/ KeyOf(e) \in queued

\* An event the bot has a handler for: handled, or failed often enough for a
\* dead letter.
KeptForBot(e) == payload[e].type \in Handlers /\ e \notin handled => Held("bot", e)

\* An event answered 200 is never forgotten on its way to either of the two,
\* whatever fails, is sent twice or replayed.
AcceptedIsKept == \A e \in Events : request[e] = "accepted" => KeptForQueue(e) /\ KeptForBot(e)

\* A notification of a known type gets to the handler of the bot in the end, or
\* becomes a dead letter, and a webhook answered 200 gets to a callback that
\* began later, or becomes one.
EveryEventArrives ==
  /\ \A e \in Notifications : Known(payload[e].type) =>
       <>(IF payload[e].type \in Handlers THEN e \in handled \/ dead["bot"][e] > 0
          ELSE request[e] = "accepted")
  /\ \A e \in Webhooks :
       request[e] = "accepted" /\ KeyOf(e) # NoKey ~> e \in seen \/ dead["workqueue"][e] > 0
=============================================================================
