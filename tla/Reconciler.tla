----------------------------- MODULE Reconciler -----------------------------
(***************************************************************************)
(* A GitHub reconciler behind the workqueue,                               *)
(* pkg/githubreconciler/reconciler.go: the callback of a key parses its    *)
(* URL, gets the client of the repository and runs the reconcile function  *)
(* on the resource.  The keys are URLs, and the workers of the cache and   *)
(* of the comments are named by them: the workqueue runs one callback per  *)
(* key.  One pull request has two keys, as an issue and as a pull request, *)
(* and both may run at a time.                                             *)
(*                                                                         *)
(* The reconcile function is the user's.  This one fetches the state,      *)
(* commits the next one until it is Target, and asks to be requeued while  *)
(* it is not; it returns every error it meets.                             *)
(***************************************************************************)
EXTENDS StateComment, ClientCache

CONSTANTS
  UrlOf,         \* UrlOf[u]: the host, the number of path components, the repository,
                 \* the kind of resource and its number, 0 for a text that is none
  MaxRetry,      \* attempts before a failing key is dead-lettered, 0 for never
  MaxQueues,     \* bound: keys queued by clients
  MaxForeign,    \* bound: comments made by people
  MaxMeddling,   \* bound: comments deleted or edited by people
  MaxFailures    \* bound: failing calls

ASSUME ReconcilerAssumption ==
  /\ Callers = Workers
  /\ \A u \in Workers : UrlOf[u].repo \in Repos
  /\ MaxQueues \in Nat /\ MaxForeign \in Nat /\ MaxMeddling \in Nat /\ MaxFailures \in Nat

Urls == Workers

VARIABLES
  key,       \* key[u]: "idle", "queued", "client", "state" or "dead"
  attempts,  \* attempts[u]: starts since the key was queued
  spent,     \* auxiliary: what was spent of the bounds
  settled    \* auxiliary: keys whose last callback returned nil

vars == <<commentVars, cacheVars, key, attempts, spent, settled>>

Decide == INSTANCE Dispatch WITH Concurrency <- 1, Limit <- 1

Init ==
  /\ CommentInit /\ CacheInit
  /\ key = [u \in Urls |-> "idle"]
  /\ attempts = [u \in Urls |-> 0]
  /\ spent = [queues |-> 0, comments |-> 0, meddling |-> 0, failures |-> 0]
  /\ settled = {}

Spend(what, most) == spent[what] < most /\ spent' = [spent EXCEPT ![what] = @ + 1]

\* Somebody queues a key.  Merges with a queued key are the queue's business.
Queue(u) ==
  /\ key[u] \in {"idle", "dead"}
  /\ Spend("queues", MaxQueues)
  /\ key' = [key EXCEPT ![u] = "queued"]
  /\ attempts' = [attempts EXCEPT ![u] = 0]
  /\ settled' = settled \ {u}
  /\ UNCHANGED <<commentVars, cacheVars>>

\* What the dispatcher does with a key whose callback returned result.
Returned(u, result, tries) ==
  LET d == Decide!Disposition(result, tries) IN
  /\ key' = [key EXCEPT ![u] = IF d = "complete" THEN "idle"
                               ELSE IF d = "deadletter" THEN "dead" ELSE "queued"]
  /\ attempts' = [attempts EXCEPT ![u] = IF d = "complete" THEN 0 ELSE tries]
  /\ settled' = IF result = "nil" THEN settled \union {u} ELSE settled
  /\ UNCHANGED spent

\* ParseURL.
Parses(u) ==
  /\ UrlOf[u].host = "github.com"
  /\ UrlOf[u].parts = 4
  /\ UrlOf[u].number > 0
  /\ UrlOf[u].kind \in {"issues", "pull"}

\* The callback of u begins, and Reconcile up to Get.
Start(u) ==
  /\ key[u] = "queued" /\ Parses(u)
  /\ attempts' = [attempts EXCEPT ![u] = @ + 1]
  /\ key' = [key EXCEPT ![u] = "client"]
  /\ GetCall(u, UrlOf[u].repo)
  /\ UNCHANGED <<commentVars, spent, settled>>

\* It is no URL of a resource: an error like any other, to be tried again.
StartFails(u) ==
  /\ key[u] = "queued" /\ ~Parses(u)
  /\ Returned(u, "error", attempts[u] + 1)
  /\ UNCHANGED <<commentVars, cacheVars>>

\* The call of Get goes on.
GetClient(u) ==
  /\ key[u] = "client"
  /\ \/ (GetReads(u) \/ GetLocks(u) \/ GetCreates(u)) /\ UNCHANGED spent
     \/ GetFails(u) /\ Spend("failures", MaxFailures)
  /\ UNCHANGED <<commentVars, key, attempts, settled>>

ClearCache ==
  /\ Clear
  /\ UNCHANGED <<commentVars, key, attempts, spent, settled>>

\* Get returned: an error, or a client for the reconcile function.
GetFailed(u) ==
  /\ key[u] = "client" /\ get[u].pc = "failed"
  /\ Returned(u, "error", attempts[u])
  /\ GetLeave(u)
  /\ UNCHANGED commentVars

\* The reconciler has been given a reconcile function.  Without one every
\* callback ends here with an error, as in GetFailed, and nothing is stored.
Reconcile(u) ==
  /\ key[u] = "client" /\ get[u].pc = "returned"
  /\ key' = [key EXCEPT ![u] = "state"]
  /\ FetchCall(u)
  /\ GetLeave(u)
  /\ UNCHANGED <<attempts, spent, settled>>

-----------------------------------------------------------------------------
(* The reconcile function. *)

\* A call to GitHub returns.
Work(u) ==
  /\ \/ FetchPage(u) \/ FindPage(u) \/ EditMisses(u)
     \/ EditComment(u, "committed") \/ CreateComment(u, "committed")
  /\ UNCHANGED <<cacheVars, key, attempts, spent, settled>>

\* It fails, or takes effect and its answer is lost.
WorkFails(u) ==
  /\ CallFails(u) \/ EditComment(u, "failed") \/ CreateComment(u, "failed")
  /\ Spend("failures", MaxFailures)
  /\ UNCHANGED <<cacheVars, key, attempts, settled>>

\* The state was fetched: there is more to do.
NextState(u) ==
  /\ op[u].pc = "fetched" /\ op[u].state < Target
  /\ CommitCall(u, op[u].state + 1)
  /\ UNCHANGED <<cacheVars, key, attempts, spent, settled>>

Returns(u) ==
  /\ \/ op[u].pc = "fetched" /\ op[u].state = Target /\ Returned(u, "nil", attempts[u])
     \/ op[u].pc = "committed" /\ op[u].state = Target /\ Returned(u, "nil", attempts[u])
     \/ /\ op[u].pc = "committed" /\ op[u].state < Target
        /\ Returned(u, "requeueAfter", attempts[u])
     \/ op[u].pc = "failed" /\ Returned(u, "error", attempts[u])
  /\ Leave(u)
  /\ UNCHANGED cacheVars

People ==
  /\ \/ SomeoneComments /\ Spend("comments", MaxForeign)
     \/ /\ \E i \in DOMAIN comments : SomeoneDeletes(i) \/ SomeoneEdits(i)
        /\ Spend("meddling", MaxMeddling)
  /\ UNCHANGED <<cacheVars, key, attempts, settled>>

Run(u) == Start(u) \/ StartFails(u) \/ GetClient(u) \/ GetFailed(u) \/ Reconcile(u)
          \/ Work(u) \/ NextState(u) \/ Returns(u)

Next ==
  \/ \E u \in Urls : Queue(u) \/ Run(u) \/ WorkFails(u)
  \/ ClearCache
  \/ People

Spec == Init /\ [][Next]_vars

(***************************************************************************)
(* Fairness: the dispatcher runs every queued key, locks are handed out    *)
(* and calls return.                                                       *)
(***************************************************************************)
FairSpec == Spec /\ \A u \in Urls : WF_vars(Run(u))

-----------------------------------------------------------------------------
TypeOK ==
  /\ CommentTypeOK /\ CacheTypeOK
  /\ key \in [Urls -> {"idle", "queued", "client", "state", "dead"}]
  /\ attempts \in [Urls -> Nat]
  /\ spent \in [queues : 0..MaxQueues, comments : 0..MaxForeign,
              meddling : 0..MaxMeddling, failures : 0..MaxFailures]
  /\ settled \subseteq Urls

\* A key whose reconciler is done, and that nobody queued since, has its last
\* state in the comment: no error of a call to GitHub, and none of the client
\* cache, is taken for success.
SettledIsStored == settled # {} /\ disturbed = {} =>
  \E i \in DOMAIN comments : comments[i].body = Target

\* Every queued key is done with in the end: reconciled or dead-lettered.
EveryKeyEnds == \A u \in Urls : key[u] = "queued" ~> key[u] \in {"idle", "dead"}
=============================================================================
