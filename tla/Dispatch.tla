------------------------------ MODULE Dispatch ------------------------------
(***************************************************************************)
(* The decisions of HandleAsync, pkg/workqueue/dispatcher/dispatcher.go,   *)
(* as operators: which keys a round launches and what it does with the     *)
(* result of a callback.  The orders are given as sets: a round launches   *)
(* its keys concurrently, so only which keys it launches matters.          *)
(***************************************************************************)
EXTENDS Naturals, FiniteSets

CONSTANTS
  Concurrency,   \* keys to process at a time
  Limit,         \* keys Enumerate returns (the mains pass Concurrency)
  MaxRetry       \* attempts before a failing key is dead-lettered, 0 for never

ASSUME DispatchAssumption ==
  /\ Concurrency \in Nat \ {0}
  /\ Limit \in Nat \ {0}
  /\ MaxRetry \in Nat

\* The sets of the first n elements of S, with the pairs <<a, b>> in before
\* when a is to come before b: ties are broken either way.
Firsts(S, n, before) ==
  {T \in SUBSET S :
     /\ IF Cardinality(S) <= n THEN T = S ELSE Cardinality(T) = n
     /\ \A a \in T, b \in S \ T : <<b, a>> \notin before}

\* Mistake: the keys in progress are not taken off the open slots.
LaunchesAllSlots(ready, active, before) ==
  UNION {Firsts(next \ active, Concurrency, before) :
           next \in Firsts(ready, Limit, before)}

\* The sets of keys a round may launch: Enumerate truncates the ready keys to
\* Limit, then the keys in progress are passed over and the open slots filled.
Launches(ready, active, before) ==
  IF Cardinality(active) >= Concurrency
  THEN {{}}
  ELSE UNION {Firsts(next \ active, Concurrency - Cardinality(active), before) :
                next \in Firsts(ready, Limit, before)}

\* What a callback returns: nil, a plain error, an error marked non-retriable
\* or a request to be requeued after a delay.
Results == {"nil", "error", "nonRetriable", "requeueAfter"}

\* What the round then does with the key.
Disposition(result, attempts) ==
  CASE result = "nil" -> "complete"
    [] result = "requeueAfter" -> "requeueAfter"
    [] result \in {"error", "nonRetriable"} /\ MaxRetry > 0 /\ attempts >= MaxRetry
         -> "deadletter"
    [] result = "nonRetriable" /\ ~(MaxRetry > 0 /\ attempts >= MaxRetry) -> "complete"
    [] result = "error" /\ ~(MaxRetry > 0 /\ attempts >= MaxRetry) -> "requeue"
=============================================================================
