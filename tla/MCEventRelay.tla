---------------------------- MODULE MCEventRelay ----------------------------
(* Payloads for model checking: one for each case the code tells apart.    *)
EXTENDS EventRelay, TLC

P == [type |-> "pull_request", action |-> "opened", repo |-> TRUE, number |-> 1,
      onPullRequest |-> FALSE, checks |-> <<>>, hook |-> "h1", org |-> "o", signed |-> TRUE]

All ==
  { P,
    [P EXCEPT !.type = "issues", !.number = 1],
    [P EXCEPT !.type = "check_run", !.number = 0, !.checks = <<2, 1>>],
    [P EXCEPT !.type = "check_suite", !.number = 0, !.hook = "h2", !.action = "rerequested",
              !.checks = <<1>>],
    [P EXCEPT !.hook = "h2"],
    [P EXCEPT !.repo = FALSE],
    [P EXCEPT !.org = "other"],
    [P EXCEPT !.hook = "h3"],
    [P EXCEPT !.signed = FALSE] }

\* The second delivery is a comment on the pull request of the first.
MCPayloads ==
  ("e1" :> All) @@
  ("e2" :> {[P EXCEPT !.type = "issue_comment", !.onPullRequest = TRUE]})
=============================================================================
