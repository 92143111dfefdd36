---------------------------- MODULE MCReconciler ----------------------------
(* Keys for model checking: one pull request by both its URLs, and a URL   *)
(* that is none of a resource.                                             *)
EXTENDS Reconciler

CONSTANTS issue, pull, files

Url(parts, kind) == [host |-> "github.com", parts |-> parts, repo |-> "org/repo",
                     kind |-> kind, number |-> 1]
MCUrlOf == [u \in {issue, pull, files} |->
              IF u = issue THEN Url(4, "issues")
              ELSE Url(IF u = pull THEN 4 ELSE 5, "pull")]
=============================================================================
