---------------------------- MODULE StateComment ----------------------------
(***************************************************************************)
(* The state of a reconciler, kept in a comment on the issue or pull       *)
(* request it reconciles, pkg/githubreconciler/state.go.  The comment is   *)
(* known by a marker in its body.  Fetch lists the comments page by page   *)
(* and reads the state; Commit lists them again and edits the comment it   *)
(* finds, or creates one.  Every call to GitHub is a step of its own, and  *)
(* people comment, delete and edit in between.                             *)
(*                                                                         *)
(* A body is a number: Foreign without the marker, Stateless with the      *)
(* marker and no state that can be read, else the state.  The message next *)
(* to the state is left out: whether it is what it was is open, and Commit *)
(* may edit a comment whose state is the one it is to write.               *)
(***************************************************************************)
EXTENDS Integers, Sequences, FiniteSetsExt

CONSTANTS
  Workers,       \* who may reconcile the resource
  PageSize,      \* comments in a page of a listing (100 in the code)
  Target,        \* the states are 1..Target
  MaxComments    \* bound: comments ever posted on the resource

ASSUME CommentAssumption ==
  /\ PageSize \in Nat \ {0} /\ Target \in Nat \ {0} /\ MaxComments \in Nat

VARIABLES
  comments,    \* what GitHub lists: comments in the order they were made
  posted,        \* comments made so far, the newest identifier
  op,          \* op[w]: the Fetch or Commit of w
  stored,      \* auxiliary: the state the last commit wrote, 0 for none
  disturbed    \* auxiliary: what the code does not guard against and happened

commentVars == <<comments, posted, op, stored, disturbed>>

Foreign == -1
Stateless == 0

\* page is the page to list next, at the comment found, and state what Fetch
\* returned or Commit is to write.  A state of 0 is Go's nil.
NoOp == [pc |-> "idle", page |-> 1, found |-> 0, state |-> 0]

CommentInit ==
  /\ comments = <<>>
  /\ posted = 0
  /\ op = [w \in Workers |-> NoOp]
  /\ stored = 0
  /\ disturbed = {}

To(w, pc) == op' = [op EXCEPT ![w].pc = pc]

-----------------------------------------------------------------------------
(* One call of ListComments. *)

\* The comments on page p, and those of them with the marker.
Page(p) == {i \in DOMAIN comments : (p - 1) * PageSize < i /\ i <= p * PageSize}
Ours(p) == {i \in Page(p) : comments[i].body # Foreign}
NextPage(p) == Len(comments) > p * PageSize

\* Where the comment with identifier id is, if it still is.
At(id) == {i \in DOMAIN comments : comments[i].id = id}

-----------------------------------------------------------------------------
(* Fetch *)

FetchCall(w) ==
  /\ op[w].pc = "idle"
  /\ op' = [op EXCEPT ![w] = [NoOp EXCEPT !.pc = "fetch"]]
  /\ disturbed' = IF \E v \in Workers : op[v].pc # "idle"
                  THEN disturbed \union {"overlap"} ELSE disturbed
  /\ UNCHANGED <<comments, posted, stored>>

\* Mistake: only the first page is read.
FetchFirstPage(w) ==
  LET hits == Ours(1) IN
  /\ op[w].pc = "fetch"
  /\ op' = [op EXCEPT ![w].pc = "fetched",
       ![w].state = IF hits = {} THEN 0 ELSE comments[Min(hits)].body]
  /\ UNCHANGED <<comments, posted, stored, disturbed>>

(* The next page: the first comment with the marker is ours, and what      *)
(* cannot be read there is no state.                                       *)
FetchPage(w) ==
  LET p == op[w].page
      hits == Ours(p) IN
  /\ op[w].pc = "fetch"
  /\ op' = [op EXCEPT ![w] =
       IF hits # {} THEN [@ EXCEPT !.pc = "fetched", !.state = comments[Min(hits)].body]
       ELSE IF NextPage(p) THEN [@ EXCEPT !.page = p + 1]
       ELSE [@ EXCEPT !.pc = "fetched"]]
  /\ UNCHANGED <<comments, posted, stored, disturbed>>

-----------------------------------------------------------------------------
(* Commit *)

CommitCall(w, state) ==
  /\ op[w].pc = "fetched"
  /\ op' = [op EXCEPT ![w] = [NoOp EXCEPT !.pc = "find", !.state = state]]
  /\ UNCHANGED <<comments, posted, stored, disturbed>>

\* Mistake: only the first page is searched.
FindOnFirstPage(w) ==
  LET hits == Ours(1) IN
  /\ op[w].pc = "find"
  /\ op' = [op EXCEPT ![w] =
       IF hits # {} THEN [@ EXCEPT !.pc = "edit", !.found = comments[Min(hits)].id]
       ELSE [@ EXCEPT !.pc = "create"]]
  /\ UNCHANGED <<comments, posted, stored, disturbed>>

\* Mistake: the last page is not taken for the last.
FindPagesOn(w) ==
  LET p == op[w].page
      hits == Ours(p) IN
  /\ op[w].pc = "find"
  /\ op' = [op EXCEPT ![w] =
       IF hits = {} THEN [@ EXCEPT !.page = p + 1]
       ELSE [@ EXCEPT !.pc = "edit", !.found = comments[Min(hits)].id]]
  /\ UNCHANGED <<comments, posted, stored, disturbed>>

(* findExistingComment, the next page; nothing to do when the comment      *)
(* already reads as it should, the state and the message.                  *)
FindPage(w) ==
  LET p == op[w].page
      hits == Ours(p)
      first == comments[Min(hits)] IN
  /\ op[w].pc = "find"
  /\ \E sameMessage \in BOOLEAN : op' = [op EXCEPT ![w] =
       IF hits = {}
       THEN IF NextPage(p) THEN [@ EXCEPT !.page = p + 1] ELSE [@ EXCEPT !.pc = "create"]
       ELSE IF first.body = op[w].state /\ sameMessage THEN [@ EXCEPT !.pc = "committed"]
       ELSE [@ EXCEPT !.pc = "edit", !.found = first.id]]
  /\ UNCHANGED <<comments, posted, stored, disturbed>>

\* Mistake: the identifier is taken for a position in the listing.
EditAtPosition(w, answer) ==
  /\ op[w].pc = "edit"
  /\ op[w].found \in DOMAIN comments
  /\ comments' = [comments EXCEPT ![op[w].found].body = op[w].state]
  /\ stored' = op[w].state
  /\ To(w, answer)
  /\ UNCHANGED <<posted, disturbed>>

(* EditComment, by identifier, takes effect; the answer says so or is lost. *)
EditComment(w, answer) ==
  LET where == At(op[w].found) IN
  /\ op[w].pc = "edit"
  /\ where # {}
  /\ comments' = [comments EXCEPT ![Max(where)].body = op[w].state]
  /\ stored' = op[w].state
  /\ To(w, answer)
  /\ UNCHANGED <<posted, disturbed>>

(* CreateComment takes effect; the answer says so or is lost. *)
CreateComment(w, answer) ==
  /\ op[w].pc = "create"
  /\ posted < MaxComments
  /\ posted' = posted + 1
  /\ comments' = Append(comments, [id |-> posted + 1, body |-> op[w].state])
  /\ stored' = op[w].state
  /\ To(w, answer)
  /\ UNCHANGED disturbed

\* Mistake: Commit returns nil when its last call failed.
CallIsIgnored(w) ==
  /\ op[w].pc \in {"fetch", "find", "edit", "create"}
  /\ To(w, IF op[w].pc \in {"edit", "create"} THEN "committed" ELSE "failed")
  /\ UNCHANGED <<comments, posted, stored, disturbed>>

(* A call fails without effect: Fetch or Commit returns the error. *)
CallFails(w) ==
  /\ op[w].pc \in {"fetch", "find", "edit", "create"}
  /\ To(w, "failed")
  /\ UNCHANGED <<comments, posted, stored, disturbed>>

\* The comment to edit is gone: an error as well.
EditMisses(w) ==
  /\ op[w].pc = "edit" /\ At(op[w].found) = {}
  /\ To(w, "failed")
  /\ UNCHANGED <<comments, posted, stored, disturbed>>

\* The reconciler is done with the resource.
Leave(w) == op' = [op EXCEPT ![w] = NoOp] /\ UNCHANGED <<comments, posted, stored, disturbed>>

-----------------------------------------------------------------------------
(* People *)

SomeoneComments ==
  /\ posted < MaxComments
  /\ posted' = posted + 1
  /\ comments' = Append(comments, [id |-> posted + 1, body |-> Foreign])
  /\ UNCHANGED <<op, stored, disturbed>>

\* A listing that is past comment i skips a comment when i is deleted.
Shifts(i) == \E w \in Workers :
  op[w].pc \in {"fetch", "find"} /\ i <= (op[w].page - 1) * PageSize

SomeoneDeletes(i) ==
  /\ i \in DOMAIN comments
  /\ comments' = [j \in 1..(Len(comments) - 1) |->
                    IF j < i THEN comments[j] ELSE comments[j + 1]]
  /\ disturbed' = disturbed \union (IF Shifts(i) THEN {"shift"} ELSE {})
                            \union (IF comments[i].body # Foreign THEN {"edit"} ELSE {})
  /\ UNCHANGED <<posted, op, stored>>

\* The comment is kept, and its state can no longer be read.
SomeoneEdits(i) ==
  /\ i \in DOMAIN comments /\ comments[i].body > Stateless
  /\ comments' = [comments EXCEPT ![i].body = Stateless]
  /\ disturbed' = disturbed \union {"edit"}
  /\ UNCHANGED <<posted, op, stored>>

-----------------------------------------------------------------------------
CommentTypeOK ==
  /\ comments \in Seq([id : 1..MaxComments, body : Foreign..Target])
  /\ Len(comments) <= MaxComments
  /\ posted \in 0..MaxComments
  /\ op \in [Workers -> [pc : {"idle", "fetch", "fetched", "find", "edit", "create",
                               "committed", "failed"},
                         page : 1..(MaxComments + 1), found : 0..MaxComments,
                         state : 0..Target]]
  /\ stored \in 0..Target
  /\ disturbed \subseteq {"overlap", "shift", "edit"}

\* state.go 89: "the current state from the automation comment": there is one.
\* Failed calls, retries and comments of others never make a second one, unless
\* two reconcilers overlap or a deletion hides the comment from a listing.
OneComment ==
  disturbed \intersect {"overlap", "shift"} = {} =>
    Cardinality({i \in DOMAIN comments : comments[i].body # Foreign}) <= 1

\* What Fetch returns is what the last commit wrote, also when that commit
\* failed after taking effect, and however many pages come before the comment.
FetchedIsCommitted ==
  \A w \in Workers : op[w].pc = "fetched" /\ disturbed = {} => op[w].state = stored

\* The comments of others never become the reconciler's, whatever was deleted
\* between the listing that found its comment and the edit.
OthersKept ==
  [][\A i \in DOMAIN comments, j \in DOMAIN comments' :
       comments[i].id = comments'[j].id /\ comments[i].body = Foreign =>
         comments'[j] = comments[i]]_commentVars
=============================================================================
