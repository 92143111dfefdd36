------------------------------ MODULE LogRotate ------------------------------
(***************************************************************************)
(* Events on their way to the bucket they are loaded from: the recorder    *)
(* writes each one to a file (modules/cloudevent-recorder/cmd/recorder),   *)
(* the uploader beside it combines the files of a directory into an object *)
(* and deletes them (pkg/rotate/blob.go).  They share the directory and    *)
(* no lock.                                                                *)
(*                                                                         *)
(* Apart names what the code leaves to luck: a file is not being written   *)
(* while the uploader has it in hand.  Writing takes a moment, a rotation  *)
(* comes every few minutes.                                                *)
(***************************************************************************)
EXTENDS Naturals, FiniteSets

CONSTANTS
  Events, Dirs, DirOf,  \* DirOf[e]: the directory of e, its type
  Oversized,            \* events with a line longer than the scanner's buffer
  Handlers,             \* requests the recorder serves at a time
  MaxUploadAttempt,
  Apart,
  MaxDuplicates,        \* bound: events delivered again, once each
  MaxFailures           \* bound: calls that fail, and stops of the uploader

ASSUME LogRotateAssumption ==
  /\ Events # {} /\ DirOf \in [Events -> Dirs] /\ Oversized \subseteq Events
  /\ MaxUploadAttempt \in Nat \ {0} /\ Apart \in BOOLEAN
  /\ MaxDuplicates \in Nat /\ MaxFailures \in Nat

VARIABLES
  file,        \* file[e]: "absent", "empty" (created, not written yet) or "whole"
  handler,     \* handler[h]: a request; linked: its open file has a name still
  up,          \* the uploader
  object,      \* object[d]: events in the object of this rotation for d
  copies,      \* copies[e]: objects of earlier rotations with e, counted to 2
  term,        \* SIGTERM has been received
  deliveries, failures,  \* so far, within their bounds
  ended,       \* auxiliary: Run has ended with an error
  acked,       \* auxiliary: events the recorder has accepted
  nacked,      \* auxiliary: events that will be delivered again
  due          \* auxiliary: events accepted before SIGTERM, and not delivered since

recorderVars == <<handler, deliveries, acked, nacked, due>>
vars == <<file, up, object, copies, term, failures, ended, recorderVars>>

\* batch: files listed and not dealt with; files: those of the directory in
\* hand; left: those of them still to read or remove; got: what was read.
Ready == [pc |-> "ready", batch |-> {}, files |-> {}, left |-> {}, got |-> {},
          attempt |-> 0, removeErr |-> FALSE, done |-> FALSE]
Stopped == [Ready EXCEPT !.pc = "stopped"]

NoRequest(e) == [pc |-> "idle", event |-> e, linked |-> FALSE]

Init ==
  /\ file = [e \in Events |-> "absent"]
  /\ handler = [h \in Handlers |-> NoRequest(CHOOSE e \in Events : TRUE)]
  /\ up = Ready
  /\ object = [d \in Dirs |-> {}]
  /\ copies = [e \in Events |-> 0]
  /\ term = FALSE
  /\ deliveries = [e \in Events |-> 0] /\ failures = 0 /\ ended = FALSE
  /\ acked = {} /\ nacked = {} /\ due = {}

Fail == failures < MaxFailures /\ failures' = failures + 1

InFlight(e) == \E h \in Handlers : handler[h].pc # "idle" /\ handler[h].event = e
Writing(e) == \E h \in Handlers : handler[h].pc = "write" /\ handler[h].event = e

\* What the uploader has listed and not dealt with.
InHand == up.batch \union (IF up.pc = "remove" THEN up.left ELSE up.files)

-----------------------------------------------------------------------------
(* The recorder *)

(* An event is delivered, for the first time or again. *)
Deliver(h, e) ==
  /\ handler[h].pc = "idle"
  /\ \/ deliveries[e] = 0
     \/ deliveries[e] = 1 /\ Cardinality({f \in Events : deliveries[f] = 2}) < MaxDuplicates
  /\ deliveries' = [deliveries EXCEPT ![e] = @ + 1]
  /\ handler' = [handler EXCEPT ![h] = [NoRequest(e) EXCEPT !.pc = "open"]]
  /\ nacked' = nacked \ {e}
  /\ due' = due \ {e}
  /\ UNCHANGED <<file, up, object, copies, term, failures, ended, acked>>

(* WriteFile opens the file and empties it. *)
Open(h) ==
  LET e == handler[h].event IN
  /\ handler[h].pc = "open"
  /\ Apart => e \notin InHand
  /\ file' = [file EXCEPT ![e] = "empty"]
  /\ handler' = [handler EXCEPT ![h].pc = "write", ![h].linked = TRUE]
  /\ UNCHANGED <<up, object, copies, term, deliveries, failures, ended, due, acked, nacked>>

(* It writes the event, to a file without a name if that was removed. *)
Write(h) ==
  LET e == handler[h].event IN
  /\ handler[h].pc = "write"
  /\ file' = [file EXCEPT ![e] = IF handler[h].linked THEN "whole" ELSE @]
  /\ handler' = [handler EXCEPT ![h] = NoRequest(e)]
  /\ acked' = acked \union {e}
  /\ UNCHANGED <<up, object, copies, term, deliveries, failures, ended, due, nacked>>

\* Removing a file takes the name from those who have it open.
Unlinked(e) ==
  [h \in Handlers |-> [handler[h] EXCEPT !.linked = @ /\ handler[h].event # e]]

(* WriteFile fails and the file is removed; or MkdirAll does. *)
WriteFails(h) ==
  LET e == handler[h].event IN
  /\ Fail
  /\ \/ /\ handler[h].pc \in {"open", "write"}
        /\ file' = [file EXCEPT ![e] = "absent"]
        /\ handler' = [Unlinked(e) EXCEPT ![h] = NoRequest(e)]
     \/ /\ handler[h].pc = "open"
        /\ handler' = [handler EXCEPT ![h] = NoRequest(e)]
        /\ UNCHANGED file
  /\ nacked' = nacked \union {e}
  /\ UNCHANGED <<up, object, copies, term, deliveries, ended, due, acked>>

(* SIGTERM.  Requests that were accepted are still served. *)
Terminate ==
  /\ ~term
  /\ term' = TRUE
  /\ due' = {e \in acked \ nacked : ~InFlight(e)}
  /\ UNCHANGED <<file, up, object, copies, failures, ended, handler, deliveries, acked, nacked>>

-----------------------------------------------------------------------------
(* The uploader: Run *)

\* The objects of a rotation are named by the time it begins.
Counted ==
  [e \in Events |-> IF \E d \in Dirs : e \in object[d]
                    THEN (IF copies[e] = 0 THEN 1 ELSE 2) ELSE copies[e]]

(* WalkDir: list the files. *)
Walk ==
  /\ up.pc = "ready"
  /\ Apart => \A e \in Events : ~Writing(e)
  /\ up' = [up EXCEPT !.pc = "next", !.batch = {e \in Events : file[e] # "absent"}]
  /\ copies' = Counted
  /\ object' = [d \in Dirs |-> {}]
  /\ UNCHANGED <<file, term, failures, ended, recorderVars>>

\* Run returns an error and the program ends.
End == up' = Stopped /\ ended' = TRUE

\* Begin, or begin again, to upload the files in hand.
Reading(u, attempt) ==
  [u EXCEPT !.pc = "read", !.left = u.files, !.got = {}, !.attempt = attempt]

(* The next directory, or the end of this rotation. *)
NextDir ==
  /\ up.pc = "next"
  /\ \/ \E d \in {DirOf[e] : e \in up.batch} :
          LET files == {e \in up.batch : DirOf[e] = d} IN
          up' = Reading([up EXCEPT !.files = files, !.batch = @ \ files], 1)
     \/ /\ up.batch = {}
        /\ up' = [Ready EXCEPT !.pc = IF up.done THEN "exited" ELSE "sleep"]
  /\ UNCHANGED <<file, object, copies, term, failures, ended, recorderVars>>

\* Mistake: SIGTERM ends the loop without another rotation.
AwakeExits ==
  /\ up.pc = "sleep"
  /\ \/ up' = Ready
     \/ term /\ up' = [Ready EXCEPT !.pc = "exited"]
  /\ UNCHANGED <<file, object, copies, term, failures, ended, recorderVars>>

\* Mistake: the flush interval is waited for in vain.
AwakeAtTerm ==
  /\ up.pc = "sleep"
  /\ term /\ up' = [Ready EXCEPT !.done = TRUE]
  /\ UNCHANGED <<file, object, copies, term, failures, ended, recorderVars>>

(* The flush interval is over, or SIGTERM asks for one more rotation. *)
Awake ==
  /\ up.pc = "sleep"
  /\ \/ up' = Ready
     \/ term /\ up' = [Ready EXCEPT !.done = TRUE]
  /\ UNCHANGED <<file, object, copies, term, failures, ended, recorderVars>>

(* BufferWriteToBucket: a file that is gone ends Run, one that cannot be   *)
(* scanned is passed over.                                                 *)
Read(e) ==
  /\ up.pc = "read" /\ e \in up.left
  /\ \/ file[e] = "absent" /\ End
     \/ /\ file[e] # "absent"
        /\ up' = [up EXCEPT !.left = @ \ {e},
             !.got = IF file[e] = "whole" /\ e \notin Oversized THEN @ \union {e} ELSE @]
        /\ UNCHANGED ended
  /\ UNCHANGED <<file, object, copies, term, failures, recorderVars>>

InDir(d) == d \in {DirOf[e] : e \in up.files}

\* The object of the directory in hand gets what was read.
Committed == [d \in Dirs |-> IF InDir(d) THEN up.got ELSE object[d]]

AllRead == up.pc = "read" /\ up.left = {}

(* Close succeeds: the object is there. *)
CloseSucceeds ==
  /\ AllRead
  /\ object' = Committed
  /\ up' = [up EXCEPT !.pc = "remove", !.left = up.files]
  /\ UNCHANGED <<file, copies, term, failures, ended, recorderVars>>

\* Mistake: the attempts are not counted.
RetryForEver == up' = Reading(up, up.attempt + 1) /\ UNCHANGED ended

Retry ==
  \/ /\ up.attempt < MaxUploadAttempt
     /\ up' = Reading(up, up.attempt + 1)
     /\ UNCHANGED ended
  \/ up.attempt = MaxUploadAttempt /\ End

\* Mistake: files are removed although the last attempt failed.
CloseFailsOnce ==
  /\ AllRead /\ Fail
  /\ object' \in {object, Committed}
  /\ up' = [up EXCEPT !.pc = "remove", !.left = up.files]
  /\ UNCHANGED <<file, copies, term, ended, recorderVars>>

\* Mistake: every attempt writes to an object with a name of its own.
CloseFailsRenames ==
  /\ AllRead /\ Fail
  /\ \/ UNCHANGED copies
     \/ copies' = [e \in Events |-> IF e \in up.got THEN (IF copies[e] = 0 THEN 1 ELSE 2)
                                    ELSE copies[e]]
  /\ Retry
  /\ UNCHANGED <<file, object, term, recorderVars>>

(* Close fails, perhaps only its answer is lost: try again, or end Run. *)
CloseFails ==
  /\ AllRead /\ Fail
  /\ object' \in {object, Committed}
  /\ Retry
  /\ UNCHANGED <<file, copies, term, recorderVars>>

(* Remove the files one by one.  One that cannot be removed ends Run once  *)
(* the others of the directory are.                                        *)
Remove(e) ==
  /\ up.pc = "remove" /\ e \in up.left
  /\ \/ /\ file[e] # "absent"
        /\ file' = [file EXCEPT ![e] = "absent"]
        /\ handler' = Unlinked(e)
        /\ up' = [up EXCEPT !.left = @ \ {e}]
        /\ UNCHANGED failures
     \/ /\ IF file[e] = "absent" THEN UNCHANGED failures ELSE Fail
        /\ up' = [up EXCEPT !.left = @ \ {e}, !.removeErr = TRUE]
        /\ UNCHANGED <<file, handler>>
  /\ UNCHANGED <<object, copies, term, ended, deliveries, due, acked, nacked>>

RemovedAll ==
  /\ up.pc = "remove" /\ up.left = {}
  /\ IF up.removeErr THEN End
     ELSE up' = [up EXCEPT !.pc = "next", !.files = {}] /\ UNCHANGED ended
  /\ UNCHANGED <<file, object, copies, term, failures, recorderVars>>

(* Any other call of Run fails, or the process is killed. *)
RunFails ==
  /\ up.pc \notin {"stopped", "exited"}
  /\ Fail
  /\ End
  /\ UNCHANGED <<file, object, copies, term, recorderVars>>

(* The container is started again, with the directory it left. *)
Restart ==
  /\ up.pc = "stopped" /\ ~term
  /\ up' = Ready
  /\ UNCHANGED <<file, object, copies, term, failures, ended, recorderVars>>

Run ==
  \/ Walk \/ NextDir \/ Awake \/ CloseSucceeds \/ RemovedAll \/ Restart
  \/ \E e \in Events : Read(e) \/ Remove(e)

Next ==
  \/ \E h \in Handlers :
       Open(h) \/ Write(h) \/ WriteFails(h) \/ \E e \in Events : Deliver(h, e)
  \/ Terminate
  \/ Run \/ CloseFails \/ RunFails

Spec == Init /\ [][Next]_vars

(***************************************************************************)
(* Fairness: what the recorder began it ends, events that failed are       *)
(* delivered again, the uploader goes on, and is started again.            *)
(***************************************************************************)
Fairness ==
  /\ WF_vars(Run)
  /\ \A h \in Handlers : WF_vars(Open(h) \/ Write(h))

FairSpec == Spec /\ Fairness

-----------------------------------------------------------------------------
TypeOK ==
  /\ file \in [Events -> {"absent", "empty", "whole"}]
  /\ handler \in [Handlers -> [pc : {"idle", "open", "write"}, event : Events,
                               linked : BOOLEAN]]
  /\ up \in [pc : {"ready", "next", "read", "remove", "sleep", "stopped", "exited"},
             batch : SUBSET Events, files : SUBSET Events, left : SUBSET Events,
             got : SUBSET Events, attempt : 0..MaxUploadAttempt,
             removeErr : BOOLEAN, done : BOOLEAN]
  /\ object \in [Dirs -> SUBSET Events]
  /\ copies \in [Events -> 0..2]
  /\ term \in BOOLEAN
  /\ deliveries \in [Events -> 0..2] /\ failures \in 0..MaxFailures
  /\ ended \in BOOLEAN
  /\ acked \subseteq Events /\ nacked \subseteq Events /\ due \subseteq Events

Stored(e) == copies[e] > 0 \/ \E d \in Dirs : e \in object[d]

\* blob.go 130: files are deleted only after a successful upload.  An event
\* that the recorder accepted is in its file or in an object, whatever fails
\* in between, or is being written again because it was delivered again.
\* Only under Apart: a file that is uploaded while it is being written is
\* removed with what was written since.
RecordedIsKept ==
  \A e \in acked \ Oversized :
    file[e] = "whole" \/ Stored(e) \/ e \in nacked \/ InFlight(e)

\* An event that was delivered once is uploaded once unless Run ends with an
\* error: an attempt that is made again, also after one whose object was there
\* although Close failed, writes to the same name (blob.go 69, 108).
UploadedOnce ==
  \A e \in Events : deliveries[e] = 1 /\ ~ended =>
    copies[e] = 0 \/ (copies[e] = 1 /\ \A d \in Dirs : e \notin object[d])

\* "Flushing one more time": when Run returns nil every event accepted before
\* SIGTERM has been uploaded, whatever the uploader was doing when it came.
FlushedAtExit == up.pc = "exited" => \A e \in due \ Oversized : Stored(e)

\* Every event the recorder accepts is uploaded in the end, after how many
\* failed uploads and restarts ever, unless SIGTERM comes first.
EveryEventUploaded ==
  \A e \in Events \ Oversized : e \in acked ~> (Stored(e) \/ e \in nacked \/ term)
=============================================================================
