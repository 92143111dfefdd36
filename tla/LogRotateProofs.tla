-------------------------- MODULE LogRotateProofs --------------------------
(***************************************************************************)
(* What the recorder and the uploader of LogRotate keep, for every number  *)
(* of events, directories and requests, whatever calls fail and whenever   *)
(* the uploader is stopped.                                                *)
(*                                                                         *)
(*   TypeOK        the types                                               *)
(*   Shaped        what the uploader has in hand: files of directories it  *)
(*                 has not uploaded in this rotation                       *)
(*   FileInv       what files there are, and who writes them               *)
(*   OnceInv       with those, why an event is uploaded once               *)
(*   KeptInv       with those and Apart, why none is lost                  *)
(*                                                                         *)
(* OnceInv needs no assumption on when files are written: an event that is *)
(* delivered once is whole from the moment its file can be uploaded.       *)
(***************************************************************************)
EXTENDS LogRotate, TLAPS

\* The values of a request, and of the uploader.
Requests == [pc : {"idle", "open", "write"}, event : Events, linked : BOOLEAN]
Rotations ==
  [pc : {"ready", "next", "read", "remove", "sleep", "stopped", "exited"},
   batch : SUBSET Events, files : SUBSET Events, left : SUBSET Events,
   got : SUBSET Events, attempt : 0..MaxUploadAttempt,
   removeErr : BOOLEAN, done : BOOLEAN]

-----------------------------------------------------------------------------
(* Types. *)

LEMMA IdleTypes ==
  /\ Ready \in Rotations /\ Stopped \in Rotations
  /\ [Ready EXCEPT !.pc = "exited"] \in Rotations
  /\ [Ready EXCEPT !.pc = "sleep"] \in Rotations
  /\ [Ready EXCEPT !.done = TRUE] \in Rotations
<1>1. 0 \in 0..MaxUploadAttempt
  BY LogRotateAssumption
<1>2. Ready \in Rotations
  BY <1>1 DEF Ready, Rotations
<1> QED
  BY <1>2 DEF Stopped, Rotations

LEMMA NoRequestType == \A e \in Events : NoRequest(e) \in Requests
BY DEF NoRequest, Requests

\* What the steps of the recorder do to its requests.
LEMMA RecorderMoves ==
  ASSUME TypeOK, NEW h \in Handlers
  PROVE  /\ \A e \in Events : Deliver(h, e) =>
              /\ handler'[h].pc = "open" /\ handler'[h].event = e /\ ~handler'[h].linked
              /\ \A g \in Handlers : g # h => handler'[g] = handler[g]
         /\ Open(h) =>
              /\ handler'[h].pc = "write" /\ handler'[h].event = handler[h].event
              /\ handler'[h].linked
              /\ \A g \in Handlers : g # h => handler'[g] = handler[g]
         /\ Write(h) =>
              /\ handler'[h].pc = "idle"
              /\ \A g \in Handlers : g # h => handler'[g] = handler[g]
         /\ WriteFails(h) =>
              /\ handler'[h].pc = "idle"
              /\ \A g \in Handlers : g # h =>
                   /\ handler'[g].pc = handler[g].pc /\ handler'[g].event = handler[g].event
                   /\ \/ handler'[g].linked = handler[g].linked
                      \/ handler[g].event = handler[h].event
         /\ handler' \in [Handlers -> Requests] \/ ~(\/ Open(h) \/ Write(h) \/ WriteFails(h)
                                                     \/ \E e \in Events : Deliver(h, e))
<1>0. handler \in [Handlers -> Requests] /\ handler[h].event \in Events
  BY DEF TypeOK, Requests
<1>1. ASSUME NEW e \in Events, Deliver(h, e)
      PROVE  /\ handler'[h].pc = "open" /\ handler'[h].event = e /\ ~handler'[h].linked
             /\ \A g \in Handlers : g # h => handler'[g] = handler[g]
             /\ handler' \in [Handlers -> Requests]
  <2> DEFINE r == [NoRequest(e) EXCEPT !.pc = "open"]
  <2>1. r \in Requests /\ r.pc = "open" /\ r.event = e /\ ~r.linked
    BY DEF NoRequest, Requests
  <2>2. handler' = [handler EXCEPT ![h] = r]
    BY <1>1 DEF Deliver
  <2> HIDE DEF r
  <2> QED
    BY <1>0, <2>1, <2>2
<1>2. ASSUME Open(h)
      PROVE  /\ handler'[h].pc = "write" /\ handler'[h].event = handler[h].event
             /\ handler'[h].linked
             /\ \A g \in Handlers : g # h => handler'[g] = handler[g]
             /\ handler' \in [Handlers -> Requests]
  <2> DEFINE r == [handler[h] EXCEPT !.pc = "write", !.linked = TRUE]
  <2>1. r \in Requests /\ r.pc = "write" /\ r.event = handler[h].event /\ r.linked
    BY <1>0 DEF Requests
  <2>2. handler' = [handler EXCEPT ![h] = r]
    BY <1>0, <1>2 DEF Open
  <2> HIDE DEF r
  <2> QED
    BY <1>0, <2>1, <2>2
<1>3. ASSUME NEW e \in Events, handler' = [handler EXCEPT ![h] = NoRequest(e)]
      PROVE  /\ handler'[h].pc = "idle"
             /\ \A g \in Handlers : g # h => handler'[g] = handler[g]
             /\ handler' \in [Handlers -> Requests]
  BY <1>0, <1>3, NoRequestType DEF NoRequest
<1>4. ASSUME NEW e \in Events, handler' = [Unlinked(e) EXCEPT ![h] = NoRequest(e)]
      PROVE  /\ handler'[h].pc = "idle"
             /\ \A g \in Handlers : g # h =>
                  /\ handler'[g].pc = handler[g].pc /\ handler'[g].event = handler[g].event
                  /\ handler'[g].linked = handler[g].linked \/ handler[g].event = e
             /\ handler' \in [Handlers -> Requests]
  <2>1. /\ Unlinked(e) \in [Handlers -> Requests]
        /\ \A g \in Handlers :
             /\ Unlinked(e)[g].pc = handler[g].pc /\ Unlinked(e)[g].event = handler[g].event
             /\ Unlinked(e)[g].linked = handler[g].linked \/ handler[g].event = e
    BY <1>0 DEF Unlinked, Requests
  <2> QED
    BY <1>4, <2>1, NoRequestType DEF NoRequest
<1> QED
  BY <1>0, <1>1, <1>2, <1>3, <1>4 DEF Write, WriteFails

LEMMA UnlinkedType ==
  ASSUME TypeOK, NEW e \in Events
  PROVE  /\ Unlinked(e) \in [Handlers -> Requests]
         /\ \A h \in Handlers : /\ Unlinked(e)[h].pc = handler[h].pc
                                /\ Unlinked(e)[h].event = handler[h].event
                                /\ handler[h].event # e => Unlinked(e)[h] = handler[h]
<1>1. handler \in [Handlers -> Requests]
  BY DEF TypeOK, Requests
<1> QED
  BY <1>1 DEF Unlinked, Requests

LEMMA ReadingType ==
  ASSUME NEW u \in Rotations, NEW n \in 0..MaxUploadAttempt
  PROVE  Reading(u, n) \in Rotations
BY DEF Reading, Rotations

LEMMA RunTypes ==
  ASSUME TypeOK, Run \/ CloseFails \/ RunFails
  PROVE  up' \in Rotations
<1>0. up \in Rotations
  BY DEF TypeOK, Rotations
<1>1. CASE Walk
  BY <1>0, <1>1 DEF Walk, Rotations
<1>2. CASE NextDir
  <2>1. ASSUME NEW d, LET files == {e \in up.batch : DirOf[e] = d} IN
               up' = Reading([up EXCEPT !.files = files, !.batch = @ \ files], 1)
        PROVE  up' \in Rotations
    <3> DEFINE files == {e \in up.batch : DirOf[e] = d}
               u == [up EXCEPT !.files = files, !.batch = @ \ files]
    <3>1. files \in SUBSET Events
      BY <1>0 DEF Rotations
    <3> HIDE DEF files
    <3>2. u \in Rotations
      BY <1>0, <3>1 DEF Rotations
    <3>3. 1 \in 0..MaxUploadAttempt
      BY LogRotateAssumption
    <3> HIDE DEF u
    <3>4. Reading(u, 1) \in Rotations
      BY <3>2, <3>3, ReadingType
    <3> QED
      BY <2>1, <3>4 DEF u, files
  <2> QED
    BY <1>2, <2>1, IdleTypes DEF NextDir
<1>3. CASE Awake
  BY <1>3, IdleTypes DEF Awake
<1>4. CASE CloseSucceeds
  BY <1>0, <1>4 DEF CloseSucceeds, Rotations
<1>5. CASE RemovedAll
  <2>1. [up EXCEPT !.pc = "next", !.files = {}] \in Rotations
    BY <1>0 DEF Rotations
  <2> QED
    BY <1>5, <2>1, IdleTypes DEF RemovedAll, End
<1>6. CASE Restart
  BY <1>6, IdleTypes DEF Restart
<1>7. ASSUME NEW e \in Events, Read(e) PROVE up' \in Rotations
  <2>1. \A got \in SUBSET Events : [up EXCEPT !.left = @ \ {e}, !.got = got] \in Rotations
    BY <1>0 DEF Rotations
  <2>2. up.got \in SUBSET Events /\ up.got \union {e} \in SUBSET Events
    BY <1>0 DEF Rotations
  <2> QED
    BY <1>7, <2>1, <2>2, IdleTypes DEF Read, End
<1>8. ASSUME NEW e \in Events, Remove(e) PROVE up' \in Rotations
  BY <1>0, <1>8 DEF Remove, Rotations
<1>9. CASE CloseFails
  <2>1. up.attempt < MaxUploadAttempt => up.attempt + 1 \in 0..MaxUploadAttempt
    BY <1>0, LogRotateAssumption DEF Rotations
  <2> QED
    BY <1>0, <1>9, <2>1, ReadingType, IdleTypes DEF CloseFails, Retry, End
<1>10. CASE RunFails
  BY <1>10, IdleTypes DEF RunFails, End
<1> QED
  BY <1>1, <1>2, <1>3, <1>4, <1>5, <1>6, <1>7, <1>8, <1>9, <1>10 DEF Run

LEMMA CommittedType ==
  ASSUME TypeOK
  PROVE  Committed \in [Dirs -> SUBSET Events] /\ Counted \in [Events -> 0..2]
BY DEF TypeOK, Committed, Counted

LEMMA StepTypes == TypeOK /\ [Next]_vars => TypeOK'
<1> SUFFICES ASSUME TypeOK, [Next]_vars PROVE TypeOK'
  OBVIOUS
<1>0. MaxFailures \in Nat /\ \A h \in Handlers : handler[h].event \in Events
  BY LogRotateAssumption DEF TypeOK
<1>1. ASSUME NEW h \in Handlers, Open(h) \/ Write(h) \/ WriteFails(h) PROVE TypeOK'
  <2>1. handler' \in [Handlers -> Requests]
    BY <1>1, RecorderMoves
  <2>2. file' \in [Events -> {"absent", "empty", "whole"}]
    BY <1>0, <1>1 DEF Open, Write, WriteFails, TypeOK
  <2>3. acked' \subseteq Events /\ nacked' \subseteq Events /\ failures' \in 0..MaxFailures
    BY <1>0, <1>1 DEF Open, Write, WriteFails, Fail, TypeOK
  <2> QED
    BY <1>1, <2>1, <2>2, <2>3 DEF Open, Write, WriteFails, TypeOK, Requests
<1>2. ASSUME NEW h \in Handlers, NEW e \in Events, Deliver(h, e) PROVE TypeOK'
  <2>1. handler' \in [Handlers -> Requests]
    BY <1>2, RecorderMoves
  <2>2. deliveries' \in [Events -> 0..2]
    BY <1>2 DEF Deliver, TypeOK
  <2> QED
    BY <1>2, <2>1, <2>2 DEF Deliver, TypeOK, Requests
<1>3. CASE Terminate
  BY <1>3 DEF Terminate, TypeOK
<1>4. ASSUME NEW e \in Events, Remove(e) PROVE TypeOK'
  <2>1. up' \in Rotations
    BY <1>4, RunTypes DEF Run
  <2>2. handler' \in [Handlers -> Requests]
    BY <1>4, UnlinkedType DEF Remove, TypeOK, Requests
  <2>3. file' \in [Events -> {"absent", "empty", "whole"}] /\ failures' \in 0..MaxFailures
    BY <1>0, <1>4 DEF Remove, Fail, TypeOK
  <2> QED
    BY <1>4, <2>1, <2>2, <2>3 DEF Remove, TypeOK, Rotations, Requests
<1>5. CASE \/ Walk \/ NextDir \/ Awake \/ CloseSucceeds \/ RemovedAll \/ Restart
           \/ CloseFails \/ RunFails \/ \E e \in Events : Read(e)
  <2>1. up' \in Rotations
    BY <1>5, RunTypes DEF Run
  <2>2. object' \in [Dirs -> SUBSET Events] /\ copies' \in [Events -> 0..2]
    BY <1>5, CommittedType DEF Walk, NextDir, Awake, CloseSucceeds, RemovedAll, Restart,
       CloseFails, RunFails, Read, TypeOK
  <2>3. failures' \in 0..MaxFailures
    <3>1. Fail \/ UNCHANGED failures
      BY <1>5 DEF Walk, NextDir, Awake, CloseSucceeds, RemovedAll, Restart, CloseFails,
         RunFails, Read
    <3> QED
      BY <1>0, <3>1 DEF Fail, TypeOK
  <2>4. ended' \in BOOLEAN
    BY <1>5 DEF Walk, NextDir, Awake, CloseSucceeds, RemovedAll, Restart, CloseFails,
       RunFails, Read, Retry, End, TypeOK
  <2>5. UNCHANGED <<file, term, recorderVars>>
    BY <1>5 DEF Walk, NextDir, Awake, CloseSucceeds, RemovedAll, Restart, CloseFails,
       RunFails, Read
  <2> QED
    BY <2>1, <2>2, <2>3, <2>4, <2>5 DEF TypeOK, Rotations, recorderVars
<1>6. CASE UNCHANGED vars
  BY <1>6 DEF vars, recorderVars, TypeOK
<1> QED
  BY <1>1, <1>2, <1>3, <1>4, <1>5, <1>6 DEF Next, Run

LEMMA StartTypes == Init => TypeOK
<1> SUFFICES ASSUME Init PROVE TypeOK
  OBVIOUS
<1>1. (CHOOSE e \in Events : TRUE) \in Events
  BY LogRotateAssumption
<1>2. handler \in [Handlers -> Requests]
  BY <1>1, NoRequestType DEF Init
<1>3. up \in Rotations
  BY IdleTypes DEF Init
<1>4. failures \in 0..MaxFailures /\ deliveries \in [Events -> 0..2] /\ copies \in [Events -> 0..2]
  BY LogRotateAssumption DEF Init
<1>5. file \in [Events -> {"absent", "empty", "whole"}] /\ object \in [Dirs -> SUBSET Events]
  BY DEF Init
<1> QED
  BY <1>2, <1>3, <1>4, <1>5 DEF Init, TypeOK, Requests, Rotations

\* The state stays within its types: in particular an upload is not attempted
\* more often than it may be.
THEOREM RotationIsTyped == Spec => []TypeOK
  BY StartTypes, StepTypes, PTL DEF Spec

-----------------------------------------------------------------------------
(* The uploader. *)

\* What the uploader has in hand, and what its objects hold: it has nothing in
\* hand between rotations, the files in hand are those of directories it has
\* not uploaded yet, and the object of an attempt holds files in hand only.
Shaped ==
  /\ up.pc \in {"ready", "sleep", "stopped", "exited"} => up.batch = {} /\ up.files = {}
  /\ up.pc = "next" => up.files = {}
  /\ up.pc \in {"read", "remove"} => up.left \subseteq up.files
  /\ up.pc = "read" => up.got \subseteq up.files
  /\ \A e \in up.batch, f \in up.files : DirOf[e] # DirOf[f]
  /\ \A e \in up.batch : object[DirOf[e]] = {}
  /\ up.pc = "read" => \A e \in up.files : object[DirOf[e]] \subseteq up.files
  /\ up.done => term
  /\ up.pc = "exited" => term
  /\ up.pc = "stopped" => ended
  /\ up.pc # "remove" => ~up.removeErr

LEMMA StartShape == Init => Shaped
BY DEF Init, Ready, Shaped

\* An upload that begins, or begins again.
LEMMA ReadingView ==
  ASSUME NEW u \in Rotations, NEW n, up' = Reading(u, n)
  PROVE  /\ up'.pc = "read" /\ up'.batch = u.batch /\ up'.files = u.files
         /\ up'.left = u.files /\ up'.got = {} /\ up'.removeErr = u.removeErr
         /\ up'.done = u.done
BY DEF Reading, Rotations

\* The directory that NextDir takes in hand.
LEMMA NextDirView ==
  ASSUME TypeOK, Shaped, NextDir
  PROVE  /\ up.pc = "next" /\ UNCHANGED <<file, object, copies, term, failures, ended, recorderVars>>
         /\ \/ /\ up'.pc = "read" /\ up'.left = up'.files /\ up'.got = {} /\ ~up'.removeErr
               /\ up'.done = up.done
               /\ up.batch = up'.batch \union up'.files
               /\ \A e \in up'.batch, f \in up'.files : DirOf[e] # DirOf[f]
            \/ /\ up.batch = {} /\ up'.batch = {} /\ up'.files = {} /\ ~up'.removeErr /\ ~up'.done
               /\ up'.pc = IF up.done THEN "exited" ELSE "sleep"
<1>0. up \in Rotations
  BY DEF TypeOK, Rotations
<1>1. ASSUME NEW d, LET files == {e \in up.batch : DirOf[e] = d} IN
             up' = Reading([up EXCEPT !.files = files, !.batch = @ \ files], 1)
      PROVE  /\ up'.pc = "read" /\ up'.left = up'.files /\ up'.got = {}
             /\ up'.removeErr = up.removeErr /\ up'.done = up.done
             /\ up.batch = up'.batch \union up'.files
             /\ \A e \in up'.batch, f \in up'.files : DirOf[e] # DirOf[f]
  <2> DEFINE files == {e \in up.batch : DirOf[e] = d}
             u == [up EXCEPT !.files = files, !.batch = @ \ files]
  <2>1. files \in SUBSET Events
    BY <1>0 DEF Rotations
  <2>2. u \in Rotations /\ u.files = files /\ u.batch = up.batch \ files
        /\ u.removeErr = up.removeErr /\ u.done = up.done
    <3> HIDE DEF files
    <3> QED
      BY <1>0, <2>1 DEF Rotations
  <2>3. up' = Reading(u, 1)
    BY <1>1
  <2>4. /\ up'.pc = "read" /\ up'.batch = u.batch /\ up'.files = u.files
        /\ up'.left = u.files /\ up'.got = {} /\ up'.removeErr = u.removeErr
        /\ up'.done = u.done
    <3> HIDE DEF u, files
    <3> QED
      BY <2>2, <2>3, ReadingView
  <2> QED
    BY <2>2, <2>4
<1>2. up.pc = "next" /\ ~up.removeErr
      /\ UNCHANGED <<file, object, copies, term, failures, ended, recorderVars>>
  BY DEF NextDir, Shaped
<1>3. ASSUME up.batch = {}, up' = [Ready EXCEPT !.pc = IF up.done THEN "exited" ELSE "sleep"]
      PROVE  /\ up'.batch = {} /\ up'.files = {} /\ ~up'.removeErr /\ ~up'.done
             /\ up'.pc = IF up.done THEN "exited" ELSE "sleep"
  BY <1>3 DEF Ready
<1> QED
  BY <1>1, <1>2, <1>3 DEF NextDir

\* An attempt that fails is made again, or ends Run.
LEMMA CloseFailsView ==
  ASSUME TypeOK, CloseFails
  PROVE  /\ AllRead /\ object' \in {object, Committed}
         /\ UNCHANGED <<file, copies, term, recorderVars>>
         /\ \/ /\ up'.pc = "read" /\ up'.batch = up.batch /\ up'.files = up.files
               /\ up'.left = up.files /\ up'.got = {} /\ up'.removeErr = up.removeErr
               /\ up'.done = up.done /\ ended' = ended
            \/ End
BY ReadingView DEF CloseFails, Retry, TypeOK, Rotations

\* The object of the directory in hand holds what was read.
LEMMA CommittedView ==
  ASSUME TypeOK, Shaped, AllRead
  PROVE  /\ \A e \in up.files : DirOf[e] \in Dirs /\ Committed[DirOf[e]] = up.got
         /\ \A e \in up.batch : Committed[DirOf[e]] = {}
         /\ \A d \in Dirs : Committed[d] = up.got \/ Committed[d] = object[d]
         /\ \A d \in Dirs : Committed[d] # object[d] => InDir(d)
         /\ up.got \subseteq up.files
<1>1. up.files \subseteq Events /\ up.batch \subseteq Events /\ DirOf \in [Events -> Dirs]
  BY LogRotateAssumption DEF TypeOK
<1>2. \A e \in up.files : DirOf[e] \in Dirs /\ InDir(DirOf[e])
  BY <1>1 DEF InDir
<1>3. \A e \in up.batch : DirOf[e] \in Dirs /\ ~InDir(DirOf[e]) /\ object[DirOf[e]] = {}
  BY <1>1 DEF InDir, Shaped
<1> QED
  BY <1>2, <1>3 DEF Committed, Shaped, AllRead

LEMMA StoppedShape ==
  ASSUME End
  PROVE  Shaped'
BY DEF End, Stopped, Ready, Shaped

LEMMA ReadyShape ==
  ASSUME Shaped, UNCHANGED <<object, term, ended>>,
         \/ up' = Ready
         \/ term /\ up' = [Ready EXCEPT !.done = TRUE]
  PROVE  Shaped'
BY DEF Ready, Shaped

LEMMA StepShape == TypeOK /\ Shaped /\ [Next]_vars => Shaped'
<1> SUFFICES ASSUME TypeOK, Shaped, [Next]_vars PROVE Shaped'
  OBVIOUS
<1>0. up \in Rotations
  BY DEF TypeOK, Rotations
<1>1. CASE UNCHANGED <<up, object, ended>> /\ (term => term')
  BY <1>1 DEF Shaped
<1>2. ASSUME NEW h \in Handlers, \/ Open(h) \/ Write(h) \/ WriteFails(h)
                                 \/ \E e \in Events : Deliver(h, e)
      PROVE  Shaped'
  BY <1>1, <1>2 DEF Open, Write, WriteFails, Deliver
<1>3. CASE Walk
  <2>1. /\ up'.pc = "next" /\ up'.files = {} /\ ~up'.removeErr /\ up'.done = up.done
        /\ up'.batch \subseteq Events
    BY <1>0, <1>3 DEF Walk, Shaped, Rotations
  <2>2. \A e \in Events : object'[DirOf[e]] = {}
    BY <1>3, LogRotateAssumption DEF Walk
  <2> QED
    BY <1>3, <2>1, <2>2 DEF Walk, Shaped
<1>4. CASE NextDir
  <2>1. CASE up'.pc = "read"
    <3>1. \A e \in up'.batch \union up'.files : object'[DirOf[e]] = {}
      BY <1>4, <2>1, NextDirView DEF Shaped
    <3> QED
      BY <1>4, <2>1, <3>1, NextDirView DEF Shaped
  <2>2. CASE up'.pc # "read"
    BY <1>4, <2>2, NextDirView DEF Shaped
  <2> QED
    BY <2>1, <2>2
<1>5. CASE Awake
  BY <1>5, ReadyShape DEF Awake
<1>6. CASE CloseSucceeds
  <2>1. /\ up'.pc = "remove" /\ up'.left = up.files /\ up'.files = up.files
        /\ up'.batch = up.batch /\ up'.done = up.done
    BY <1>0, <1>6 DEF CloseSucceeds, Rotations
  <2>2. \A e \in up.batch : object'[DirOf[e]] = {}
    BY <1>6, CommittedView DEF CloseSucceeds
  <2> QED
    BY <1>6, <2>1, <2>2 DEF CloseSucceeds, Shaped
<1>7. CASE RemovedAll
  <2>1. CASE End
    BY <2>1, StoppedShape
  <2>2. CASE ~up.removeErr /\ up' = [up EXCEPT !.pc = "next", !.files = {}]
    <3>1. /\ up'.pc = "next" /\ up'.files = {} /\ up'.batch = up.batch
          /\ ~up'.removeErr /\ up'.done = up.done
      BY <1>0, <2>2 DEF Rotations
    <3> QED
      BY <1>7, <3>1 DEF RemovedAll, Shaped
  <2> QED
    BY <1>7, <2>1, <2>2 DEF RemovedAll
<1>8. CASE Restart
  BY <1>8, ReadyShape DEF Restart
<1>9. ASSUME NEW e \in Events, Read(e) PROVE Shaped'
  <2>1. CASE End
    BY <2>1, StoppedShape
  <2>2. CASE ended' = ended /\ file[e] # "absent"
    <3>1. /\ up'.pc = "read" /\ up'.left = up.left \ {e} /\ up'.files = up.files
          /\ up'.batch = up.batch /\ up'.done = up.done /\ up'.removeErr = up.removeErr
          /\ up'.got \subseteq up.got \union {e}
      BY <1>0, <1>9, <2>2 DEF Read, Rotations
    <3> QED
      BY <1>9, <2>2, <3>1 DEF Read, Shaped
  <2> QED
    BY <1>9, <2>1, <2>2 DEF Read
<1>10. ASSUME NEW e \in Events, Remove(e) PROVE Shaped'
  <2>1. /\ up.pc = "remove" /\ up'.pc = "remove" /\ up'.left = up.left \ {e}
        /\ up'.files = up.files /\ up'.batch = up.batch /\ up'.done = up.done
    BY <1>0, <1>10 DEF Remove, Rotations
  <2> QED
    BY <1>10, <2>1 DEF Remove, Shaped
<1>11. CASE CloseFails
  <2>1. CASE End
    BY <2>1, StoppedShape
  <2>2. CASE ~End
    <3>1. \A e \in up.batch : object'[DirOf[e]] = {}
      BY <1>11, CloseFailsView, CommittedView DEF Shaped
    <3>2. \A e \in up.files : object'[DirOf[e]] \subseteq up.files
      BY <1>11, CloseFailsView, CommittedView DEF Shaped, AllRead
    <3>3. up.pc = "read"
      BY <1>11 DEF CloseFails, AllRead
    <3> QED
      BY <1>11, <2>2, <3>1, <3>2, <3>3, CloseFailsView DEF Shaped
  <2> QED
    BY <2>1, <2>2
<1>12. CASE RunFails
  BY <1>12, StoppedShape DEF RunFails
<1>13. CASE Terminate \/ UNCHANGED vars
  BY <1>1, <1>13 DEF Terminate, vars
<1> QED
  BY <1>2, <1>3, <1>4, <1>5, <1>6, <1>7, <1>8, <1>9, <1>10, <1>11, <1>12, <1>13 DEF Next, Run

-----------------------------------------------------------------------------
(* The recorder's files. *)

\* A file that is empty is being written, by someone who has its name still.
EmptyIsWritten == \A e \in Events : file[e] = "empty" =>
  \E h \in Handlers : handler[h].pc = "write" /\ handler[h].event = e /\ handler[h].linked

\* What was accepted before SIGTERM, and not delivered since, is not in flight.
DueIsAccepted == \A e \in due : e \in acked /\ e \notin nacked /\ ~InFlight(e)

\* Of an event that was never delivered there is nothing, and one that was
\* delivered once is written once.
Delivered == \A e \in Events :
  /\ deliveries[e] = 0 =>
       /\ file[e] = "absent" /\ ~InFlight(e) /\ ~Stored(e)
       /\ up.pc = "read" => e \notin up.got
  /\ deliveries[e] = 1 =>
       /\ \A h, i \in Handlers :
            /\ handler[h].pc # "idle" /\ handler[h].event = e
            /\ handler[i].pc # "idle" /\ handler[i].event = e
            => h = i
       /\ file[e] = "whole" => ~InFlight(e)

FileInv == EmptyIsWritten /\ DueIsAccepted /\ Delivered

\* Between rotations an object is counted.
LEMMA WalkStores ==
  ASSUME TypeOK, Walk, NEW e \in Events
  PROVE  /\ Stored(e)' <=> Stored(e)
         /\ \A d \in Dirs : e \notin object'[d]
         /\ copies'[e] = IF \E d \in Dirs : e \in object[d]
                         THEN (IF copies[e] = 0 THEN 1 ELSE 2) ELSE copies[e]
<1>1. copies[e] \in 0..2 /\ copies'[e] = IF \E d \in Dirs : e \in object[d]
                         THEN (IF copies[e] = 0 THEN 1 ELSE 2) ELSE copies[e]
  BY DEF TypeOK, Walk, Counted
<1>2. \A d \in Dirs : e \notin object'[d]
  BY DEF Walk
<1> QED
  BY <1>1, <1>2 DEF Stored

\* An upload replaces what the object of an earlier attempt held.
LEMMA CommitStores ==
  ASSUME TypeOK, Shaped, AllRead, object' \in {object, Committed}, copies' = copies,
         NEW e \in Events
  PROVE  /\ Stored(e)' => Stored(e) \/ e \in up.got
         /\ Stored(e) /\ (e \notin up.files \/ e \in up.got) => Stored(e)'
         /\ e \in up.got /\ object' = Committed => Stored(e)'
<1>1. \A d \in Dirs : InDir(d) => object[d] \subseteq up.files
  BY DEF InDir, Shaped, AllRead
<1>2. \A d \in Dirs : Committed[d] = IF InDir(d) THEN up.got ELSE object[d]
  BY DEF Committed
<1>3. e \in up.got => \E d \in Dirs : InDir(d)
  BY CommittedView, LogRotateAssumption DEF InDir
<1>4. Stored(e)' => Stored(e) \/ e \in up.got
  BY <1>2 DEF Stored
<1>5. Stored(e) /\ (e \notin up.files \/ e \in up.got) => Stored(e)'
  <2>1. CASE object' = object
    BY <2>1 DEF Stored
  <2>2. CASE object' = Committed
    <3>1. ASSUME NEW d \in Dirs, e \in object[d], e \notin up.files \/ e \in up.got
          PROVE  e \in object'[d]
      BY <1>1, <1>2, <2>2, <3>1
    <3> QED
      BY <3>1 DEF Stored
  <2> QED
    BY <2>1, <2>2
<1>6. e \in up.got /\ object' = Committed => Stored(e)'
  BY <1>2, <1>3 DEF Stored
<1> QED
  BY <1>4, <1>5, <1>6

\* What the steps of the uploader leave to the recorder.
LEMMA RunLeaves ==
  ASSUME TypeOK, \/ Walk \/ NextDir \/ Awake \/ CloseSucceeds \/ RemovedAll \/ Restart
                 \/ CloseFails \/ RunFails \/ \E e \in Events : Read(e)
  PROVE  UNCHANGED <<file, term, recorderVars>>
BY DEF Walk, NextDir, Awake, CloseSucceeds, RemovedAll, Restart, CloseFails, RunFails, Read

\* What the steps of the recorder leave to the uploader.
LEMMA RecorderLeaves ==
  ASSUME NEW h \in Handlers,
         Open(h) \/ Write(h) \/ WriteFails(h) \/ \E e \in Events : Deliver(h, e)
  PROVE  UNCHANGED <<up, object, copies, ended, term>>
BY DEF Open, Write, WriteFails, Deliver

LEMMA RemoveView ==
  ASSUME TypeOK, NEW e \in Events, Remove(e)
  PROVE  /\ up.pc = "remove" /\ e \in up.left /\ up'.pc = "remove" /\ up'.left = up.left \ {e}
         /\ up'.files = up.files /\ up'.batch = up.batch /\ up'.got = up.got
         /\ up'.done = up.done
         /\ UNCHANGED <<object, copies, term, ended, deliveries, due, acked, nacked>>
         /\ \A n \in Events : n # e => file'[n] = file[n]
         /\ file'[e] = "absent" \/ (up'.removeErr /\ file' = file /\ handler' = handler)
         /\ up.removeErr => up'.removeErr
         /\ \A h \in Handlers :
              /\ handler'[h].pc = handler[h].pc /\ handler'[h].event = handler[h].event
              /\ handler[h].event # e => handler'[h] = handler[h]
<1>1. up \in Rotations
  BY DEF TypeOK, Rotations
<1>2. \A h \in Handlers :
        /\ handler'[h].pc = handler[h].pc /\ handler'[h].event = handler[h].event
        /\ handler[h].event # e => handler'[h] = handler[h]
  BY UnlinkedType DEF Remove
<1>3. file'[e] = "absent" \/ (up'.removeErr /\ file' = file /\ handler' = handler)
  BY <1>1 DEF Remove, Rotations, TypeOK
<1>4. /\ up'.pc = "remove" /\ up'.left = up.left \ {e} /\ up'.files = up.files
      /\ up'.batch = up.batch /\ up'.got = up.got /\ up'.done = up.done
      /\ up.removeErr => up'.removeErr
  BY <1>1 DEF Remove, Rotations
<1>5. \A n \in Events : n # e => file'[n] = file[n]
  BY DEF Remove, TypeOK
<1> QED
  BY <1>2, <1>3, <1>4, <1>5 DEF Remove

LEMMA StartFiles == Init => FileInv
<1> SUFFICES ASSUME Init PROVE FileInv
  OBVIOUS
<1>1. /\ \A e \in Events : file[e] = "absent" /\ deliveries[e] = 0 /\ copies[e] = 0
      /\ \A d \in Dirs : object[d] = {}
      /\ \A h \in Handlers : handler[h].pc = "idle"
      /\ up.pc = "ready" /\ due = {}
  BY DEF Init, NoRequest, Ready
<1>2. \A e \in Events : ~InFlight(e) /\ ~Stored(e)
  BY <1>1 DEF InFlight, Stored
<1> QED
  BY <1>1, <1>2 DEF FileInv, EmptyIsWritten, DueIsAccepted, Delivered

LEMMA StepFilesRecorder ==
  ASSUME TypeOK, FileInv, NEW h \in Handlers,
         Open(h) \/ Write(h) \/ WriteFails(h) \/ \E e \in Events : Deliver(h, e)
  PROVE  FileInv'
<1>e. PICK e \in Events : e = handler[h].event
  BY DEF TypeOK
<1> USE <1>e
<1>0. /\ UNCHANGED <<up, object, copies, ended, term>>
      /\ \A n \in Events : Stored(n)' <=> Stored(n)
      /\ e \in Events
  BY RecorderLeaves DEF Stored, TypeOK
<1>1. CASE Open(h)
  <2>1. /\ handler[h].pc = "open" /\ file'[e] = "empty"
        /\ \A n \in Events : n # e => file'[n] = file[n]
        /\ UNCHANGED <<deliveries, due, acked, nacked>>
    BY <1>0, <1>1 DEF Open, TypeOK
  <2>2. /\ handler'[h].pc = "write" /\ handler'[h].event = e /\ handler'[h].linked
        /\ \A g \in Handlers : g # h => handler'[g] = handler[g]
    BY <1>1, RecorderMoves
  <2>3. \A n \in Events : InFlight(n)' <=> InFlight(n)
    BY <2>1, <2>2 DEF InFlight
  <2>4. EmptyIsWritten'
    BY <2>1, <2>2 DEF FileInv, EmptyIsWritten
  <2>5. DueIsAccepted'
    BY <2>1, <2>3 DEF FileInv, DueIsAccepted, TypeOK
  <2>6. Delivered'
    <3>1. InFlight(e)
      BY <2>1 DEF InFlight
    <3> QED
      BY <1>0, <2>1, <2>2, <2>3, <3>1 DEF FileInv, Delivered
  <2> QED
    BY <2>4, <2>5, <2>6 DEF FileInv
<1>2. CASE Write(h)
  <2>1. /\ handler[h].pc = "write" /\ file'[e] = IF handler[h].linked THEN "whole" ELSE file[e]
        /\ \A n \in Events : n # e => file'[n] = file[n]
        /\ acked' = acked \union {e} /\ UNCHANGED <<deliveries, due, nacked>>
    BY <1>0, <1>2 DEF Write, TypeOK
  <2>2. /\ handler'[h].pc = "idle"
        /\ \A g \in Handlers : g # h => handler'[g] = handler[g]
    BY <1>2, RecorderMoves
  <2>3. \A n : InFlight(n)' => InFlight(n)
    BY <2>2 DEF InFlight
  <2>4. EmptyIsWritten'
    BY <2>1, <2>2 DEF FileInv, EmptyIsWritten
  <2>5. DueIsAccepted'
    BY <2>1, <2>3 DEF FileInv, DueIsAccepted
  <2>6. Delivered'
    <3>1. InFlight(e)
      BY <2>1 DEF InFlight
    <3>2. ASSUME deliveries[e] = 1 PROVE ~InFlight(e)'
      <4> SUFFICES ASSUME NEW g \in Handlers, handler'[g].pc # "idle", handler'[g].event = e
                   PROVE  FALSE
        BY DEF InFlight
      <4>1. g # h /\ handler[g].pc # "idle" /\ handler[g].event = e
        BY <2>2
      <4> QED
        BY <1>0, <2>1, <3>2, <4>1 DEF FileInv, Delivered
    <3>3. ASSUME NEW n \in Events, n # e PROVE Delivered!(n)'
      <4>1. \A g \in Handlers : handler'[g].pc # "idle" /\ handler'[g].event = n =>
                                handler[g].pc # "idle" /\ handler[g].event = n
        BY <2>2
      <4> QED
        BY <1>0, <2>1, <2>3, <3>3, <4>1 DEF FileInv, Delivered
    <3>4. Delivered!(e)'
      <4>1. deliveries[e] # 0
        BY <1>0, <3>1 DEF FileInv, Delivered
      <4>2. deliveries[e] = 1 => \A g, i \in Handlers :
              /\ handler'[g].pc # "idle" /\ handler'[g].event = e
              /\ handler'[i].pc # "idle" /\ handler'[i].event = e
              => g = i
        BY <3>2 DEF InFlight
      <4> QED
        BY <2>1, <3>2, <4>1, <4>2
    <3> QED
      BY <1>0, <3>3, <3>4 DEF Delivered
  <2> QED
    BY <2>4, <2>5, <2>6 DEF FileInv
<1>3. CASE WriteFails(h)
  <2>1. /\ handler[h].pc # "idle"
        /\ \/ file'[e] = "absent"
           \/ file' = file /\ handler[h].pc = "open"
              /\ \A g \in Handlers : g # h => handler'[g] = handler[g]
        /\ \A n \in Events : n # e => file'[n] = file[n]
        /\ nacked' = nacked \union {e} /\ UNCHANGED <<deliveries, due, acked>>
    BY <1>0, <1>3 DEF WriteFails, TypeOK
  <2>2. /\ handler'[h].pc = "idle"
        /\ \A g \in Handlers : g # h =>
             /\ handler'[g].pc = handler[g].pc /\ handler'[g].event = handler[g].event
             /\ handler'[g].linked = handler[g].linked \/ handler[g].event = e
    BY <1>3, RecorderMoves
  <2>3. \A n : InFlight(n)' => InFlight(n)
    BY <2>2 DEF InFlight
  <2>4. EmptyIsWritten'
    <3> SUFFICES ASSUME NEW n \in Events, file'[n] = "empty"
                 PROVE  \E g \in Handlers : /\ handler'[g].pc = "write" /\ handler'[g].event = n
                                            /\ handler'[g].linked
      BY DEF EmptyIsWritten
    <3>1. file[n] = "empty" /\ (n # e \/ handler[h].pc = "open")
      BY <2>1
    <3>2. PICK g \in Handlers : handler[g].pc = "write" /\ handler[g].event = n /\ handler[g].linked
      BY <3>1 DEF FileInv, EmptyIsWritten
    <3>3. g # h
      BY <3>1, <3>2
    <3> QED
      BY <2>1, <2>2, <3>2, <3>3
  <2>5. InFlight(e)
    BY <2>1 DEF InFlight
  <2>6. DueIsAccepted'
    BY <2>1, <2>3, <2>5 DEF FileInv, DueIsAccepted
  <2>7. Delivered'
    BY <1>0, <2>1, <2>2, <2>3, <2>5 DEF FileInv, Delivered
  <2> QED
    BY <2>4, <2>6, <2>7 DEF FileInv
<1>4. ASSUME NEW n \in Events, Deliver(h, n) PROVE FileInv'
  <2>1. /\ handler[h].pc = "idle" /\ file' = file
        /\ deliveries[n] \in {0, 1} /\ deliveries'[n] = deliveries[n] + 1
        /\ \A m \in Events : m # n => deliveries'[m] = deliveries[m]
        /\ nacked' = nacked \ {n} /\ due' = due \ {n} /\ acked' = acked
    BY <1>4 DEF Deliver, TypeOK
  <2>2. /\ handler'[h].pc = "open" /\ handler'[h].event = n
        /\ \A g \in Handlers : g # h => handler'[g] = handler[g]
    BY <1>4, RecorderMoves
  <2>3. \A m \in Events : m # n => (InFlight(m)' <=> InFlight(m))
    BY <2>1, <2>2 DEF InFlight
  <2>4. EmptyIsWritten'
    BY <2>1, <2>2 DEF FileInv, EmptyIsWritten
  <2>5. DueIsAccepted'
    BY <2>1, <2>3 DEF FileInv, DueIsAccepted, TypeOK
  <2>6. Delivered'
    <3>1. ASSUME NEW m \in Events, m # n PROVE Delivered!(m)'
      <4>1. \A g \in Handlers : (handler'[g].pc # "idle" /\ handler'[g].event = m) <=>
                                (handler[g].pc # "idle" /\ handler[g].event = m)
        BY <2>1, <2>2, <3>1
      <4> QED
        BY <1>0, <2>1, <2>3, <3>1, <4>1 DEF FileInv, Delivered
    <3>2. Delivered!(n)'
      <4>1. CASE deliveries[n] = 0
        <5>1. file[n] = "absent" /\ ~InFlight(n)
          BY <4>1 DEF FileInv, Delivered
        <5>2. \A g \in Handlers : handler'[g].pc # "idle" /\ handler'[g].event = n => g = h
          BY <2>2, <5>1 DEF InFlight
        <5> QED
          BY <2>1, <4>1, <5>1, <5>2
      <4>2. CASE deliveries[n] = 1
        BY <2>1, <4>2
      <4> QED
        BY <2>1, <4>1, <4>2
    <3> QED
      BY <3>1, <3>2 DEF Delivered
  <2> QED
    BY <2>4, <2>5, <2>6 DEF FileInv
<1> QED
  BY <1>1, <1>2, <1>3, <1>4

LEMMA StepFiles == TypeOK /\ Shaped /\ FileInv /\ [Next]_vars => FileInv'
<1> SUFFICES ASSUME TypeOK, Shaped, FileInv, [Next]_vars PROVE FileInv'
  OBVIOUS
<1>1. ASSUME UNCHANGED <<file, term, recorderVars>>,
             \A e \in Events : deliveries[e] = 0 =>
               ~Stored(e)' /\ (up'.pc = "read" => e \notin up'.got)
      PROVE  FileInv'
  <2>1. \A e \in Events : InFlight(e)' <=> InFlight(e)
    BY <1>1 DEF recorderVars, InFlight
  <2> QED
    BY <1>1, <2>1 DEF recorderVars, FileInv, EmptyIsWritten, DueIsAccepted, Delivered, TypeOK
<1>2. \A e \in Events : deliveries[e] = 0 =>
        ~Stored(e) /\ file[e] = "absent" /\ (up.pc = "read" => e \notin up.got)
  BY DEF FileInv, Delivered
<1>3. ASSUME UNCHANGED <<object, copies>> PROVE \A e \in Events : Stored(e)' <=> Stored(e)
  BY <1>3 DEF Stored
<1>4. CASE Walk
  BY <1>1, <1>2, <1>4, WalkStores, RunLeaves DEF Walk, TypeOK
<1>5. CASE NextDir
  BY <1>1, <1>2, <1>3, <1>5, NextDirView
<1>6. CASE Awake \/ Restart \/ RemovedAll \/ RunFails
  <2>1. up'.pc # "read" /\ UNCHANGED <<object, copies>>
    <3>1. UNCHANGED <<object, copies>>
      BY <1>6 DEF Awake, Restart, RemovedAll, RunFails
    <3>2. CASE End \/ up' = Ready \/ up' = [Ready EXCEPT !.done = TRUE]
      BY <3>1, <3>2 DEF End, Stopped, Ready
    <3>3. CASE up' = [up EXCEPT !.pc = "next", !.files = {}]
      BY <3>1, <3>3 DEF TypeOK
    <3> QED
      BY <1>6, <3>2, <3>3 DEF Awake, Restart, RemovedAll, RunFails
  <2> QED
    BY <1>1, <1>2, <1>3, <1>6, <2>1, RunLeaves
<1>7. ASSUME NEW n \in Events, Read(n) PROVE FileInv'
  <2>1. UNCHANGED <<object, copies>>
    BY <1>7 DEF Read
  <2>2. up'.pc = "read" => /\ up.pc = "read" /\ file[n] # "absent"
                           /\ up'.got \subseteq up.got \union {n}
    BY <1>7 DEF Read, End, Stopped, Ready, TypeOK
  <2> QED
    BY <1>1, <1>2, <1>3, <1>7, <2>1, <2>2, RunLeaves
<1>8. CASE CloseSucceeds
  <2>1. AllRead /\ object' = Committed /\ copies' = copies /\ up'.pc = "remove"
    BY <1>8 DEF CloseSucceeds, TypeOK
  <2> QED
    BY <1>1, <1>2, <1>8, <2>1, CommitStores, RunLeaves DEF AllRead
<1>9. CASE CloseFails
  <2>1. up'.pc = "read" => up'.got = {}
    BY <1>9, CloseFailsView DEF End, Stopped, Ready
  <2> QED
    BY <1>1, <1>2, <1>9, <2>1, CloseFailsView, CommitStores DEF AllRead
<1>10. ASSUME NEW e \in Events, Remove(e) PROVE FileInv'
  <2>1. /\ \A n \in Events : InFlight(n)' <=> InFlight(n)
        /\ \A n \in Events : Stored(n)' <=> Stored(n)
    BY <1>10, RemoveView DEF InFlight, Stored
  <2>2. \A n \in Events : file'[n] = file[n] \/ file'[n] = "absent"
    BY <1>10, RemoveView
  <2>3. EmptyIsWritten'
    <3> SUFFICES ASSUME NEW n \in Events, file'[n] = "empty"
                 PROVE  \E g \in Handlers : /\ handler'[g].pc = "write" /\ handler'[g].event = n
                                            /\ handler'[g].linked
      BY DEF EmptyIsWritten
    <3>1. file[n] = "empty" /\ (n # e \/ handler' = handler)
      BY <1>10, <2>2, RemoveView
    <3> QED
      BY <1>10, <3>1, RemoveView DEF FileInv, EmptyIsWritten
  <2>4. DueIsAccepted'
    BY <1>10, <2>1, RemoveView DEF FileInv, DueIsAccepted, TypeOK
  <2>5. Delivered'
    BY <1>10, <2>1, <2>2, RemoveView DEF FileInv, Delivered
  <2> QED
    BY <2>3, <2>4, <2>5 DEF FileInv
<1>11. CASE Terminate
  <2>1. /\ UNCHANGED <<file, up, object, copies, handler, deliveries, acked, nacked>>
        /\ \A e \in due' : e \in acked /\ e \notin nacked /\ ~InFlight(e)
    BY <1>11 DEF Terminate
  <2>2. \A e : (InFlight(e)' <=> InFlight(e)) /\ (Stored(e)' <=> Stored(e))
    BY <2>1 DEF InFlight, Stored
  <2> QED
    BY <2>1, <2>2 DEF FileInv, EmptyIsWritten, DueIsAccepted, Delivered
<1>12. CASE UNCHANGED vars
  BY <1>1, <1>2, <1>3, <1>12 DEF vars
<1> QED
  BY <1>4, <1>5, <1>6, <1>7, <1>8, <1>9, <1>10, <1>11, <1>12, StepFilesRecorder DEF Next, Run

\* What is known of the files, the requests and the uploader together.
LEMMA FilesAreKept == Spec => [](TypeOK /\ Shaped /\ FileInv)
<1>1. Init => TypeOK /\ Shaped /\ FileInv
  BY StartTypes, StartShape, StartFiles
<1>2. (TypeOK /\ Shaped /\ FileInv) /\ [Next]_vars => (TypeOK /\ Shaped /\ FileInv)'
  BY StepTypes, StepShape, StepFiles
<1> QED
  BY <1>1, <1>2, PTL DEF Spec

-----------------------------------------------------------------------------
(* An event is uploaded once. *)

\* An event that was read or uploaded is not written any more, its file is gone
\* once its object is counted, and an object holds it only while its file is
\* still to be removed, or gone.
Once(e) ==
  /\ Stored(e) \/ (up.pc = "read" /\ e \in up.got) => ~InFlight(e)
  /\ copies[e] \in {0, 1}
  /\ copies[e] = 1 => /\ file[e] = "absent"
                      /\ \A d \in Dirs : e \notin object[d]
                      /\ up.pc = "read" => e \notin up.got
  /\ (\E d \in Dirs : e \in object[d]) =>
       \/ up.pc = "read" /\ e \in up.files
       \/ up.pc = "remove" /\ (e \in up.left \/ up.removeErr)
       \/ file[e] = "absent"

OnceInv == ~ended => \A e \in Events : deliveries[e] = 1 => Once(e)

\* What is neither read nor uploaded may be written.
LEMMA UntouchedIsOnce ==
  ASSUME NEW e \in Events, TypeOK', ~Stored(e)', up'.pc = "read" => e \notin up'.got
  PROVE  Once(e)'
<1>1. copies'[e] = 0
  BY DEF Stored, TypeOK
<1> QED
  BY <1>1 DEF Once, Stored

\* A step of the recorder writes an event in flight, and leaves the others.
LEMMA RecorderTouches ==
  ASSUME TypeOK, NEW h \in Handlers,
         Open(h) \/ Write(h) \/ WriteFails(h) \/ \E e \in Events : Deliver(h, e),
         NEW e \in Events, deliveries'[e] = 1
  PROVE  \/ deliveries[e] = 0
         \/ deliveries[e] = 1 /\ InFlight(e)
         \/ deliveries[e] = 1 /\ ~InFlight(e) /\ ~InFlight(e)' /\ file'[e] = file[e]
<1>1. ASSUME NEW n \in Events, Deliver(h, n)
      PROVE  \/ deliveries[e] = 0
             \/ deliveries[e] = 1 /\ (InFlight(e)' <=> InFlight(e)) /\ file'[e] = file[e]
  <2>1. CASE n = e
    BY <1>1, <2>1 DEF Deliver, TypeOK
  <2>2. CASE n # e
    <3>1. deliveries'[e] = deliveries[e] /\ file' = file /\ handler[h].pc = "idle"
      BY <1>1, <2>2 DEF Deliver, TypeOK
    <3>2. InFlight(e)' <=> InFlight(e)
      BY <1>1, <2>2, <3>1, RecorderMoves DEF InFlight
    <3> QED
      BY <3>1, <3>2
  <2> QED
    BY <2>1, <2>2
<1>2. CASE Open(h) \/ Write(h) \/ WriteFails(h)
  <2>1. deliveries' = deliveries /\ handler[h].pc # "idle"
    BY <1>2 DEF Open, Write, WriteFails
  <2>2. handler[h].event # e => file'[e] = file[e]
    BY <1>2 DEF Open, Write, WriteFails, TypeOK
  <2>3. InFlight(e)' => InFlight(e)
    <3>1. CASE Open(h)
      BY <2>1, <3>1, RecorderMoves DEF InFlight
    <3>2. CASE Write(h) \/ WriteFails(h)
      BY <3>2, RecorderMoves DEF InFlight
    <3> QED
      BY <1>2, <3>1, <3>2
  <2>4. handler[h].event = e => InFlight(e)
    BY <2>1 DEF InFlight
  <2> QED
    BY <2>1, <2>2, <2>3, <2>4
<1> QED
  BY <1>1, <1>2

LEMMA StepOnce == TypeOK /\ Shaped /\ FileInv /\ OnceInv /\ [Next]_vars => OnceInv'
<1> SUFFICES ASSUME TypeOK, Shaped, FileInv, OnceInv, [Next]_vars, ~ended',
                    NEW e \in Events, deliveries'[e] = 1
             PROVE  Once(e)'
  BY DEF OnceInv
<1>0. TypeOK' /\ up \in Rotations
  BY StepTypes DEF TypeOK, Rotations
<1>1. ASSUME NEW h \in Handlers, \/ Open(h) \/ Write(h) \/ WriteFails(h)
                                 \/ \E n \in Events : Deliver(h, n)
      PROVE  Once(e)'
  <2>1. UNCHANGED <<up, object, copies, ended>> /\ (Stored(e)' <=> Stored(e))
    BY <1>1, RecorderLeaves DEF Stored
  <2>2. CASE deliveries[e] = 0
    BY <1>0, <2>1, <2>2, UntouchedIsOnce DEF FileInv, Delivered
  <2>3. CASE deliveries[e] = 1 /\ InFlight(e)
    BY <1>0, <2>1, <2>3, UntouchedIsOnce DEF OnceInv, Once
  <2>4. CASE deliveries[e] = 1 /\ ~InFlight(e) /\ ~InFlight(e)' /\ file'[e] = file[e]
    <3>1. Once(e)
      BY <2>1, <2>4 DEF OnceInv
    <3> QED
      BY <2>1, <2>4, <3>1 DEF Once
  <2> QED
    BY <1>1, <2>2, <2>3, <2>4, RecorderTouches
<1>2. ASSUME Run \/ CloseFails \/ RunFails \/ Terminate \/ UNCHANGED vars
      PROVE  Once(e) /\ deliveries[e] = 1 /\ (InFlight(e)' <=> InFlight(e))
  <2>1. deliveries' = deliveries /\ (ended' = ended \/ ended')
    BY <1>2 DEF Run, Walk, NextDir, Awake, CloseSucceeds, RemovedAll, Restart, Read, Remove,
                CloseFails, Retry, RunFails, Terminate, vars, recorderVars, End
  <2>2. InFlight(e)' <=> InFlight(e)
    <3>1. CASE handler' = handler
      BY <3>1 DEF InFlight
    <3>2. ASSUME NEW n \in Events, Remove(n) PROVE InFlight(e)' <=> InFlight(e)
      BY <3>2, RemoveView DEF InFlight
    <3> QED
      BY <1>2, <3>1, <3>2 DEF Run, Walk, NextDir, Awake, CloseSucceeds, RemovedAll, Restart, Read,
                CloseFails, RunFails, Terminate, vars, recorderVars
  <2> QED
    BY <2>1, <2>2 DEF OnceInv
<1>3. CASE Walk
  <2>1. up.pc = "ready" /\ up'.pc = "next" /\ file' = file
    BY <1>0, <1>3 DEF Walk, Rotations
  <2>2. CASE \E d \in Dirs : e \in object[d]
    <3>1. copies[e] = 0 /\ copies'[e] = 1 /\ file[e] = "absent"
      BY <1>2, <1>3, <2>1, <2>2, WalkStores DEF Run, Once
    <3> QED
      BY <1>2, <1>3, <2>1, <3>1, WalkStores DEF Run, Once
  <2>3. CASE ~\E d \in Dirs : e \in object[d]
    BY <1>2, <1>3, <2>1, <2>3, WalkStores DEF Run, Once
  <2> QED
    BY <2>2, <2>3
<1>4. ASSUME UNCHANGED <<file, object, copies>>, up'.pc = "read" => up'.got = {},
             Run \/ CloseFails \/ RunFails, up.pc \notin {"read", "remove"} \/ RemovedAll
      PROVE  Once(e)'
  <2>1. \/ up.pc \notin {"read", "remove"}
        \/ up.pc = "remove" /\ up.left = {} /\ ~up.removeErr
    BY <1>4 DEF RemovedAll, End
  <2>2. (\E d \in Dirs : e \in object[d]) => file[e] = "absent"
    BY <1>2, <1>4, <2>1 DEF Once
  <2> QED
    BY <1>2, <1>4, <2>2 DEF Once, Stored
<1>5. CASE NextDir
  BY <1>4, <1>5, NextDirView DEF Run
<1>6. CASE Awake \/ Restart
  BY <1>4, <1>6 DEF Run, Awake, Restart, Ready
<1>7. CASE RemovedAll
  <2>1. up'.pc = "next"
    BY <1>0, <1>7 DEF RemovedAll, End, Rotations
  <2> QED
    BY <1>4, <1>7, <2>1 DEF Run, RemovedAll
<1>8. ASSUME NEW n \in Events, Read(n) PROVE Once(e)'
  <2>1. UNCHANGED <<file, object, copies>> /\ up.pc = "read" /\ ~End
    BY <1>8 DEF Read, End
  <2>2. /\ up'.pc = "read" /\ up'.files = up.files
        /\ up'.got \subseteq up.got \union {n}
        /\ n \in up'.got \ up.got => file[n] = "whole"
    BY <1>0, <1>8, <2>1 DEF Read, Rotations
  <2>3. Once(e) /\ deliveries[e] = 1 /\ (InFlight(e)' <=> InFlight(e))
    BY <1>2, <1>8 DEF Run
  <2>4. e \in up'.got \ up.got => file[e] = "whole" /\ ~InFlight(e)
    BY <2>2, <2>3 DEF FileInv, Delivered
  <2>5. Stored(e)' <=> Stored(e)
    BY <2>1 DEF Stored
  <2> QED
    BY <2>1, <2>2, <2>3, <2>4, <2>5 DEF Once
<1>9. ASSUME AllRead, object' \in {object, Committed}, UNCHANGED <<file, copies>>,
             Run \/ CloseFails, up'.files = up.files,
             \/ up'.pc = "remove" /\ up'.left = up.files
             \/ up'.pc = "read" /\ up'.got = {}
      PROVE  Once(e)'
  <2>1. Once(e) /\ (InFlight(e)' <=> InFlight(e)) /\ up.pc = "read"
    BY <1>2, <1>9 DEF AllRead
  <2>2. \A d \in Dirs : e \in object'[d] => e \in object[d] \/ e \in up.got
    BY <1>9, CommittedView
  <2>3. e \in up.got => e \in up.files
    BY <1>9, CommittedView
  <2>4. Stored(e)' => Stored(e) \/ e \in up.got
    BY <1>9, CommitStores
  <2>5. (\E d \in Dirs : e \in object'[d]) => e \in up.files \/ file[e] = "absent"
    BY <2>1, <2>2, <2>3 DEF Once
  <2> QED
    BY <1>9, <2>1, <2>2, <2>4, <2>5 DEF Once
<1>10. CASE CloseSucceeds
  <2>1. up'.pc = "remove" /\ up'.left = up.files /\ up'.files = up.files
    BY <1>0, <1>10 DEF CloseSucceeds, Rotations
  <2> QED
    BY <1>9, <1>10, <2>1 DEF Run, CloseSucceeds
<1>11. CASE CloseFails
  BY <1>9, <1>11, CloseFailsView DEF End
<1>12. ASSUME NEW n \in Events, Remove(n) PROVE Once(e)'
  <2>1. Once(e) /\ (InFlight(e)' <=> InFlight(e))
    BY <1>2, <1>12 DEF Run
  <2>2. file[e] = "absent" => file'[e] = "absent"
    BY <1>12, RemoveView
  <2>3. Stored(e)' <=> Stored(e)
    BY <1>12, RemoveView DEF Stored
  <2>4. (\E d \in Dirs : e \in object[d]) => e \in up'.left \/ up'.removeErr \/ file'[e] = "absent"
    BY <1>12, <2>1, <2>2, RemoveView DEF Once
  <2> QED
    BY <1>12, <2>1, <2>2, <2>3, <2>4, RemoveView DEF Once
<1>13. CASE RunFails
  BY <1>13 DEF RunFails, End
<1>14. CASE Terminate \/ UNCHANGED vars
  BY <1>2, <1>14 DEF Terminate, vars, Once, Stored
<1> QED
  BY <1>1, <1>3, <1>5, <1>6, <1>7, <1>8, <1>10, <1>11, <1>12, <1>13, <1>14 DEF Next, Run

\* An event that was delivered once is uploaded once, whatever the uploads and
\* the recorder do meanwhile, unless Run ends with an error.
THEOREM UploadsAreOnce == Spec => []UploadedOnce
<1>1. Init => OnceInv
  BY DEF Init, OnceInv
<1>2. OnceInv => UploadedOnce
  BY DEF OnceInv, Once, UploadedOnce
<1>3. (TypeOK /\ Shaped /\ FileInv) /\ OnceInv /\ [Next]_vars => OnceInv'
  BY StepOnce
<1> QED
  BY <1>1, <1>2, <1>3, FilesAreKept, PTL DEF Spec

-----------------------------------------------------------------------------
(* What the recorder accepted is kept. *)

HandsOff == \A e \in InHand : ~Writing(e)

\* Everything read so far was whole, and what is removed is in an object.
GotAll == up.pc = "read" => \A e \in up.files \ up.left : e \in Oversized \/ e \in up.got
RemovedAreStored == up.pc = "remove" => \A e \in up.files : e \in Oversized \/ Stored(e)

\* Who writes to a file without a name writes what someone else keeps.
Unnamed == \A h \in Handlers : handler[h].pc = "write" /\ ~handler[h].linked =>
  LET e == handler[h].event IN
  \/ e \in nacked \/ file[e] = "whole" \/ Stored(e)
  \/ \E g \in Handlers : /\ handler[g].event = e
                         /\ handler[g].pc = "open" \/ (handler[g].pc = "write" /\ handler[g].linked)

\* The last rotation has uploaded what it should, or has it before it.
Flushing == up.done /\ up.pc \in {"next", "read", "remove"} =>
  \A e \in due \ Oversized : Stored(e) \/ e \in up.batch \/ (up.pc = "read" /\ e \in up.files)

KeptInv ==
  /\ HandsOff /\ GotAll /\ RemovedAreStored
  /\ Unnamed /\ RecordedIsKept
  /\ Flushing /\ FlushedAtExit

LEMMA WalkLists ==
  ASSUME TypeOK, Shaped, Walk
  PROVE  /\ up'.pc = "next" /\ up'.files = {} /\ up'.done = up.done
         /\ up'.batch = {e \in Events : file[e] # "absent"}
<1>1. up \in Rotations /\ {e \in Events : file[e] # "absent"} \in SUBSET Events
  BY DEF TypeOK, Rotations
<1> QED
  BY <1>1 DEF Walk, Shaped, Rotations

\* The steps of the uploader, by what they do to what it has in hand.
LEMMA UploaderMoves ==
  ASSUME TypeOK, Shaped, Run \/ CloseFails \/ RunFails
  PROVE  \/ /\ Walk /\ up'.pc = "next" /\ up'.files = {} /\ up'.done = up.done
            /\ up'.batch = {e \in Events : file[e] # "absent"}
         \/ /\ UNCHANGED <<object, copies>> /\ up.pc = "next" /\ up'.pc = "read"
            /\ up'.left = up'.files /\ up.batch = up'.batch \union up'.files /\ up'.done = up.done
         \/ /\ UNCHANGED <<object, copies>> /\ up.pc = "next" /\ up.batch = {}
            /\ up'.batch = {} /\ up'.files = {} /\ up'.pc = IF up.done THEN "exited" ELSE "sleep"
         \/ /\ UNCHANGED copies /\ up'.batch = {} /\ up'.files = {} /\ up'.pc \in {"ready", "stopped"}
            /\ object' \in {object, Committed} /\ (object' # object => AllRead)
         \/ \E e \in Events :
              /\ Read(e) /\ UNCHANGED <<object, copies>> /\ file[e] # "absent" /\ up'.pc = "read"
              /\ up'.left = up.left \ {e} /\ up'.files = up.files /\ up'.batch = up.batch
              /\ up'.done = up.done
              /\ up'.got = IF file[e] = "whole" /\ e \notin Oversized THEN up.got \union {e} ELSE up.got
         \/ /\ AllRead /\ object' \in {object, Committed} /\ UNCHANGED copies
            /\ up'.files = up.files /\ up'.batch = up.batch /\ up'.left = up.files
            /\ up'.done = up.done
            /\ \/ up'.pc = "read"
               \/ up'.pc = "remove" /\ object' = Committed
         \/ \E e \in Events : Remove(e)
         \/ /\ UNCHANGED <<object, copies>> /\ up.pc = "remove" /\ up'.pc = "next"
            /\ up'.files = {} /\ up'.batch = up.batch /\ up'.done = up.done
<1>0. up \in Rotations
  BY DEF TypeOK, Rotations
<1>1. CASE Walk
  BY <1>1, WalkLists
<1>2. CASE NextDir
  BY <1>2, NextDirView
<1>3. ASSUME UNCHANGED copies, up' = Ready \/ up' = [Ready EXCEPT !.done = TRUE] \/ End,
             object' \in {object, Committed}, object' # object => AllRead
      PROVE  /\ UNCHANGED copies /\ up'.batch = {} /\ up'.files = {} /\ up'.pc \in {"ready", "stopped"}
             /\ object' \in {object, Committed} /\ (object' # object => AllRead)
  BY <1>3 DEF Ready, Stopped, End
<1>4. CASE Awake \/ Restart \/ RunFails
  <2>1. UNCHANGED copies /\ object' = object
        /\ (up' = Ready \/ up' = [Ready EXCEPT !.done = TRUE] \/ End)
    BY <1>4 DEF Awake, Restart, RunFails
  <2> QED
    BY <1>3, <2>1
<1>5. ASSUME NEW e \in Events, Read(e)
      PROVE  \/ UNCHANGED copies /\ object' = object /\ End
             \/ /\ UNCHANGED <<object, copies>> /\ file[e] # "absent" /\ up'.pc = "read"
                /\ up'.left = up.left \ {e} /\ up'.files = up.files /\ up'.batch = up.batch
                /\ up'.done = up.done
                /\ up'.got = IF file[e] = "whole" /\ e \notin Oversized THEN up.got \union {e} ELSE up.got
  <2>1. UNCHANGED <<object, copies>> /\ up.pc = "read"
    BY <1>5 DEF Read
  <2>2. CASE End
    BY <2>1, <2>2
  <2>3. CASE ~End
    BY <1>0, <1>5, <2>1, <2>3 DEF Read, Rotations
  <2> QED
    BY <2>2, <2>3
<1>6. CASE CloseSucceeds
  <2>1. /\ AllRead /\ object' = Committed /\ UNCHANGED copies /\ up'.files = up.files
        /\ up'.batch = up.batch /\ up'.left = up.files /\ up'.done = up.done /\ up'.pc = "remove"
    BY <1>0, <1>6 DEF CloseSucceeds, Rotations
  <2> QED
    BY <2>1
<1>7. CASE CloseFails
  BY <1>3, <1>7, CloseFailsView
<1>8. CASE RemovedAll
  <2>1. UNCHANGED <<object, copies>> /\ up.pc = "remove"
    BY <1>8 DEF RemovedAll
  <2>2. CASE End
    BY <1>3, <2>1, <2>2
  <2>3. CASE up' = [up EXCEPT !.pc = "next", !.files = {}]
    BY <1>0, <2>1, <2>3 DEF Rotations
  <2> QED
    BY <1>8, <2>2, <2>3 DEF RemovedAll
<1> QED
  BY <1>1, <1>2, <1>3, <1>4, <1>5, <1>6, <1>7, <1>8 DEF Run

\* What is stored stays, unless it is a file that an attempt passes over.
LEMMA StoredStays ==
  ASSUME TypeOK, Shaped, GotAll, [Next]_vars, NEW e \in Events, Stored(e)
  PROVE  Stored(e)' \/ (up.pc = "read" /\ e \in up.files \cap Oversized)
<1>1. CASE UNCHANGED <<object, copies>>
  BY <1>1 DEF Stored
<1>2. CASE Walk
  BY <1>2, WalkStores
<1>3. CASE AllRead /\ object' \in {object, Committed} /\ UNCHANGED copies
  BY <1>3, CommitStores DEF GotAll, AllRead
<1>4. CASE Run \/ CloseFails \/ RunFails
  <2>1. (\E n \in Events : Remove(n)) => UNCHANGED <<object, copies>>
    BY DEF Remove
  <2> QED
    BY <1>1, <1>2, <1>3, <1>4, <2>1, UploaderMoves
<1>5. CASE Terminate \/ UNCHANGED vars
  BY <1>1, <1>5 DEF Terminate, vars
<1> QED
  BY <1>1, <1>4, <1>5, RecorderLeaves DEF Next

\* Nobody opens a file that the uploader has in hand.
LEMMA StepHandsOff ==
  ASSUME Apart, TypeOK, Shaped, HandsOff, [Next]_vars
  PROVE  HandsOff'
<1>1. \A e \in Events : Writing(e)' => Writing(e) \/ \E h \in Handlers : Open(h) /\ handler[h].event = e
  <2>1. ASSUME NEW h \in Handlers, \/ Open(h) \/ Write(h) \/ WriteFails(h)
                                   \/ \E n \in Events : Deliver(h, n)
        PROVE  \A g \in Handlers : handler'[g].pc = "write" =>
                 \/ handler[g].pc = "write" /\ handler[g].event = handler'[g].event
                 \/ Open(g) /\ handler[g].event = handler'[g].event
    BY <2>1, RecorderMoves
  <2>2. ASSUME NEW n \in Events, Remove(n)
        PROVE  \A g \in Handlers : handler'[g].pc = handler[g].pc /\ handler'[g].event = handler[g].event
    BY <2>2, RemoveView
  <2>3. CASE handler' = handler
    BY <2>3 DEF Writing
  <2> QED
    BY <2>1, <2>2, <2>3, RunLeaves DEF Next, Run, Writing, Terminate, vars, recorderVars
<1>2. CASE Walk
  <2>1. \A e \in Events : ~Writing(e)
    BY <1>2 DEF Walk
  <2>2. handler' = handler /\ \A h \in Handlers : handler[h].event \in Events
    BY <1>2 DEF Walk, recorderVars, TypeOK
  <2> QED
    BY <2>1, <2>2 DEF HandsOff, Writing
<1>3. CASE InHand' \subseteq InHand
  <2> SUFFICES ASSUME NEW e \in InHand', Writing(e)' PROVE FALSE
    BY DEF HandsOff
  <2>1. e \in InHand /\ e \in Events /\ ~Writing(e)
    BY <1>3 DEF HandsOff, InHand, TypeOK
  <2>2. PICK h \in Handlers : Open(h) /\ handler[h].event = e
    BY <1>1, <2>1
  <2> QED
    BY <2>1, <2>2 DEF Open
<1>4. CASE Run \/ CloseFails \/ RunFails
  <2>1. (\E n \in Events : Remove(n)) => InHand' \subseteq InHand
    BY RemoveView DEF InHand
  <2>2. (\E n \in Events : Read(n)) => up.pc = "read"
    BY DEF Read
  <2>3. Walk \/ InHand' \subseteq InHand
    BY <1>4, <2>1, <2>2, UploaderMoves DEF InHand, AllRead, Shaped
  <2> QED
    BY <1>2, <1>3, <2>3
<1>5. CASE up' = up
  BY <1>3, <1>5 DEF InHand
<1> QED
  BY <1>4, <1>5, RecorderLeaves DEF Next, Terminate, vars

\* What is read is whole, and what is removed was read.
LEMMA StepReads ==
  ASSUME Apart, TypeOK, Shaped, FileInv, HandsOff, GotAll, RemovedAreStored, [Next]_vars
  PROVE  GotAll' /\ RemovedAreStored'
<1>1. CASE UNCHANGED <<up, object, copies>>
  BY <1>1 DEF GotAll, RemovedAreStored, Stored
<1>2. ASSUME NEW e \in Events, Read(e), file[e] # "absent", up'.pc = "read",
             up'.left = up.left \ {e}, up'.files = up.files,
             up'.got = IF file[e] = "whole" /\ e \notin Oversized THEN up.got \union {e} ELSE up.got
      PROVE  GotAll' /\ RemovedAreStored'
  <2>1. up.pc = "read" /\ e \in up.left /\ e \in InHand
    BY <1>2 DEF Read, InHand, Shaped
  <2>2. file[e] = "whole"
    BY <1>2, <2>1 DEF HandsOff, FileInv, EmptyIsWritten, Writing, TypeOK
  <2> QED
    BY <1>2, <2>1, <2>2 DEF GotAll, RemovedAreStored
<1>3. ASSUME AllRead, object' = Committed, UNCHANGED copies, up'.files = up.files, up'.pc = "remove"
      PROVE  GotAll' /\ RemovedAreStored'
  <2>1. \A e \in up.files : e \in Events /\ (e \in Oversized \/ e \in up.got)
    BY <1>3 DEF AllRead, GotAll, TypeOK
  <2> QED
    BY <1>3, <2>1, CommitStores DEF GotAll, RemovedAreStored
<1>4. ASSUME NEW e \in Events, Remove(e) PROVE GotAll' /\ RemovedAreStored'
  <2>1. \A n \in Events : Stored(n)' <=> Stored(n)
    BY <1>4, RemoveView DEF Stored
  <2> QED
    BY <1>4, <2>1, RemoveView DEF GotAll, RemovedAreStored, TypeOK
<1>5. CASE (up'.pc = "read" /\ up'.left = up'.files) \/ up'.pc \notin {"read", "remove"}
  BY <1>5 DEF GotAll, RemovedAreStored
<1>6. CASE Run \/ CloseFails \/ RunFails
  BY <1>2, <1>3, <1>4, <1>5, <1>6, UploaderMoves
<1> QED
  BY <1>1, <1>6, RecorderLeaves DEF Next, Terminate, vars

LEMMA StepRecorded ==
  ASSUME Apart, TypeOK, Shaped, FileInv, KeptInv, [Next]_vars
  PROVE  Unnamed' /\ RecordedIsKept'
<1>1. ASSUME NEW h \in Handlers, \/ Open(h) \/ Write(h) \/ WriteFails(h)
                                 \/ \E n \in Events : Deliver(h, n)
      PROVE  Unnamed' /\ RecordedIsKept'
  <2>e. PICK e \in Events : e = handler[h].event
    BY DEF TypeOK
  <2>1. \A n \in Events : Stored(n)' <=> Stored(n)
    BY <1>1, RecorderLeaves DEF Stored
  <2>2. /\ \A g \in Handlers : handler[g].event \in Events /\ handler[g].pc \in {"idle", "open", "write"}
        /\ Unnamed /\ RecordedIsKept
    BY DEF TypeOK, KeptInv
  <2>3. ASSUME NEW n \in Events, Deliver(h, n) PROVE Unnamed' /\ RecordedIsKept'
    <3>1. /\ handler[h].pc = "idle" /\ file' = file /\ acked' = acked
          /\ \A m \in Events : m \in nacked /\ m # n => m \in nacked'
      BY <2>3 DEF Deliver
    <3>2. /\ handler'[h].pc = "open" /\ handler'[h].event = n
          /\ \A g \in Handlers : g # h => handler'[g] = handler[g]
      BY <2>3, RecorderMoves
    <3>3. Unnamed'
      <4> SUFFICES ASSUME NEW i \in Handlers, handler'[i].pc = "write", ~handler'[i].linked
                   PROVE  Unnamed!(i)!2'
        BY DEF Unnamed
      <4> QED
        BY <2>1, <2>2, <3>1, <3>2 DEF Unnamed
    <3>4. RecordedIsKept'
      BY <2>1, <2>2, <3>1, <3>2 DEF RecordedIsKept, InFlight, TypeOK
    <3> QED
      BY <3>3, <3>4
  <2>4. CASE Open(h)
    <3>1. /\ \A n \in Events : n # e => file'[n] = file[n]
          /\ UNCHANGED <<acked, nacked>>
      BY <2>e, <2>4 DEF Open, TypeOK
    <3>2. /\ handler'[h].pc = "write" /\ handler'[h].event = e /\ handler'[h].linked
          /\ \A g \in Handlers : g # h => handler'[g] = handler[g]
      BY <2>e, <2>4, RecorderMoves
    <3>3. Unnamed'
      BY <2>e, <2>1, <2>2, <3>1, <3>2 DEF Unnamed
    <3>4. RecordedIsKept'
      BY <2>e, <2>1, <2>2, <3>1, <3>2 DEF RecordedIsKept, InFlight, TypeOK
    <3> QED
      BY <3>3, <3>4
  <2>5. CASE Write(h)
    <3>1. /\ handler[h].pc = "write" /\ file'[e] = IF handler[h].linked THEN "whole" ELSE file[e]
          /\ \A n \in Events : n # e => file'[n] = file[n]
          /\ acked' = acked \union {e} /\ nacked' = nacked
      BY <2>e, <2>5 DEF Write, TypeOK
    <3>2. /\ handler'[h].pc = "idle"
          /\ \A g \in Handlers : g # h => handler'[g] = handler[g]
      BY <2>5, RecorderMoves
    <3>3. \/ e \in nacked \/ file'[e] = "whole" \/ Stored(e)
          \/ \E g \in Handlers \ {h} : /\ handler[g].event = e
                                       /\ \/ handler[g].pc = "open"
                                          \/ handler[g].pc = "write" /\ handler[g].linked
      BY <2>e, <2>2, <3>1 DEF Unnamed
    <3>4. Unnamed'
      BY <2>e, <2>1, <2>2, <3>1, <3>2, <3>3 DEF Unnamed
    <3>5. RecordedIsKept'
      <4> SUFFICES ASSUME NEW n \in acked' \ Oversized
                   PROVE  RecordedIsKept!(n)'
        BY DEF RecordedIsKept
      <4>1. CASE n = e
        BY <2>1, <3>1, <3>2, <3>3, <4>1 DEF InFlight
      <4>2. CASE n # e
        <5>1. n \in Events /\ n \in acked
          BY <3>1, <4>2 DEF TypeOK
        <5>2. InFlight(n) => InFlight(n)'
          BY <2>e, <3>2, <4>2 DEF InFlight
        <5> QED
          BY <2>1, <2>2, <3>1, <4>2, <5>1, <5>2 DEF RecordedIsKept
      <4> QED
        BY <4>1, <4>2
    <3> QED
      BY <3>4, <3>5
  <2>6. CASE WriteFails(h)
    <3>1. /\ \A n \in Events : n # e => file'[n] = file[n]
          /\ acked' = acked /\ nacked' = nacked \union {e}
      BY <2>e, <2>6 DEF WriteFails, TypeOK
    <3>2. /\ handler'[h].pc = "idle"
          /\ \A g \in Handlers : g # h =>
               /\ handler'[g].pc = handler[g].pc /\ handler'[g].event = handler[g].event
               /\ handler'[g].linked = handler[g].linked \/ handler[g].event = e
      BY <2>e, <2>6, RecorderMoves
    <3>3. Unnamed'
      BY <2>e, <2>1, <2>2, <3>1, <3>2 DEF Unnamed
    <3>4. RecordedIsKept'
      <4>1. \A n \in Events : n # e /\ InFlight(n) => InFlight(n)'
        BY <2>e, <3>2 DEF InFlight
      <4> QED
        BY <2>1, <2>2, <3>1, <4>1 DEF RecordedIsKept, TypeOK
    <3> QED
      BY <3>3, <3>4
  <2> QED
    BY <1>1, <2>3, <2>4, <2>5, <2>6
<1>2. ASSUME UNCHANGED <<file, handler, acked, nacked>> PROVE Unnamed' /\ RecordedIsKept'
  <2>1. \A e \in Events : Stored(e) => Stored(e)' \/ (up.pc = "read" /\ e \in up.files \cap Oversized)
    BY StoredStays DEF KeptInv
  <2>2. \A e \in Events : Writing(e) /\ Stored(e) => Stored(e)'
    BY <2>1 DEF KeptInv, HandsOff, InHand
  <2>3. Unnamed'
    <3>1. \A h \in Handlers : handler[h].pc = "write" =>
            handler[h].event \in Events /\ Writing(handler[h].event)
      BY DEF TypeOK, Writing
    <3> QED
      BY <1>2, <2>2, <3>1 DEF KeptInv, Unnamed
  <2>4. \A e \in Events : InFlight(e)' <=> InFlight(e)
    BY <1>2 DEF InFlight
  <2>5. RecordedIsKept'
    BY <1>2, <2>1, <2>4 DEF KeptInv, RecordedIsKept, TypeOK
  <2> QED
    BY <2>3, <2>5
<1>3. ASSUME NEW e \in Events, Remove(e) PROVE Unnamed' /\ RecordedIsKept'
  <2>1. ~Writing(e) /\ (e \in Oversized \/ Stored(e))
    BY <1>3, RemoveView DEF KeptInv, HandsOff, InHand, RemovedAreStored, Shaped
  <2>2. /\ \A n \in Events : Stored(n)' <=> Stored(n)
        /\ \A n \in Events : InFlight(n)' <=> InFlight(n)
    BY <1>3, RemoveView DEF Stored, InFlight
  <2>3. /\ \A g \in Handlers : handler[g].pc = "write" => handler[g].event # e
        /\ \A g \in Handlers : handler[g].event \in Events
    BY <2>1 DEF Writing, TypeOK
  <2>4. Unnamed'
    BY <1>3, <2>2, <2>3, RemoveView DEF KeptInv, Unnamed
  <2>5. RecordedIsKept'
    BY <1>3, <2>1, <2>2, RemoveView DEF KeptInv, RecordedIsKept, TypeOK
  <2> QED
    BY <2>4, <2>5
<1>4. (Run \/ CloseFails \/ RunFails) =>
        UNCHANGED <<file, handler, acked, nacked>> \/ \E e \in Events : Remove(e)
  BY RunLeaves DEF Run, recorderVars
<1>5. Terminate \/ UNCHANGED vars => UNCHANGED <<file, handler, acked, nacked>>
  BY DEF Terminate, vars, recorderVars
<1> QED
  BY <1>1, <1>2, <1>3, <1>4, <1>5 DEF Next

\* The rotation that SIGTERM asks for uploads every file it finds.
LEMMA StepFlushing ==
  ASSUME Apart, TypeOK, Shaped, FileInv, KeptInv, [Next]_vars
  PROVE  Flushing' /\ FlushedAtExit'
<1>1. \A e \in Events : Stored(e) /\ e \notin Oversized => Stored(e)'
  BY StoredStays DEF KeptInv
<1>2. ASSUME UNCHANGED up, due' \subseteq due PROVE Flushing' /\ FlushedAtExit'
  BY <1>1, <1>2 DEF KeptInv, Flushing, FlushedAtExit, TypeOK
<1>3. CASE Run \/ CloseFails \/ RunFails
  <2>1. due' = due
    <3>1. (\E e \in Events : Remove(e)) => due' = due
      BY DEF Remove
    <3> QED
      BY <1>3, <3>1, RunLeaves DEF Run, recorderVars
  <2>2. CASE Walk
    <3>1. \A e \in due \ Oversized : e \in Events /\ (file[e] = "whole" \/ Stored(e))
      BY DEF FileInv, DueIsAccepted, KeptInv, RecordedIsKept, TypeOK
    <3>2. up'.pc = "next" /\ up'.batch = {e \in Events : file[e] # "absent"}
      BY <2>2, WalkLists
    <3> QED
      BY <1>1, <2>1, <3>1, <3>2 DEF Flushing, FlushedAtExit
  <2>3. CASE up.pc = "next" /\ up'.pc = "read" /\ up.batch = up'.batch \union up'.files /\ up'.done = up.done
    BY <1>1, <2>1, <2>3 DEF KeptInv, Flushing, FlushedAtExit, TypeOK
  <2>4. CASE up.pc = "next" /\ up.batch = {} /\ up'.pc = IF up.done THEN "exited" ELSE "sleep"
    BY <1>1, <2>1, <2>4 DEF KeptInv, Flushing, FlushedAtExit, TypeOK
  <2>5. CASE up'.pc \in {"ready", "stopped"}
    BY <2>5 DEF Flushing, FlushedAtExit
  <2>6. CASE /\ up.pc = "read" /\ up'.pc = "read" /\ up'.files = up.files
             /\ up'.batch = up.batch /\ up'.done = up.done
    BY <1>1, <2>1, <2>6 DEF KeptInv, Flushing, FlushedAtExit, TypeOK
  <2>7. CASE /\ AllRead /\ up'.pc = "remove" /\ object' = Committed /\ UNCHANGED copies
             /\ up'.files = up.files /\ up'.batch = up.batch /\ up'.done = up.done
    <3>1. \A e \in up.files \ Oversized : e \in Events /\ e \in up.got
      BY <2>7 DEF KeptInv, GotAll, AllRead, TypeOK
    <3>2. \A e \in up.files \ Oversized : Stored(e)'
      BY <2>7, <3>1, CommitStores
    <3> QED
      BY <1>1, <2>1, <2>7, <3>2 DEF AllRead, KeptInv, Flushing, FlushedAtExit, TypeOK
  <2>8. ASSUME NEW e \in Events, Remove(e) PROVE Flushing' /\ FlushedAtExit'
    <3>1. up.pc = "remove" /\ up'.pc = "remove" /\ up'.batch = up.batch /\ up'.done = up.done
      BY <2>8, RemoveView
    <3> QED
      BY <1>1, <2>1, <3>1 DEF KeptInv, Flushing, FlushedAtExit, TypeOK
  <2>9. CASE up.pc = "remove" /\ up'.pc = "next" /\ up'.batch = up.batch /\ up'.done = up.done
    BY <1>1, <2>1, <2>9 DEF KeptInv, Flushing, FlushedAtExit, TypeOK
  <2>10. (\E e \in Events : Read(e)) => up.pc = "read"
    BY DEF Read
  <2> QED
    BY <1>3, <2>2, <2>3, <2>4, <2>5, <2>6, <2>7, <2>8, <2>9, <2>10, UploaderMoves DEF AllRead
<1>4. ASSUME NEW h \in Handlers, \/ Open(h) \/ Write(h) \/ WriteFails(h)
                                 \/ \E e \in Events : Deliver(h, e)
      PROVE  Flushing' /\ FlushedAtExit'
  <2>1. up' = up
    BY <1>4, RecorderLeaves
  <2>2. due' \subseteq due
    BY <1>4 DEF Open, Write, WriteFails, Deliver
  <2> QED
    BY <1>2, <2>1, <2>2
<1>5. CASE Terminate
  BY <1>5 DEF Terminate, Shaped, Flushing, FlushedAtExit
<1>6. CASE UNCHANGED vars
  BY <1>2, <1>6 DEF vars, recorderVars
<1> QED
  BY <1>3, <1>4, <1>5, <1>6 DEF Next

LEMMA KeptIsInvariant ==
  ASSUME Apart
  PROVE  Spec => []KeptInv
<1>1. Init => KeptInv
  BY DEF Init, Ready, NoRequest, KeptInv, HandsOff, InHand, Writing, GotAll, RemovedAreStored,
         Unnamed, RecordedIsKept, Flushing, FlushedAtExit
<1>2. (TypeOK /\ Shaped /\ FileInv) /\ KeptInv /\ [Next]_vars => KeptInv'
  BY StepHandsOff, StepReads, StepRecorded, StepFlushing DEF KeptInv
<1> QED
  BY <1>1, <1>2, FilesAreKept, PTL DEF Spec

\* An event that the recorder accepted is in its file or in an object, or will
\* be delivered again, whatever fails: under Apart, that the uploader has no
\* file in hand that is being written.
THEOREM RecordedEventsAreKept ==
  ASSUME Apart
  PROVE  Spec => []RecordedIsKept
<1>1. KeptInv => RecordedIsKept
  BY DEF KeptInv
<1> QED
  BY <1>1, KeptIsInvariant, PTL

\* When Run returns nil it has uploaded every event accepted before SIGTERM,
\* whatever it was doing when the signal came: under Apart, as above.
THEOREM ExitIsFlushed ==
  ASSUME Apart
  PROVE  Spec => []FlushedAtExit
<1>1. KeptInv => FlushedAtExit
  BY DEF KeptInv
<1> QED
  BY <1>1, KeptIsInvariant, PTL
=============================================================================
