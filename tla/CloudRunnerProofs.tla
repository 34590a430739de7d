-------------------------- MODULE CloudRunnerProofs --------------------------
(***************************************************************************)
(* Proofs about the Cloud Build runner, for every set of callers, fixes    *)
(* and source roots and every number of attempts.                          *)
(***************************************************************************)
EXTENDS CloudRunner, SequenceTheorems, TLAPS

-----------------------------------------------------------------------------
(* Builds and trees *)

Steps == {"queued", "patch", "verify", "deploy", "save"} \cup Ended

\* The trees the code makes are trees.
LEMMA Trees ==
  /\ NoTree \in Tree
  /\ \A t \in Tree, f \in SUBSET Patches : Over(t, f) \in Tree
  /\ \A t \in Tree : [t EXCEPT !.whole = FALSE] \in Tree
BY CloudRunnerAssumption DEF NoTree, Tree, Over

\* A build that proceeds is still a build, and no other build has changed.
LEMMA ProceedBuild ==
  ASSUME builds \in Seq(Build), NEW b, NEW step \in Steps, NEW tree \in Tree,
         Proceed(b, step, tree)
  PROVE  /\ builds' \in Seq(Build) /\ Len(builds') = Len(builds)
         /\ DOMAIN builds' = DOMAIN builds
         /\ \A a \in DOMAIN builds : a # b => builds'[a] = builds[a]
         /\ b \in DOMAIN builds =>
              builds'[b] = [builds[b] EXCEPT !.step = step, !.workspace = tree]
<1> DEFINE next == [builds[b] EXCEPT !.step = step, !.workspace = tree]
<1>1. builds' = [builds EXCEPT ![b] = next]
  BY DEF Proceed
<1>2. /\ DOMAIN builds = 1..Len(builds) /\ Len(builds) \in Nat
      /\ \A a \in 1..Len(builds) : builds[a] \in Build
  OBVIOUS
<1>3. b \in 1..Len(builds) => next \in Build
  BY <1>2 DEF Build, Steps
<1> HIDE DEF next
<1>4. builds' \in [1..Len(builds) -> Build]
  BY <1>1, <1>2, <1>3
<1>5. builds' \in Seq(Build) /\ Len(builds') = Len(builds)
  BY <1>2, <1>4
<1>6. /\ DOMAIN builds' = DOMAIN builds
      /\ \A a \in DOMAIN builds : a # b => builds'[a] = builds[a]
      /\ b \in DOMAIN builds => builds'[b] = next
  BY <1>1
<1>7. QED BY <1>5, <1>6 DEF next

\* Submitting appends a queued build.
LEMMA SubmittedBuild ==
  ASSUME TypeOK, NEW c \in Callers
  PROVE  /\ Submitted(c) \in Seq(Build) /\ Len(Submitted(c)) = Len(builds) + 1
         /\ DOMAIN Submitted(c) = 1..(Len(builds) + 1)
         /\ \A b \in DOMAIN builds : Submitted(c)[b] = builds[b]
         /\ Submitted(c)[Len(builds) + 1] =
              [step |-> "queued", patchOnly |-> patchOnly[c],
               deploy |-> call[c].deploy, workspace |-> NoTree]
<1> DEFINE new == [step |-> "queued", patchOnly |-> patchOnly[c],
                   deploy |-> call[c].deploy, workspace |-> NoTree]
<1>1. new \in Build
  BY Trees DEF TypeOK, Call, Build, Ended
<1>2. builds \in Seq(Build) BY DEF TypeOK
<1>3. Submitted(c) = Append(builds, new) BY DEF Submitted
<1> HIDE DEF new
<1>4. QED BY <1>1, <1>2, <1>3 DEF new

-----------------------------------------------------------------------------
(* Types *)

\* The runner starts well formed.
LEMMA InitType == Init => TypeOK
<1>1. SUFFICES ASSUME Init PROVE TypeOK OBVIOUS
<1>2. NoTree \in Tree BY Trees
<1>3. NoCall \in Call BY DEF NoCall, Call
<1>4. builds \in Seq(Build) /\ Len(builds) = 0 BY <1>1 DEF Init
<1>5. 0 \in 0..Len(builds) /\ 0 \in 0..(Attempts - 1) BY <1>4, CloudRunnerAssumption
<1>6. QED
  BY <1>1, <1>2, <1>3, <1>4, <1>5, CloudRunnerAssumption DEF Init, TypeOK, NoBuild

\* A call that returns leaves its locals well formed.
LEMMA LeaveType ==
  ASSUME TypeOK, NEW c \in Callers, Leave(c), builds' \in Seq(Build),
         Len(builds') >= Len(builds)
  PROVE  /\ pc' \in [Callers -> {"idle", "prepare", "decide", "upload", "mark", "submit",
                                 "register", "poll", "clear"}]
         /\ call' \in [Callers -> Call] /\ eff' \in [Callers -> Roots]
         /\ patchOnly' \in [Callers -> BOOLEAN] /\ tries' \in [Callers -> 0..(Attempts - 1)]
         /\ id' \in [Callers -> 0..Len(builds')] /\ ok' \in [Callers -> BOOLEAN]
         /\ halted' \in [Callers -> BOOLEAN] /\ alone' \in [Callers -> BOOLEAN]
         /\ from' \in [Callers -> Tree]
<1>1. NoTree \in Tree BY Trees
<1>2. NoCall \in Call BY DEF NoCall, Call
<1>3. Len(builds) \in Nat /\ Len(builds') \in Nat BY DEF TypeOK
<1>4. QED
  BY <1>1, <1>2, <1>3, CloudRunnerAssumption DEF TypeOK, Leave, Goto, NoBuild

\* Calls keep the types.
LEMMA ProgressType ==
  ASSUME TypeOK, NEW c \in Callers, Progress(c)
  PROVE  TypeOK'
<1> USE CloudRunnerAssumption
<1>0. Len(builds) \in Nat /\ NoTree \in Tree BY Trees DEF TypeOK
<1>1. CASE Prepare(c)
  BY <1>1 DEF Prepare, TypeOK, Goto, runner, halting, cloud, history
<1>2. CASE GivesUp(c)
  BY <1>0, <1>2, LeaveType DEF GivesUp, TypeOK, runner, halting, cloud, history
<1>3. CASE \E found \in BOOLEAN : Decide(c, found)
  BY <1>3 DEF Decide, OverlaySuffices, TypeOK, Goto, runner, halting, cloud, history
<1>4. CASE UploadOverlay(c)
  <2>1. call[c].fixes \subseteq Patches BY DEF TypeOK, Call
  <2>2. QED BY <1>4, <2>1 DEF UploadOverlay, TypeOK, Goto, runner, locals, halting, history
<1>5. CASE UploadSource(c)
  <2>1. Packed(c) \in Tree BY DEF TypeOK, Call, Packed, Tree
  <2>2. QED BY <1>5, <2>1 DEF UploadSource, TypeOK, Goto, runner, locals, halting
<1>6. CASE UploadTruncated(c)
  <2>1. Packed(c) \in Tree BY DEF TypeOK, Call, Packed, Tree
  <2>2. base' \in Tree BY <1>6, <2>1, Trees DEF UploadTruncated
  <2>3. QED
    BY <1>0, <1>6, <2>2, LeaveType DEF UploadTruncated, TypeOK, runner, halting, history
<1>7. CASE MarkSynced(c)
  BY <1>7 DEF MarkSynced, TypeOK, Goto, locals, halting, cloud, history
<1>8. CASE Submit(c)
  <2>1. builds' \in Seq(Build) /\ Len(builds') = Len(builds) + 1
    BY <1>8, SubmittedBuild DEF Submit
  <2>2. QED BY <1>0, <1>8, <2>1 DEF Submit, TypeOK, Goto, runner, halting, history
<1>9. CASE \E accepted \in BOOLEAN : Resubmit(c, accepted)
  <2>1. builds' \in Seq(Build) /\ Len(builds') >= Len(builds) /\ Len(builds') \in Nat
    <3>1. builds \in Seq(Build) BY DEF TypeOK
    <3>2. builds' = Submitted(c) \/ builds' = builds BY <1>9 DEF Resubmit
    <3>3. CASE builds' = Submitted(c)
      <4>1. Submitted(c) \in Seq(Build) /\ Len(Submitted(c)) = Len(builds) + 1
        BY SubmittedBuild
      <4>2. QED BY <1>0, <3>3, <4>1
    <3>4. CASE builds' = builds BY <1>0, <3>1, <3>4
    <3>5. QED BY <3>2, <3>3, <3>4
  <2>2. tries' \in [Callers -> 0..(Attempts - 1)]
    BY <1>9 DEF Resubmit, MayResubmit, TypeOK
  <2>3. alone' \in [Callers -> BOOLEAN]
    BY <1>9 DEF Resubmit, TypeOK
  <2>4. QED
    BY <1>0, <1>9, <2>1, <2>2, <2>3 DEF Resubmit, TypeOK, runner, halting, history
<1>10. CASE \E accepted \in BOOLEAN : SubmitFails(c, accepted)
  <2>1. builds' \in Seq(Build) /\ Len(builds') >= Len(builds) /\ Len(builds') \in Nat
    <3>1. builds \in Seq(Build) BY DEF TypeOK
    <3>2. builds' = Submitted(c) \/ builds' = builds BY <1>10 DEF SubmitFails
    <3>3. CASE builds' = Submitted(c)
      <4>1. Submitted(c) \in Seq(Build) /\ Len(Submitted(c)) = Len(builds) + 1
        BY SubmittedBuild
      <4>2. QED BY <1>0, <3>3, <4>1
    <3>4. CASE builds' = builds BY <1>0, <3>1, <3>4
    <3>5. QED BY <3>2, <3>3, <3>4
  <2>2. QED
    BY <1>0, <1>10, <2>1, LeaveType DEF SubmitFails, TypeOK, runner, halting, history
<1>11. CASE SetActiveBuild(c)
  BY <1>0, <1>11 DEF SetActiveBuild, TypeOK, Goto, locals, halting, cloud, history
<1>12. CASE PollBuild(c)
  BY <1>12 DEF PollBuild, TypeOK, Goto, runner, halting, cloud, history
<1>13. CASE Return(c)
  BY <1>0, <1>13, LeaveType
     DEF Return, ActiveAfterReturn, NoBuild, TypeOK, halting, cloud, history
<1>14. QED
  BY <1>1, <1>2, <1>3, <1>4, <1>5, <1>6, <1>7, <1>8, <1>9, <1>10, <1>11, <1>12, <1>13
     DEF Progress

\* The cloud's own steps keep the types.
LEMMA WorkType ==
  ASSUME TypeOK, NEW b \in DOMAIN builds, Work(b)
  PROVE  TypeOK'
<1>0. NoTree \in Tree /\ builds \in Seq(Build) /\ builds[b] \in Build
  BY Trees DEF TypeOK
<1>1. builds[b].workspace \in Tree /\ base \in Tree /\ overlay \in SUBSET Patches
  BY <1>0 DEF Build, TypeOK
<1>2. Patched(builds[b].workspace) \in Tree
  BY <1>1, Trees DEF Patched
<1> DEFINE Typed == builds' \in Seq(Build) /\ Len(builds') = Len(builds)
<1>3. CASE Fetch(b)
  <2>1. Typed BY <1>0, <1>1, <1>3, ProceedBuild DEF Fetch, Steps
  <2>2. QED BY <1>3, <2>1 DEF Fetch, TypeOK, runner, locals, halting, history
<1>4. CASE ApplyPatch(b)
  <2>1. Typed BY <1>0, <1>2, <1>4, ProceedBuild DEF ApplyPatch, Steps
  <2>2. QED BY <1>4, <2>1 DEF ApplyPatch, TypeOK, runner, locals, halting, history
<1>5. CASE Verify(b)
  <2>1. Typed
    BY <1>0, <1>1, <1>5, ProceedBuild DEF Verify, Step, Finish, Steps, Ended
  <2>2. QED BY <1>5, <2>1 DEF Verify, TypeOK, runner, locals, halting, history
<1>6. CASE Deploy(b)
  <2>1. Typed BY <1>0, <1>1, <1>6, ProceedBuild DEF Deploy, Step, Steps
  <2>2. QED BY <1>1, <1>6, <2>1 DEF Deploy, TypeOK, runner, locals, halting, history
<1>7. CASE SaveBase(b)
  <2>1. Typed BY <1>0, <1>7, ProceedBuild DEF SaveBase, Finish, Steps, Ended
  <2>2. QED BY <1>1, <1>7, <2>1 DEF SaveBase, TypeOK, runner, locals, halting, history
<1>8. CASE BuildFails(b)
  <2>1. Typed BY <1>0, <1>8, ProceedBuild DEF BuildFails, Finish, Steps, Ended
  <2>2. QED BY <1>8, <2>1 DEF BuildFails, TypeOK, runner, locals, halting, history
<1>9. QED BY <1>3, <1>4, <1>5, <1>6, <1>7, <1>8 DEF Work

\* Every step of the runner, its callers and the cloud keeps the types.
LEMMA StepType == TypeOK /\ [Next]_vars => TypeOK'
<1> SUFFICES ASSUME TypeOK, [Next]_vars PROVE TypeOK' OBVIOUS
<1> USE CloudRunnerAssumption
<1>0. Len(builds) \in Nat /\ NoTree \in Tree /\ NoCall \in Call
  BY Trees DEF TypeOK, NoCall, Call
<1>1. CASE \E c \in Callers, asked \in Call : Begin(c, asked)
  <2>1. PICK c \in Callers, asked \in Call : Begin(c, asked) BY <1>1
  <2>2. approved' \subseteq Patches BY <2>1 DEF Begin, TypeOK, Call
  <2>3. alone' \in [Callers -> BOOLEAN] BY <2>1 DEF Begin
  <2>4. call' \in [Callers -> Call] BY <2>1 DEF Begin, TypeOK
  <2>5. QED
    BY <2>1, <2>2, <2>3, <2>4 DEF Begin, TypeOK, Goto, runner, halting, cloud
<1>2. CASE \E c \in Callers : Progress(c)
  BY <1>2, ProgressType
<1>3. CASE \E c \in Callers : LoseContact(c)
  BY <1>3 DEF LoseContact, TypeOK, Goto, runner, locals, halting, cloud, history
<1>4. CASE \E c \in Callers : Halt(c)
  BY <1>4 DEF Halt, TypeOK, runner, cloud, history
<1>5. CASE CancelActive
  BY <1>0, <1>5 DEF CancelActive, TypeOK, runner, locals, cloud, history
<1>6. CASE \E landed \in BOOLEAN : CancelBuild(landed)
  <2>1. builds' \in Seq(Build) /\ Len(builds') = Len(builds)
    <3>1. builds \in Seq(Build) BY DEF TypeOK
    <3>2. builds' = builds \/ Finish(target, "cancelled") BY <1>6 DEF CancelBuild
    <3>3. CASE builds' = builds BY <3>1, <3>3
    <3>4. CASE Finish(target, "cancelled")
      BY <1>0, <3>1, <3>4, ProceedBuild DEF Finish, Steps, Ended
    <3>5. QED BY <3>2, <3>3, <3>4
  <2>2. QED
    BY <1>0, <1>6, <2>1 DEF CancelBuild, NoBuild, TypeOK, runner, locals, history
<1>7. CASE \E dir \in Roots : SetSourceRoot(dir)
  BY <1>7 DEF SetSourceRoot, TypeOK, locals, halting, cloud, history
<1>8. CASE Restart
  <2>1. 0 \in 0..Len(builds) /\ 0 \in 0..(Attempts - 1) BY <1>0
  <2>2. QED BY <1>0, <1>8, <2>1 DEF Restart, NoBuild, TypeOK, cloud
<1>9. CASE \E b \in DOMAIN builds : Work(b)
  BY <1>9, WorkType
<1>10. CASE UNCHANGED vars
  BY <1>10 DEF TypeOK, vars, runner, locals, halting, cloud, history
<1>11. QED
  BY <1>1, <1>2, <1>3, <1>4, <1>5, <1>6, <1>7, <1>8, <1>9, <1>10 DEF Next, Halting

\* The runner and the cloud stay well formed: no call submits more often than
\* retryTransient allows.
THEOREM TypeCorrect == Spec => []TypeOK
BY InitType, StepType, PTL DEF Spec

-----------------------------------------------------------------------------
(* The registered build is followed *)

\* Every action but the last of a call leaves the calls that poll where they are.
LEMMA FollowedStep == TypeOK /\ ActiveIsFollowed /\ [Next]_vars => ActiveIsFollowed'
<1> SUFFICES ASSUME TypeOK, ActiveIsFollowed, [Next]_vars, active' # NoBuild
             PROVE  \E c \in Callers : pc'[c] \in {"poll", "clear"} /\ id'[c] = active'
  BY DEF ActiveIsFollowed
<1> DEFINE Followed == \E c \in Callers : pc'[c] \in {"poll", "clear"} /\ id'[c] = active'
<1>1. CASE active' # active
  <2>1. PICK c \in Callers : SetActiveBuild(c)
    BY <1>1 DEF Next, Progress, Halting, Work, Begin, Prepare, GivesUp, Decide,
                UploadOverlay, UploadSource, UploadTruncated, MarkSynced, Submit, Resubmit,
                SubmitFails, PollBuild, LoseContact, Return, ActiveAfterReturn, Halt,
                CancelActive, CancelBuild, SetSourceRoot, Restart, Fetch, ApplyPatch, Verify,
                Deploy, SaveBase, BuildFails, vars, runner
  <2>2. pc'[c] = "poll" /\ id'[c] = active'
    BY <2>1 DEF SetActiveBuild, TypeOK, Goto, locals
  <2>3. QED BY <2>2
<1>2. CASE active' = active
  <2>1. PICK c \in Callers : pc[c] \in {"poll", "clear"} /\ id[c] = active
    BY <1>2 DEF ActiveIsFollowed
  <2>2. CASE \E d \in Callers : Progress(d)
    <3>1. PICK d \in Callers : Progress(d) BY <2>2
    <3>2. CASE d = c
      <4>1. PollBuild(c) \/ Return(c)
        BY <2>1, <3>1, <3>2
           DEF Progress, Prepare, GivesUp, Decide, UploadOverlay, UploadSource,
               UploadTruncated, MarkSynced, Submit, Resubmit, SubmitFails, SetActiveBuild, At
      <4>2. CASE PollBuild(c)
        BY <1>2, <2>1, <4>2 DEF PollBuild, Goto, TypeOK
      <4>3. CASE Return(c)
        BY <4>3 DEF Return, ActiveAfterReturn
      <4>4. QED BY <4>1, <4>2, <4>3
    <3>3. CASE d # c
      <4>1. pc'[c] = pc[c] /\ id'[c] = id[c]
        BY <3>1, <3>3
           DEF Progress, Prepare, GivesUp, Decide, UploadOverlay, UploadSource,
               UploadTruncated, MarkSynced, Submit, Resubmit, SubmitFails, SetActiveBuild,
               PollBuild, Return, Leave, Goto, TypeOK, locals
      <4>2. QED BY <1>2, <2>1, <4>1
    <3>4. QED BY <3>2, <3>3
  <2>3. CASE ~\E d \in Callers : Progress(d)
    <3>1. CASE Restart
      BY <3>1 DEF Restart
    <3>2. CASE ~Restart
      <4>1. pc'[c] \in {"poll", "clear"} /\ id'[c] = id[c]
        BY <2>1, <2>3, <3>2
           DEF Next, Begin, Busy, LoseContact, Halt, Halting, CancelActive, CancelBuild,
               SetSourceRoot, Work, Fetch, ApplyPatch, Verify, Deploy, SaveBase, BuildFails,
               Goto, TypeOK, vars, locals
      <4>2. QED BY <1>2, <2>1, <4>1
    <3>3. QED BY <3>1, <3>2
  <2>4. QED BY <2>2, <2>3
<1>3. QED BY <1>1, <1>2

\* A halt never goes after a build whose run is over.
THEOREM ActiveFollowed == Spec => []ActiveIsFollowed
<1>1. Init => ActiveIsFollowed
  BY DEF Init, ActiveIsFollowed
<1>2. QED BY <1>1, FollowedStep, TypeCorrect, PTL DEF Spec

-----------------------------------------------------------------------------
(* The first upload of a process is a full one *)

\* What the flag and the position behind a full upload say.
Refreshed ==
  /\ synced => refreshed
  /\ \A c \in Callers : At(c, "mark") => refreshed
  /\ FirstUploadIsFull

\* Only a full upload, and the flag it sets, let a call upload a bare overlay.
LEMMA RefreshedStep == TypeOK /\ Refreshed /\ [Next]_vars => Refreshed'
<1> SUFFICES ASSUME TypeOK, Refreshed, [Next]_vars PROVE Refreshed' OBVIOUS
<1> USE DEF Refreshed, FirstUploadIsFull, At
<1>1. CASE \E c \in Callers : UploadSource(c)
  BY <1>1 DEF UploadSource, Goto, TypeOK
<1>2. CASE Restart
  BY <1>2 DEF Restart
<1>3. CASE \E c \in Callers, found \in BOOLEAN : Decide(c, found)
  BY <1>3 DEF Decide, OverlaySuffices, Goto, TypeOK, runner, history
<1>4. CASE \E c \in Callers : Progress(c) /\ ~UploadSource(c)
                             /\ ~\E found \in BOOLEAN : Decide(c, found)
  <2>1. PICK c \in Callers : /\ Progress(c) /\ ~UploadSource(c)
                            /\ ~\E found \in BOOLEAN : Decide(c, found)
    BY <1>4
  <2> USE DEF TypeOK
  <2>2. CASE Prepare(c) BY <2>2 DEF Prepare, Goto, runner, history
  <2>3. CASE GivesUp(c) BY <2>3 DEF GivesUp, Leave, Goto, runner, history
  <2>4. CASE UploadOverlay(c) BY <2>4 DEF UploadOverlay, Goto, runner, locals, history
  <2>5. CASE UploadTruncated(c) BY <2>5 DEF UploadTruncated, Leave, Goto, runner, history
  <2>6. CASE MarkSynced(c) BY <2>6 DEF MarkSynced, Goto, locals, history
  <2>7. CASE Submit(c) BY <2>7 DEF Submit, Goto, runner, history
  <2>8. CASE \E accepted \in BOOLEAN : Resubmit(c, accepted)
    BY <2>8 DEF Resubmit, runner, history
  <2>9. CASE \E accepted \in BOOLEAN : SubmitFails(c, accepted)
    BY <2>9 DEF SubmitFails, Leave, Goto, runner, history
  <2>10. CASE SetActiveBuild(c) BY <2>10 DEF SetActiveBuild, Goto, locals, history
  <2>11. CASE PollBuild(c) BY <2>11 DEF PollBuild, Goto, runner, history
  <2>12. CASE Return(c) BY <2>12 DEF Return, Leave, Goto, history
  <2>13. QED
    BY <2>1, <2>2, <2>3, <2>4, <2>5, <2>6, <2>7, <2>8, <2>9, <2>10, <2>11, <2>12
       DEF Progress
<1>5. CASE \E c \in Callers, asked \in Call : Begin(c, asked)
  BY <1>5 DEF Begin, Goto, TypeOK, runner
<1>6. CASE \E c \in Callers : LoseContact(c) \/ Halt(c)
  BY <1>6 DEF LoseContact, Halt, Goto, TypeOK, runner, locals, history
<1>7. CASE Halting \/ (\E dir \in Roots : SetSourceRoot(dir)) \/ UNCHANGED vars
  BY <1>7 DEF Halting, CancelActive, CancelBuild, SetSourceRoot, vars, runner, locals,
              cloud, history
<1>8. CASE \E b \in DOMAIN builds : Work(b)
  BY <1>8 DEF Work, Fetch, ApplyPatch, Verify, Deploy, SaveBase, BuildFails, runner, locals,
              history
<1>9. QED
  BY <1>1, <1>2, <1>3, <1>4, <1>5, <1>6, <1>7, <1>8 DEF Next, Progress

\* No process ships a bare overlay on top of a base it did not upload.
THEOREM FirstUploadFull == Spec => []FirstUploadIsFull
<1>1. Init => Refreshed
  BY DEF Init, Refreshed, FirstUploadIsFull, At
<1>2. Refreshed => FirstUploadIsFull
  BY DEF Refreshed
<1>3. QED BY <1>1, <1>2, RefreshedStep, TypeCorrect, PTL DEF Spec

-----------------------------------------------------------------------------
(* A call that meets no other ships what it was asked to *)

Following(c) == pc[c] \in {"register", "poll", "clear"}

\* The objects in the bucket are the ones the call's build needs.
Uploaded(c) ==
  /\ base = IF patchOnly[c] THEN from[c] ELSE Packed(c)
  /\ patchOnly[c] => overlay = call[c].fixes

\* The build carries the expected tree from the bucket to the service and back.
OnCourse(c) ==
  LET b == builds[id[c]] IN
  /\ b.patchOnly = patchOnly[c] /\ b.deploy = call[c].deploy
  /\ b.step = "queued" => Uploaded(c)
  /\ b.step = "patch" => patchOnly[c] /\ b.workspace = from[c] /\ overlay = call[c].fixes
  /\ b.step \in {"verify", "deploy", "save"} => b.workspace = Expected(c)
  /\ b.step = "save" => live = Expected(c)
  /\ b.step = "success" /\ b.deploy => live = Expected(c) /\ base = live

\* Nobody else calls, no other build runs, and the call is where its uploads, or
\* its build, have brought it.
Undisturbed(c) ==
  /\ Busy(c) /\ \A d \in Callers \ {c} : ~Busy(d)
  /\ \A b \in DOMAIN builds : Running(b) => Following(c) /\ b = id[c]
  /\ At(c, "upload") => base = from[c]
  /\ pc[c] \in {"mark", "submit"} => Uploaded(c)
  /\ Following(c) => OnCourse(c)

\* A call that follows a build has one, and calls it a success when it is.
Tracked ==
  \A c \in Callers :
    /\ Following(c) => id[c] \in DOMAIN builds
    /\ ok[c] => At(c, "clear") /\ builds[id[c]].step = "success"

AloneShips == Tracked /\ \A c \in Callers : alone[c] => Undisturbed(c)

\* Builds are never forgotten, and one that has ended stays as it is.
LEMMA BuildsEnd ==
  ASSUME TypeOK, [Next]_vars
  PROVE  \A b \in DOMAIN builds :
           /\ b \in DOMAIN builds'
           /\ builds[b].step \in Ended => builds'[b] = builds[b]
<1> DEFINE Kept == \A b \in DOMAIN builds :
                     /\ b \in DOMAIN builds'
                     /\ builds[b].step \in Ended => builds'[b] = builds[b]
<1>0. builds \in Seq(Build) /\ DOMAIN builds = 1..Len(builds) /\ Len(builds) \in Nat
  BY DEF TypeOK
<1>1. CASE builds' = builds BY <1>1
<1>2. CASE \E c \in Callers : builds' = Submitted(c)
  <2>1. PICK c \in Callers : builds' = Submitted(c) BY <1>2
  <2>2. DOMAIN Submitted(c) = 1..(Len(builds) + 1)
        /\ \A b \in DOMAIN builds : Submitted(c)[b] = builds[b]
    BY SubmittedBuild
  <2>3. QED BY <1>0, <2>1, <2>2
<1>3. CASE \E b, step, tree : Proceed(b, step, tree) /\ builds[b].step \notin Ended
  BY <1>3 DEF Proceed
<1>4. \/ builds' = builds
      \/ \E c \in Callers : builds' = Submitted(c)
      \/ \E b, step, tree : Proceed(b, step, tree) /\ builds[b].step \notin Ended
  <2>1. CASE \E c \in Callers : Progress(c)
    BY <2>1 DEF Progress, Prepare, GivesUp, Decide, UploadOverlay, UploadSource,
                UploadTruncated, MarkSynced, Submit, Resubmit, SubmitFails, SetActiveBuild,
                PollBuild, Return, cloud
  <2>2. CASE \E b \in DOMAIN builds : Work(b)
    <3>1. PICK b \in DOMAIN builds : Work(b) BY <2>2
    <3>2. builds[b].step \notin Ended
      BY <3>1 DEF Work, Fetch, ApplyPatch, Verify, Deploy, SaveBase, BuildFails, Running, Ended
    <3>3. \E step, tree : Proceed(b, step, tree)
      BY <3>1 DEF Work, Fetch, ApplyPatch, Verify, Deploy, SaveBase, BuildFails, Step, Finish
    <3>4. QED BY <3>2, <3>3
  <2>3. CASE \E landed \in BOOLEAN : CancelBuild(landed)
    BY <2>3 DEF CancelBuild, Running, Finish
  <2>4. QED
    BY <2>1, <2>2, <2>3
       DEF Next, Begin, LoseContact, Halt, Halting, CancelActive, SetSourceRoot, Restart,
           vars, cloud
<1>5. QED BY <1>1, <1>2, <1>3, <1>4

\* Every step keeps the builds that the calls follow, and the verdicts on them.
LEMMA TrackedStep ==
  ASSUME TypeOK, Tracked, [Next]_vars
  PROVE  Tracked'
<1> SUFFICES ASSUME NEW c \in Callers
             PROVE  /\ Following(c)' => (id[c] \in DOMAIN builds)'
                    /\ ok'[c] => /\ At(c, "clear")'
                                /\ (builds[id[c]].step = "success")'
  BY DEF Tracked
<1>1. /\ Following(c) => id[c] \in DOMAIN builds
      /\ ok[c] => At(c, "clear") /\ builds[id[c]].step = "success"
      /\ DOMAIN builds = 1..Len(builds) /\ Len(builds) \in Nat
  BY DEF Tracked, TypeOK
<1>2. CASE pc'[c] = pc[c] /\ id'[c] = id[c] /\ ok'[c] = ok[c]
  BY <1>1, <1>2, BuildsEnd DEF Following, At, Ended
<1>3. CASE Submit(c)
  <2>1. id'[c] = Len(builds) + 1 /\ builds' = Submitted(c)
    BY <1>3 DEF Submit, TypeOK
  <2>2. id'[c] \in DOMAIN builds'
    <3>1. DOMAIN Submitted(c) = 1..(Len(builds) + 1)
      BY SubmittedBuild
    <3>2. QED BY <1>1, <2>1, <3>1
  <2>3. ~ok'[c]
    BY <1>1, <1>3 DEF Submit, At, TypeOK
  <2>4. QED BY <2>2, <2>3
<1>4. CASE PollBuild(c)
  BY <1>1, <1>4, BuildsEnd
     DEF PollBuild, TypeOK, Following, At, Goto, cloud
<1>5. CASE ~Following(c)' /\ ~ok'[c]
  BY <1>5
<1>6. CASE SetActiveBuild(c) \/ LoseContact(c)
  BY <1>1, <1>6, BuildsEnd
     DEF SetActiveBuild, LoseContact, TypeOK, Following, At, Goto, locals, Ended
<1>7. \/ pc'[c] = pc[c] /\ id'[c] = id[c] /\ ok'[c] = ok[c]
      \/ Submit(c) \/ PollBuild(c) \/ SetActiveBuild(c) \/ LoseContact(c)
      \/ ~Following(c)' /\ ~ok'[c]
  <2>1. CASE \E d \in Callers : Progress(d)
    <3>1. PICK d \in Callers : Progress(d) BY <2>1
    <3>2. CASE d # c
      BY <3>1, <3>2
         DEF Progress, Prepare, GivesUp, Decide, UploadOverlay, UploadSource,
             UploadTruncated, MarkSynced, Submit, Resubmit, SubmitFails, SetActiveBuild,
             PollBuild, Return, Leave, Goto, TypeOK, locals
    <3>3. CASE d = c
      BY <1>1, <3>1, <3>3
         DEF Progress, Prepare, GivesUp, Decide, UploadOverlay, UploadSource,
             UploadTruncated, MarkSynced, Resubmit, SubmitFails, Return, Leave, Goto, TypeOK,
             locals, At, Following
    <3>4. QED BY <3>2, <3>3
  <2>2. CASE \E d \in Callers, asked \in Call : Begin(d, asked)
    BY <1>1, <2>2 DEF Begin, Busy, Following, Goto, At, TypeOK
  <2>3. CASE \E d \in Callers : LoseContact(d) \/ Halt(d)
    BY <2>3 DEF LoseContact, Halt, Goto, TypeOK, locals
  <2>4. CASE Restart
    BY <2>4 DEF Restart, Following
  <2>5. CASE UNCHANGED <<pc, id, ok>>
    BY <2>5
  <2>6. QED
    BY <2>1, <2>2, <2>3, <2>4, <2>5
       DEF Next, Halting, CancelActive, CancelBuild, SetSourceRoot, Work, Fetch, ApplyPatch,
           Verify, Deploy, SaveBase, BuildFails, vars, locals
<1>8. QED BY <1>2, <1>3, <1>4, <1>5, <1>6, <1>7

\* The build the call follows takes a step.
LEMMA WorkOnCourse ==
  ASSUME TypeOK, NEW c \in Callers, Undisturbed(c), Following(c), id[c] \in DOMAIN builds,
         Work(id[c])
  PROVE  OnCourse(c)'
<1> DEFINE b == builds[id[c]]
<1>0. /\ builds \in Seq(Build) /\ b \in Build /\ b.workspace \in Tree /\ base \in Tree
      /\ OnCourse(c) /\ NoTree \in Tree /\ overlay \in SUBSET Patches
  <2>1. builds \in Seq(Build) /\ base \in Tree /\ overlay \in SUBSET Patches
    BY DEF TypeOK
  <2>2. b \in Build BY <2>1
  <2>3. b.workspace \in Tree BY <2>2 DEF Build
  <2>4. OnCourse(c) BY DEF Undisturbed
  <2>5. QED BY <2>1, <2>2, <2>3, <2>4, Trees
<1>1. UNCHANGED <<pc, locals>> /\ overlay' = overlay
  BY DEF Work, Fetch, ApplyPatch, Verify, Deploy, SaveBase, BuildFails
<1>2. Expected(c)' = Expected(c) /\ Packed(c)' = Packed(c)
  BY <1>1 DEF Expected, Packed, locals
<1> DEFINE next == builds'[id[c]]
<1>3. ASSUME NEW step \in Steps, NEW tree \in Tree, Proceed(id[c], step, tree)
      PROVE  /\ next.step = step /\ next.workspace = tree
             /\ next.patchOnly = b.patchOnly /\ next.deploy = b.deploy
  <2>1. builds' = [builds EXCEPT ![id[c]] = [b EXCEPT !.step = step, !.workspace = tree]]
    BY <1>3 DEF Proceed
  <2>2. next = [b EXCEPT !.step = step, !.workspace = tree]
    BY <2>1
  <2>3. QED BY <1>0, <2>2 DEF Build
<1>4. CASE Fetch(id[c])
  <2>1. Proceed(id[c], IF b.patchOnly THEN "patch" ELSE "verify", base) /\ b.step = "queued"
    BY <1>4 DEF Fetch
  <2>2. CASE patchOnly[c]
    <3>1. next.step = "patch" /\ next.workspace = base
          /\ next.patchOnly = b.patchOnly /\ next.deploy = b.deploy
      BY <1>0, <1>3, <2>1, <2>2 DEF OnCourse, Steps
    <3>2. QED
      BY <1>0, <1>1, <2>1, <2>2, <3>1 DEF OnCourse, Uploaded, locals
  <2>3. CASE ~patchOnly[c]
    <3>1. next.step = "verify" /\ next.workspace = base
          /\ next.patchOnly = b.patchOnly /\ next.deploy = b.deploy
      BY <1>0, <1>3, <2>1, <2>3 DEF OnCourse, Steps
    <3>2. base = Expected(c)
      BY <1>0, <2>1, <2>3 DEF OnCourse, Uploaded, Expected
    <3>3. QED
      BY <1>0, <1>1, <1>2, <2>1, <2>3, <3>1, <3>2 DEF OnCourse, locals
  <2>4. QED BY <2>2, <2>3
<1>5. CASE ApplyPatch(id[c])
  <2>1. Patched(b.workspace) \in Tree
    BY <1>0, Trees DEF Patched
  <2>2. next.step = "verify" /\ next.workspace = Patched(b.workspace)
        /\ next.patchOnly = b.patchOnly /\ next.deploy = b.deploy
    BY <1>3, <1>5, <2>1 DEF ApplyPatch, Steps
  <2>3. Patched(b.workspace) = Expected(c)
    BY <1>0, <1>5 DEF ApplyPatch, OnCourse, Patched, Expected
  <2>4. QED
    BY <1>0, <1>1, <1>2, <2>2, <2>3 DEF OnCourse, locals
<1>6. CASE Verify(id[c])
  <2>1. CASE b.deploy
    <3>1. next.step = "deploy" /\ next.workspace = b.workspace
          /\ next.patchOnly = b.patchOnly /\ next.deploy = b.deploy
      BY <1>0, <1>3, <1>6, <2>1 DEF Verify, Step, Steps
    <3>2. QED
      BY <1>0, <1>1, <1>2, <1>6, <3>1 DEF Verify, OnCourse, locals
  <2>2. CASE ~b.deploy
    <3>1. next.step = "success" /\ next.patchOnly = b.patchOnly /\ next.deploy = b.deploy
      BY <1>0, <1>3, <1>6, <2>2 DEF Verify, Finish, Steps, Ended
    <3>2. QED
      BY <1>0, <1>1, <1>2, <2>2, <3>1 DEF OnCourse, locals
  <2>3. QED BY <2>1, <2>2
<1>7. CASE Deploy(id[c])
  <2>1. next.step = "save" /\ next.workspace = b.workspace
        /\ next.patchOnly = b.patchOnly /\ next.deploy = b.deploy
    BY <1>0, <1>3, <1>7 DEF Deploy, Step, Steps
  <2>2. live' = Expected(c) /\ b.workspace = Expected(c)
    BY <1>0, <1>7 DEF Deploy, OnCourse
  <2>3. QED
    BY <1>0, <1>1, <1>2, <2>1, <2>2 DEF OnCourse, locals
<1>8. CASE SaveBase(id[c])
  <2>1. next.step = "success" /\ next.patchOnly = b.patchOnly /\ next.deploy = b.deploy
    BY <1>0, <1>3, <1>8 DEF SaveBase, Finish, Steps, Ended
  <2>2. live' = Expected(c) /\ base' = Expected(c)
    BY <1>0, <1>8 DEF SaveBase, OnCourse
  <2>3. QED
    BY <1>0, <1>1, <1>2, <2>1, <2>2 DEF OnCourse, locals
<1>9. CASE BuildFails(id[c])
  <2>1. next.step = "failure" /\ next.patchOnly = b.patchOnly /\ next.deploy = b.deploy
    BY <1>0, <1>3, <1>9 DEF BuildFails, Finish, Steps, Ended
  <2>2. QED
    BY <1>0, <1>1, <1>2, <2>1 DEF OnCourse, locals
<1>10. QED BY <1>4, <1>5, <1>6, <1>7, <1>8, <1>9 DEF Work

\* Every step keeps an undisturbed call, and its build, on course.
LEMMA UndisturbedStep ==
  ASSUME TypeOK, AloneShips, [Next]_vars
  PROVE  \A c \in Callers : alone'[c] => Undisturbed(c)'
<1> SUFFICES ASSUME NEW c \in Callers, alone'[c] PROVE Undisturbed(c)' OBVIOUS
<1>1. CASE \E d \in Callers, asked \in Call : Begin(d, asked)
  <2>1. PICK d \in Callers, asked \in Call : Begin(d, asked) BY <1>1
  <2>2. d = c /\ (\A e \in Callers : ~Busy(e)) /\ \A b \in DOMAIN builds : ~Running(b)
    BY <2>1 DEF Begin
  <2>3. pc' = [pc EXCEPT ![c] = "prepare"] /\ builds' = builds
    BY <2>1, <2>2 DEF Begin, Goto, cloud
  <2>4. QED
    BY <2>2, <2>3 DEF Undisturbed, Busy, Running, Following, At, TypeOK
<1>2. CASE ~\E d \in Callers, asked \in Call : Begin(d, asked)
  <2>1. alone[c] /\ pc'[c] # "idle"
    <3>1. alone[c]
      BY <1>2
         DEF Next, Progress, Halting, Work, Prepare, GivesUp, Decide, UploadOverlay,
             UploadSource, UploadTruncated, MarkSynced, Submit, Resubmit, SubmitFails,
             SetActiveBuild, PollBuild, LoseContact, Return, Halt, CancelActive, CancelBuild,
             SetSourceRoot, Restart, Fetch, ApplyPatch, Verify, Deploy, SaveBase, BuildFails,
             Leave, TypeOK, vars, locals
    <3>2. Busy(c) BY <3>1 DEF AloneShips, Undisturbed
    <3>3. QED
      BY <1>2, <3>1, <3>2
         DEF Next, Progress, Halting, Work, Prepare, GivesUp, Decide, UploadOverlay,
             UploadSource, UploadTruncated, MarkSynced, Submit, Resubmit, SubmitFails,
             SetActiveBuild, PollBuild, LoseContact, Return, Halt, CancelActive, CancelBuild,
             SetSourceRoot, Restart, Fetch, ApplyPatch, Verify, Deploy, SaveBase, BuildFails,
             Leave, Goto, Busy, TypeOK, vars, locals
  <2>2. Undisturbed(c) /\ Tracked BY <2>1 DEF AloneShips
  <2>3. /\ \A d \in Callers \ {c} : ~Busy(d)
        /\ \A b \in DOMAIN builds : Running(b) => Following(c) /\ b = id[c]
        /\ Following(c) => OnCourse(c) /\ id[c] \in DOMAIN builds
        /\ builds \in Seq(Build) /\ DOMAIN builds = 1..Len(builds) /\ Len(builds) \in Nat
    BY <2>2 DEF Undisturbed, Tracked, TypeOK
  <2>4. CASE UNCHANGED <<pc, call, eff, patchOnly, id, from, cloud>>
    BY <2>2, <2>4
       DEF Undisturbed, Busy, Running, Following, At, Uploaded, OnCourse, Expected, Packed, cloud
  <2>5. CASE \E d \in Callers : Progress(d) \/ LoseContact(d)
    <3>1. Progress(c) \/ LoseContact(c)
      BY <2>3, <2>5
         DEF Busy, Progress, Prepare, GivesUp, Decide, UploadOverlay, UploadSource,
             UploadTruncated, MarkSynced, Submit, Resubmit, SubmitFails, SetActiveBuild,
             PollBuild, LoseContact, Return, At
    <3>2. CASE Prepare(c)
      <4>1. pc' = [pc EXCEPT ![c] = "decide"] /\ UNCHANGED <<id, builds>> /\ pc[c] = "prepare"
        BY <3>2 DEF Prepare, At, Goto, cloud
      <4>2. QED BY <2>1, <2>3, <4>1 DEF Undisturbed, Busy, Running, Following, At, TypeOK
    <3>3. CASE \E found \in BOOLEAN : Decide(c, found)
      <4>1. /\ pc' = [pc EXCEPT ![c] = "upload"] /\ from' = [from EXCEPT ![c] = base]
            /\ UNCHANGED <<id, builds, base>> /\ pc[c] = "decide"
        BY <3>3 DEF Decide, At, Goto, cloud
      <4>2. QED BY <2>1, <2>3, <4>1 DEF Undisturbed, Busy, Running, Following, At, TypeOK
    <3>4. CASE UploadOverlay(c)
      <4>1. /\ pc' = [pc EXCEPT ![c] = "submit"] /\ overlay' = call[c].fixes /\ patchOnly[c]
            /\ UNCHANGED <<call, eff, patchOnly, from, id, builds, base>> /\ pc[c] = "upload"
        BY <3>4 DEF UploadOverlay, At, Goto, locals
      <4>2. base = from[c] BY <2>2, <4>1 DEF Undisturbed, At
      <4>3. Uploaded(c)' BY <4>1, <4>2 DEF Uploaded
      <4>4. QED
        BY <2>1, <2>3, <4>1, <4>3 DEF Undisturbed, Busy, Running, Following, At, TypeOK
    <3>5. CASE UploadSource(c)
      <4>1. /\ pc' = [pc EXCEPT ![c] = "mark"] /\ base' = Packed(c) /\ ~patchOnly[c]
            /\ UNCHANGED <<call, eff, patchOnly, from, id, builds>> /\ pc[c] = "upload"
        BY <3>5 DEF UploadSource, At, Goto, locals
      <4>2. Uploaded(c)' BY <4>1 DEF Uploaded, Packed
      <4>3. QED
        BY <2>1, <2>3, <4>1, <4>2 DEF Undisturbed, Busy, Running, Following, At, TypeOK
    <3>6. CASE MarkSynced(c)
      <4>1. /\ pc' = [pc EXCEPT ![c] = "submit"] /\ pc[c] = "mark"
            /\ UNCHANGED <<call, eff, patchOnly, from, id, builds, base, overlay>>
        BY <3>6 DEF MarkSynced, At, Goto, locals, cloud
      <4>2. Uploaded(c) BY <2>2, <4>1 DEF Undisturbed
      <4>3. Uploaded(c)' BY <4>1, <4>2 DEF Uploaded, Packed
      <4>4. QED
        BY <2>1, <2>3, <4>1, <4>3 DEF Undisturbed, Busy, Running, Following, At, TypeOK
    <3>7. CASE Submit(c)
      <4>1. /\ pc' = [pc EXCEPT ![c] = "register"] /\ pc[c] = "submit"
            /\ id' = [id EXCEPT ![c] = Len(builds) + 1] /\ builds' = Submitted(c)
            /\ UNCHANGED <<call, eff, patchOnly, from, base, overlay, live>>
        BY <3>7 DEF Submit, At, Goto
      <4>2. Uploaded(c) BY <2>2, <4>1 DEF Undisturbed
      <4>3. Uploaded(c)' BY <4>1, <4>2 DEF Uploaded, Packed
      <4>4. /\ DOMAIN builds' = 1..(Len(builds) + 1)
            /\ \A b \in DOMAIN builds : builds'[b] = builds[b]
            /\ builds'[Len(builds) + 1] =
                 [step |-> "queued", patchOnly |-> patchOnly[c],
                  deploy |-> call[c].deploy, workspace |-> NoTree]
        BY <4>1, SubmittedBuild
      <4>5. id'[c] = Len(builds) + 1 BY <4>1 DEF TypeOK
      <4>6. OnCourse(c)' BY <4>1, <4>3, <4>4, <4>5 DEF OnCourse
      <4>7. \A b \in DOMAIN builds' : Running(b)' => b = id'[c]
        BY <2>3, <4>1, <4>4, <4>5 DEF Running, Following
      <4>8. QED
        BY <2>1, <2>3, <4>1, <4>6, <4>7 DEF Undisturbed, Busy, Following, At, TypeOK
    <3>8. CASE \E accepted \in BOOLEAN : Resubmit(c, accepted)
      <4>1. UNCHANGED <<pc, call, eff, patchOnly, id, from, cloud>>
        BY <3>8, <2>1 DEF Resubmit, TypeOK, cloud
      <4>2. QED BY <2>4, <4>1
    <3>9. CASE SetActiveBuild(c) \/ PollBuild(c) \/ LoseContact(c)
      <4>1. /\ pc'[c] \in {"poll", "clear"} /\ pc' = [pc EXCEPT ![c] = pc'[c]]
            /\ Following(c) /\ UNCHANGED <<call, eff, patchOnly, from, id, cloud>>
        BY <3>9 DEF SetActiveBuild, PollBuild, LoseContact, Following, At, Goto, TypeOK, locals
      <4>2. OnCourse(c)'
        BY <2>3, <4>1 DEF OnCourse, Uploaded, Expected, Packed, cloud
      <4>3. QED
        BY <2>1, <2>3, <4>1, <4>2
           DEF Undisturbed, Busy, Running, Following, At, TypeOK, cloud
    <3>10. CASE Leave(c)
      BY <2>1, <3>10 DEF Leave, Goto, TypeOK
    <3>11. QED
      BY <3>1, <3>2, <3>3, <3>4, <3>5, <3>6, <3>7, <3>8, <3>9, <3>10
         DEF Progress, GivesUp, UploadTruncated, SubmitFails, Return
  <2>6. CASE \E landed \in BOOLEAN : CancelBuild(landed)
    <3>1. UNCHANGED <<pc, call, eff, patchOnly, id, from, base, overlay, live>>
      BY <2>6 DEF CancelBuild, locals
    <3>2. CASE builds' = builds
      BY <2>4, <3>1, <3>2 DEF cloud
    <3>3. CASE Running(target) /\ Finish(target, "cancelled")
      <4>1. builds' = [builds EXCEPT ![target] =
                         [builds[target] EXCEPT !.step = "cancelled", !.workspace = NoTree]]
        BY <3>3 DEF Finish, Proceed
      <4>2. /\ DOMAIN builds' = DOMAIN builds
            /\ \A b \in DOMAIN builds : b # target => builds'[b] = builds[b]
            /\ target \in DOMAIN builds => builds'[target] =
                 [builds[target] EXCEPT !.step = "cancelled", !.workspace = NoTree]
        BY <4>1
      <4>3. target \in DOMAIN builds => builds[target] \in Build
        BY <2>3
      <4>4. \A b \in DOMAIN builds' : Running(b)' => Running(b)
        BY <3>3, <4>2 DEF Running
      <4>5. Following(c)' => OnCourse(c)'
        <5>1. SUFFICES ASSUME Following(c)' PROVE OnCourse(c)' OBVIOUS
        <5>2. OnCourse(c) /\ id[c] \in DOMAIN builds BY <2>3, <3>1, <5>1 DEF Following
        <5>3. CASE target = id[c]
          <6>1. builds'[id[c]].step = "cancelled"
                /\ builds'[id[c]].patchOnly = builds[id[c]].patchOnly
                /\ builds'[id[c]].deploy = builds[id[c]].deploy
            BY <4>2, <4>3, <5>2, <5>3 DEF Build
          <6>2. QED BY <3>1, <5>2, <6>1 DEF OnCourse
        <5>4. CASE target # id[c]
          BY <3>1, <4>2, <5>2, <5>4 DEF OnCourse, Uploaded, Expected, Packed
        <5>5. QED BY <5>3, <5>4
      <4>6. QED
        BY <2>2, <3>1, <4>2, <4>4, <4>5
           DEF Undisturbed, Busy, Following, At, Uploaded, Packed
    <3>4. QED BY <2>6, <3>2, <3>3 DEF CancelBuild
  <2>7. CASE \E b \in DOMAIN builds : Work(b)
    <3>1. PICK b \in DOMAIN builds : Work(b) BY <2>7
    <3>2. Running(b)
      BY <3>1 DEF Work, Fetch, ApplyPatch, Verify, Deploy, SaveBase, BuildFails, Running, Ended
    <3>3. Following(c) /\ b = id[c] BY <2>3, <3>2
    <3>4. OnCourse(c)' BY <2>2, <2>3, <3>1, <3>3, WorkOnCourse
    <3>5. UNCHANGED <<pc, locals>>
      BY <3>1 DEF Work, Fetch, ApplyPatch, Verify, Deploy, SaveBase, BuildFails
    <3>6. DOMAIN builds' = DOMAIN builds
      BY <3>1 DEF Work, Fetch, ApplyPatch, Verify, Deploy, SaveBase, BuildFails, Step, Finish,
                  Proceed
    <3>7. \A a \in DOMAIN builds' : Running(a)' => a = id'[c]
      BY <2>3, <3>5, <3>6, BuildsEnd DEF Running, locals
    <3>8. QED
      BY <2>1, <2>3, <3>3, <3>4, <3>5, <3>7 DEF Undisturbed, Busy, Following, At, locals
  <2>8. CASE Restart
    BY <2>1, <2>8 DEF Restart
  <2>9. QED
    BY <1>2, <2>4, <2>5, <2>6, <2>7, <2>8
       DEF Next, Halting, CancelActive, SetSourceRoot, Halt, vars, locals, cloud
<1>3. QED BY <1>1, <1>2

\* A deploy that met no other has put live the tree it was to ship, and left the
\* base of the next one behind it.
THEOREM UndisturbedShips == Spec => []UndisturbedCallShips
<1>1. Init => AloneShips
  BY DEF Init, AloneShips, Tracked, Following
<1>2. TypeOK /\ AloneShips /\ [Next]_vars => AloneShips'
  <2> SUFFICES ASSUME TypeOK, AloneShips, [Next]_vars PROVE AloneShips' OBVIOUS
  <2>1. Tracked' BY TrackedStep DEF AloneShips
  <2>2. QED BY <2>1, UndisturbedStep DEF AloneShips
<1>3. AloneShips => UndisturbedCallShips
  <2> SUFFICES ASSUME AloneShips, NEW c \in Callers,
                      At(c, "clear") /\ ok[c] /\ call[c].deploy /\ alone[c]
               PROVE  live = Expected(c) /\ base = live
    BY DEF UndisturbedCallShips
  <2>1. Undisturbed(c) /\ builds[id[c]].step = "success" BY DEF AloneShips, Tracked
  <2>2. Following(c) BY DEF Following, At
  <2>3. QED BY <2>1, <2>2 DEF Undisturbed, OnCourse
<1>4. QED BY <1>1, <1>2, <1>3, TypeCorrect, PTL DEF Spec

-----------------------------------------------------------------------------
(* When a halt stops the build *)

OneCaller == \A c, d \in Callers : Busy(c) /\ Busy(d) => c = d

\* A call that polls has its build registered, and the build of a halted call has ended
\* or somebody is after it.
Chased ==
  \A c \in Callers :
    /\ pc[c] \in {"poll", "clear"} => active = id[c]
    /\ id[c] # NoBuild => Following(c)
    /\ halted[c] /\ id[c] # NoBuild =>
         /\ pc[c] # "register"
         /\ \/ ~Running(id[c]) \/ cancelling = "ask"
            \/ cancelling = "send" /\ target = id[c]

HaltsRegistered == \A c \in Callers : Halt(c) => pc[c] # "register"

CancelsLand == CancelBuild(FALSE) => ~Running(target)

\* A step of one call at a time, a halt that finds its build registered and a cancel that
\* lands keep somebody after the build of every halted call.
LEMMA ChasedStep ==
  ASSUME TypeOK, Tracked, Chased, OneCaller, [Next]_vars, HaltsRegistered, CancelsLand
  PROVE  Chased'
<1> SUFFICES ASSUME NEW d \in Callers
             PROVE  /\ pc'[d] \in {"poll", "clear"} => active' = id'[d]
                    /\ id'[d] # NoBuild => Following(d)'
                    /\ halted'[d] /\ id'[d] # NoBuild =>
                         /\ pc'[d] # "register"
                         /\ \/ ~Running(id[d])' \/ cancelling' = "ask"
                            \/ cancelling' = "send" /\ target' = id'[d]
  BY DEF Chased
<1>1. /\ pc[d] \in {"poll", "clear"} => active = id[d]
      /\ id[d] # NoBuild => Following(d)
      /\ halted[d] /\ id[d] # NoBuild =>
           /\ pc[d] # "register"
           /\ \/ ~Running(id[d]) \/ cancelling = "ask"
              \/ cancelling = "send" /\ target = id[d]
  BY DEF Chased
<1>2. id[d] # NoBuild => id[d] \in DOMAIN builds
  BY <1>1 DEF Tracked
<1>3. id[d] # NoBuild /\ id'[d] = id[d] /\ ~Running(id[d]) => ~Running(id[d])'
  BY <1>2, BuildsEnd DEF Running
<1>4. CASE /\ UNCHANGED <<pc[d], id[d], halted[d], cancelling, target>>
           /\ pc[d] \in {"poll", "clear"} => active' = active
  BY <1>1, <1>3, <1>4 DEF Following
<1>5. CASE Leave(d)
  BY <1>5 DEF Leave, Goto, TypeOK
<1>6. CASE \E c \in Callers, asked \in Call : Begin(c, asked)
  <2>1. PICK c \in Callers, asked \in Call : Begin(c, asked)
    BY <1>6
  <2>2. UNCHANGED <<id, halted, active, cancelling, target>>
    BY <2>1 DEF Begin, runner, halting
  <2>3. CASE c = d
    <3>1. id[d] = NoBuild /\ pc'[d] = "prepare"
      BY <1>1, <2>1, <2>3 DEF Begin, Goto, Busy, Following, TypeOK
    <3>2. QED BY <2>2, <3>1
  <2>4. CASE c # d
    BY <1>4, <2>1, <2>2, <2>4 DEF Begin, Goto, TypeOK
  <2>5. QED BY <2>3, <2>4
<1>7. CASE \E c \in Callers : Progress(c)
  <2>1. PICK c \in Callers : Progress(c)
    BY <1>7
  <2>2. UNCHANGED <<cancelling, target>>
    BY <2>1 DEF Progress, Prepare, GivesUp, Decide, UploadOverlay, UploadSource,
                UploadTruncated, MarkSynced, Submit, Resubmit, SubmitFails, SetActiveBuild,
                PollBuild, Return, halting
  <2>3. CASE c # d
    <3>1. UNCHANGED <<pc[d], id[d], halted[d]>>
      BY <2>1, <2>3
         DEF Progress, Prepare, GivesUp, Decide, UploadOverlay, UploadSource, UploadTruncated,
             MarkSynced, Submit, Resubmit, SubmitFails, SetActiveBuild, PollBuild, Return,
             Leave, Goto, TypeOK, locals
    <3>2. pc[d] \in {"poll", "clear"} => active' = active
      BY <2>1, <2>3
         DEF OneCaller, Busy, Progress, Prepare, GivesUp, Decide, UploadOverlay, UploadSource,
             UploadTruncated, MarkSynced, Submit, Resubmit, SubmitFails, SetActiveBuild,
             PollBuild, Return, At, runner
    <3>3. QED BY <1>4, <2>2, <3>1, <3>2
  <2>4. CASE c = d
    <3>1. CASE GivesUp(d) \/ UploadTruncated(d) \/ Return(d)
               \/ \E accepted \in BOOLEAN : SubmitFails(d, accepted)
      BY <1>5, <3>1 DEF GivesUp, UploadTruncated, Return, SubmitFails
    <3>2. CASE Submit(d)
      BY <3>2 DEF Submit, Goto, Following, TypeOK
    <3>3. CASE SetActiveBuild(d)
      BY <1>1, <1>3, <2>2, <3>3 DEF SetActiveBuild, Goto, Following, At, TypeOK, locals
    <3>4. CASE PollBuild(d)
      BY <1>1, <1>3, <2>2, <3>4 DEF PollBuild, Goto, Following, At, TypeOK, runner
    <3>5. CASE \E accepted \in BOOLEAN : Resubmit(d, accepted)
      BY <1>4, <2>2, <3>5 DEF Resubmit, runner
    <3>6. CASE Prepare(d) \/ (\E found \in BOOLEAN : Decide(d, found)) \/ UploadOverlay(d)
               \/ UploadSource(d) \/ MarkSynced(d)
      <4>1. /\ id[d] = NoBuild /\ id'[d] = id[d]
            /\ pc'[d] \in {"decide", "upload", "submit", "mark"}
        BY <1>1, <3>6
           DEF Prepare, Decide, UploadOverlay, UploadSource, MarkSynced, At, Goto, Following,
               TypeOK, locals
      <4>2. QED BY <4>1
    <3>7. QED BY <2>1, <2>4, <3>1, <3>2, <3>3, <3>4, <3>5, <3>6 DEF Progress
  <2>5. QED BY <2>3, <2>4
<1>8. CASE \E c \in Callers : LoseContact(c)
  BY <1>1, <1>3, <1>8 DEF LoseContact, Goto, At, Following, TypeOK, runner, locals, halting
<1>9. CASE \E c \in Callers : Halt(c)
  <2>1. PICK c \in Callers : Halt(c)
    BY <1>9
  <2>2. /\ UNCHANGED <<pc, id, active>> /\ cancelling' = "ask"
        /\ halted'[d] => halted[d] \/ c = d
    BY <2>1 DEF Halt, TypeOK, runner
  <2>3. c = d => pc[d] # "register"
    BY <2>1 DEF HaltsRegistered
  <2>4. QED BY <1>1, <2>2, <2>3 DEF Following
<1>10. CASE CancelActive
  <2>1. UNCHANGED <<pc, id, halted, active, builds>> /\ target' = active
        /\ (active # NoBuild => cancelling' = "send")
    BY <1>10 DEF CancelActive, runner, locals, cloud
  <2>2. halted[d] /\ id[d] # NoBuild => active = id[d]
    BY <1>1 DEF Following
  <2>3. QED BY <1>1, <2>1, <2>2 DEF Following
<1>11. CASE \E landed \in BOOLEAN : CancelBuild(landed)
  <2>1. PICK landed \in BOOLEAN : CancelBuild(landed)
    BY <1>11
  <2>2. UNCHANGED <<pc, id, halted, active>> /\ cancelling = "send"
    BY <2>1 DEF CancelBuild, runner, locals
  <2>3. target = id[d] /\ id[d] # NoBuild => ~Running(id[d])'
    <3>1. SUFFICES ASSUME target = id[d], id[d] # NoBuild PROVE ~Running(id[d])'
      OBVIOUS
    <3>2. CASE ~Running(target)
      BY <1>3, <2>2, <3>1, <3>2
    <3>3. CASE Running(target)
      <4>1. landed
        BY <2>1, <3>3 DEF CancelsLand
      <4>2. Finish(target, "cancelled")
        BY <2>1, <3>3, <4>1 DEF CancelBuild
      <4>3. builds[target] \in Build /\ target \in DOMAIN builds
        BY <1>2, <3>1 DEF TypeOK
      <4>4. builds'[target].step = "cancelled"
        BY <4>2, <4>3 DEF Finish, Proceed, Build
      <4>5. QED BY <2>2, <3>1, <4>4 DEF Running, Ended
    <3>4. QED BY <3>2, <3>3
  <2>4. QED BY <1>1, <1>3, <2>2, <2>3 DEF Following
<1>12. CASE Restart
  BY <1>12 DEF Restart
<1>13. CASE UNCHANGED <<pc, locals, halting, active>>
  BY <1>4, <1>13 DEF locals, halting
<1>14. QED
  BY <1>6, <1>7, <1>8, <1>9, <1>10, <1>11, <1>12, <1>13
     DEF Next, Halting, SetSourceRoot, Work, Fetch, ApplyPatch, Verify, Deploy, SaveBase,
         BuildFails, vars, runner

\* The comment above cancelRunnerBuild is kept under three conditions: one call at a
\* time, no halt between the submit and the registration of the build, and no cancel
\* that fails on a build that runs.  A halted run's build then never deploys once the
\* goroutine that cancels it is done.
THEOREM HaltStops ==
  Spec /\ []OneCaller /\ [][HaltsRegistered]_vars /\ [][CancelsLand]_vars => HaltStopsBuild
<1>1. Init => Chased /\ Tracked
  BY DEF Init, Chased, Tracked, Following
<1>2. /\ TypeOK /\ Tracked /\ Chased /\ OneCaller
      /\ [Next]_vars /\ [HaltsRegistered]_vars /\ [CancelsLand]_vars
      => Chased'
  <2> SUFFICES ASSUME TypeOK, Tracked, Chased, OneCaller, [Next]_vars,
                      [HaltsRegistered]_vars, [CancelsLand]_vars
               PROVE  Chased'
    OBVIOUS
  <2>1. CASE UNCHANGED vars
    BY <2>1 DEF Chased, Following, Running, vars, runner, locals, halting, cloud
  <2>2. CASE ~UNCHANGED vars
    BY <2>2, ChasedStep
  <2>3. QED BY <2>1, <2>2
<1>3. TypeOK /\ Tracked /\ [Next]_vars => Tracked'
  BY TrackedStep
<1>4. TypeOK /\ Chased
      => [\A b \in DOMAIN builds : Deploy(b) =>
            \A c \in Callers : id[c] = b /\ halted[c] => cancelling # "no"]_vars
  <2> SUFFICES ASSUME TypeOK, Chased, NEW b \in DOMAIN builds, Deploy(b), NEW c \in Callers,
                      id[c] = b, halted[c]
               PROVE  cancelling # "no"
    OBVIOUS
  <2>1. id[c] # NoBuild
    BY DEF TypeOK, NoBuild
  <2>2. Running(id[c])
    BY DEF Deploy, Running, Ended
  <2>3. QED BY <2>1, <2>2 DEF Chased
<1>5. QED BY <1>1, <1>2, <1>3, <1>4, TypeCorrect, PTL DEF Spec, HaltStopsBuild

=============================================================================
