----------------------------- MODULE CloudRunner -----------------------------
(***************************************************************************)
(* The Cloud Build runner (internal/pipeline).  Remediate packages the     *)
(* source into a bucket, submits a build and polls it; the autopilot and   *)
(* the API handlers call it concurrently and nothing keeps them apart.     *)
(*                                                                         *)
(* Outside the process, and outliving it: the bucket with its two objects, *)
(* base-source.tar.gz and patch-source.tar.gz, the builds, and the live    *)
(* Cloud Run service.  A source tree is the root it was packed from, the   *)
(* fixes laid over it (patches of different files) and whether it is       *)
(* whole.  One bucket and one service: deploy params are left out.         *)
(***************************************************************************)
EXTENDS Naturals, Sequences

CONSTANTS
  Callers,    \* goroutines that call Remediate
  Haltable,   \* the autopilot's, whose context a halt cancels
  Patches,    \* fixes that may be shipped
  Roots,      \* source directories
  FirstRoot,  \* SOURCE_ROOT
  Attempts    \* attempts of retryTransient (3)

ASSUME CloudRunnerAssumption ==
  /\ Haltable \subseteq Callers
  /\ FirstRoot \in Roots
  /\ Attempts \in Nat \ {0}

VARIABLES
  \* CloudRunner, guarded by mu: cfg.SourceRoot, synced, activeBuildID
  root, synced, active,
  \* the locals of each Remediate in progress, and its context
  pc, call, eff, patchOnly, tries, id, ok, halted,
  \* the goroutine of the autopilot's cancelRunnerBuild
  cancelling, target,
  \* the cloud: the two objects, the builds in order of submission, the service
  base, overlay, builds, live,
  \* history, per call: it met no other call or build; the base it decided on
  alone, from,
  \* history: fixes somebody asked to deploy; this process uploaded a full base
  approved, refreshed

runner  == <<root, synced, active>>
locals  == <<call, eff, patchOnly, tries, id, ok, halted, alone, from>>
halting == <<cancelling, target>>
cloud   == <<base, overlay, builds, live>>
history == <<approved, refreshed>>
vars == <<runner, pc, locals, halting, cloud, history>>

NoBuild == 0
Tree    == [root : Roots, fixes : SUBSET Patches, whole : BOOLEAN]
NoTree  == [root |-> FirstRoot, fixes |-> {}, whole |-> FALSE]
Call    == [fixes : SUBSET Patches, force : BOOLEAN, deploy : BOOLEAN]
NoCall  == [fixes |-> {}, force |-> FALSE, deploy |-> FALSE]
Ended   == {"success", "failure", "cancelled"}
Build   == [step : {"queued", "patch", "verify", "deploy", "save"} \cup Ended,
            patchOnly : BOOLEAN, deploy : BOOLEAN, workspace : Tree]

Over(tree, fixes) == [tree EXCEPT !.fixes = @ \cup fixes]

Init ==
  /\ root = FirstRoot /\ synced = FALSE /\ active = NoBuild
  /\ pc = [c \in Callers |-> "idle"]
  /\ call = [c \in Callers |-> NoCall] /\ eff = [c \in Callers |-> FirstRoot]
  /\ patchOnly = [c \in Callers |-> FALSE] /\ tries = [c \in Callers |-> 0]
  /\ id = [c \in Callers |-> NoBuild] /\ ok = [c \in Callers |-> FALSE]
  /\ halted = [c \in Callers |-> FALSE]
  /\ cancelling = "no" /\ target = NoBuild
  /\ base = NoTree /\ overlay = {} /\ builds = <<>> /\ live = NoTree
  /\ alone = [c \in Callers |-> FALSE] /\ from = [c \in Callers |-> NoTree]
  /\ approved = {} /\ refreshed = FALSE

-----------------------------------------------------------------------------
(* Remediate, up to the upload *)

At(c, pos) == pc[c] = pos
Goto(c, pos) == pc' = [pc EXCEPT ![c] = pos]

Busy(c) == pc[c] # "idle"
Running(b) == builds[b].step \notin Ended

Proceed(b, step, tree) ==
  builds' = [builds EXCEPT ![b].step = step, ![b].workspace = tree]

Step(b, step) == Proceed(b, step, builds[b].workspace)

\* A build ends, and its workspace with it.
Finish(b, step) == Proceed(b, step, NoTree)

\* Remediate returns: its locals are gone.
Leave(c) ==
  /\ Goto(c, "idle")
  /\ call' = [call EXCEPT ![c] = NoCall] /\ eff' = [eff EXCEPT ![c] = FirstRoot]
  /\ patchOnly' = [patchOnly EXCEPT ![c] = FALSE] /\ tries' = [tries EXCEPT ![c] = 0]
  /\ id' = [id EXCEPT ![c] = NoBuild] /\ ok' = [ok EXCEPT ![c] = FALSE]
  /\ halted' = [halted EXCEPT ![c] = FALSE]
  /\ alone' = [alone EXCEPT ![c] = FALSE] /\ from' = [from EXCEPT ![c] = NoTree]

\* With patches, or without: the demo reset ships the source as it is.
Begin(c, asked) ==
  /\ ~Busy(c)
  /\ Goto(c, "prepare")
  /\ call' = [call EXCEPT ![c] = asked]
  /\ approved' = IF asked.deploy THEN approved \cup asked.fixes ELSE approved
  /\ alone' = [d \in Callers |-> /\ d = c
                                 /\ \A e \in Callers : ~Busy(e)
                                 /\ \A b \in DOMAIN builds : ~Running(b)]
  /\ UNCHANGED <<runner, eff, patchOnly, tries, id, ok, halted, from, halting, cloud,
                 refreshed>>

\* The source root is read once; the test and the Dockerfile are there.
Prepare(c) ==
  /\ At(c, "prepare")
  /\ eff' = [eff EXCEPT ![c] = root]
  /\ Goto(c, "decide")
  /\ UNCHANGED <<runner, call, patchOnly, tries, id, ok, halted, alone, from, halting,
                 cloud, history>>

\* No patch, test, Dockerfile, bucket or repository; an upload lost on the way.
GivesUp(c) ==
  /\ pc[c] \in {"prepare", "decide", "upload"}
  /\ Leave(c)
  /\ UNCHANGED <<runner, halting, cloud, history>>

\* Slip: any base in the bucket will do, whoever uploaded it.
OverlaySuffices_AnyBase(c, found) == ~call[c].force /\ found

\* Only the fixes are uploaded if this process has uploaded a base in full.
OverlaySuffices(c, found) == ~call[c].force /\ synced /\ found

\* baseExists asks the bucket, and takes an error for a no.
Decide(c, found) ==
  /\ At(c, "decide")
  /\ found => base # NoTree
  /\ patchOnly' = [patchOnly EXCEPT ![c] = OverlaySuffices(c, found)]
  /\ from' = [from EXCEPT ![c] = base]
  /\ Goto(c, "upload")
  /\ UNCHANGED <<runner, call, eff, tries, id, ok, halted, alone, halting, cloud, history>>

\* Transient errors are retried inside the step; a done context ends it.
UploadOverlay(c) ==
  /\ At(c, "upload") /\ patchOnly[c] /\ ~halted[c]
  /\ overlay' = call[c].fixes
  /\ Goto(c, "submit")
  /\ UNCHANGED <<runner, locals, halting, base, builds, live, history>>

Packed(c) == [root |-> eff[c], fixes |-> call[c].fixes, whole |-> TRUE]

UploadSource(c) ==
  /\ At(c, "upload") /\ ~patchOnly[c] /\ ~halted[c]
  /\ base' = Packed(c)
  /\ refreshed' = TRUE
  /\ Goto(c, "mark")
  /\ UNCHANGED <<runner, locals, halting, overlay, builds, live, approved>>

\* A local file cannot be read: the writer is closed all the same, and what it
\* has taken becomes the object.
UploadTruncated(c) ==
  /\ At(c, "upload") /\ ~patchOnly[c] /\ ~halted[c]
  /\ base' = [Packed(c) EXCEPT !.whole = FALSE]
  /\ Leave(c)
  /\ UNCHANGED <<runner, halting, overlay, builds, live, history>>

MarkSynced(c) ==
  /\ At(c, "mark")
  /\ synced' = TRUE
  /\ Goto(c, "submit")
  /\ UNCHANGED <<root, active, locals, halting, cloud, history>>

-----------------------------------------------------------------------------
(* Remediate: submit, register, poll *)

\* buildSpec: the source is always the base object; an overlay is downloaded on
\* top of it if that is all that was uploaded.
Submitted(c) ==
  Append(builds, [step |-> "queued", patchOnly |-> patchOnly[c],
                  deploy |-> call[c].deploy, workspace |-> NoTree])

Submit(c) ==
  /\ At(c, "submit") /\ ~halted[c]
  /\ builds' = Submitted(c)
  /\ id' = [id EXCEPT ![c] = Len(builds) + 1]
  /\ Goto(c, "register")
  /\ UNCHANGED <<runner, call, eff, patchOnly, tries, ok, halted, alone, from, halting,
                 base, overlay, live, history>>

\* Slip: one attempt too many.
MayResubmit_OffByOne(c) == ~halted[c] /\ tries[c] < Attempts

MayResubmit(c) == ~halted[c] /\ tries[c] + 1 < Attempts

\* A transient error is tried again, unless the context is done: the request was
\* lost, or only its answer.
Resubmit(c, accepted) ==
  /\ At(c, "submit") /\ MayResubmit(c)
  /\ tries' = [tries EXCEPT ![c] = @ + 1]
  /\ builds' = IF accepted THEN Submitted(c) ELSE builds
  /\ alone' = [alone EXCEPT ![c] = @ /\ ~accepted]
  /\ UNCHANGED <<runner, pc, call, eff, patchOnly, id, ok, halted, from, halting, base,
                 overlay, live, history>>

SubmitFails(c, accepted) ==
  /\ At(c, "submit")
  /\ builds' = IF accepted THEN Submitted(c) ELSE builds
  /\ Leave(c)
  /\ UNCHANGED <<runner, halting, base, overlay, live, history>>

SetActiveBuild(c) ==
  /\ At(c, "register")
  /\ active' = id[c]
  /\ Goto(c, "poll")
  /\ UNCHANGED <<root, synced, locals, halting, cloud, history>>

PollBuild(c) ==
  /\ At(c, "poll") /\ ~Running(id[c])
  /\ ok' = [ok EXCEPT ![c] = builds[id[c]].step = "success"]
  /\ Goto(c, "clear")
  /\ UNCHANGED <<runner, call, eff, patchOnly, tries, id, halted, alone, from, halting,
                 cloud, history>>

\* The context is done, or contact is lost: the build goes on.
LoseContact(c) ==
  /\ At(c, "poll")
  /\ Goto(c, "clear")
  /\ UNCHANGED <<runner, locals, halting, cloud, history>>

\* Slip: the last build stays registered.
ActiveAfterReturn_Kept == active

ActiveAfterReturn == NoBuild

\* The deferred setActiveBuild("", ""), whoever's build is registered by now.
Return(c) ==
  /\ At(c, "clear")
  /\ active' = ActiveAfterReturn
  /\ Leave(c)
  /\ UNCHANGED <<root, synced, halting, cloud, history>>

-----------------------------------------------------------------------------
(* Halting, re-pointing, restarting *)

\* The autopilot cancels the run's context and starts a goroutine that cancels
\* the active build (one such goroutine at a time).
Halt(c) ==
  /\ c \in Haltable /\ Busy(c) /\ ~halted[c] /\ cancelling = "no"
  /\ halted' = [halted EXCEPT ![c] = TRUE]
  /\ cancelling' = "ask"
  /\ UNCHANGED <<runner, pc, call, eff, patchOnly, tries, id, ok, alone, from, target,
                 cloud, history>>

CancelActive ==
  /\ cancelling = "ask"
  /\ cancelling' = IF active = NoBuild THEN "no" ELSE "send"
  /\ target' = active
  /\ UNCHANGED <<runner, pc, locals, cloud, history>>

CancelBuild(landed) ==
  /\ cancelling = "send"
  /\ IF landed /\ Running(target) THEN Finish(target, "cancelled") ELSE UNCHANGED builds
  /\ cancelling' = "no" /\ target' = NoBuild
  /\ UNCHANGED <<runner, pc, locals, base, overlay, live, history>>

SetSourceRoot(dir) ==
  /\ root' = dir /\ synced' = FALSE
  /\ UNCHANGED <<active, pc, locals, halting, cloud, history>>

\* The process dies and New starts over; the cloud goes on.
Restart ==
  /\ root' = FirstRoot /\ synced' = FALSE /\ active' = NoBuild
  /\ pc' = [c \in Callers |-> "idle"]
  /\ call' = [c \in Callers |-> NoCall] /\ eff' = [c \in Callers |-> FirstRoot]
  /\ patchOnly' = [c \in Callers |-> FALSE] /\ tries' = [c \in Callers |-> 0]
  /\ id' = [c \in Callers |-> NoBuild] /\ ok' = [c \in Callers |-> FALSE]
  /\ halted' = [c \in Callers |-> FALSE]
  /\ cancelling' = "no" /\ target' = NoBuild
  /\ alone' = [c \in Callers |-> FALSE] /\ from' = [c \in Callers |-> NoTree]
  /\ refreshed' = FALSE
  /\ UNCHANGED <<cloud, approved>>

-----------------------------------------------------------------------------
(* Cloud Build, as buildSpec asks for it *)

\* The source of the build is the base object at the time it starts.
Fetch(b) ==
  /\ builds[b].step = "queued"
  /\ Proceed(b, IF builds[b].patchOnly THEN "patch" ELSE "verify", base)
  /\ UNCHANGED <<runner, pc, locals, halting, base, overlay, live, history>>

\* Slip: the overlay is downloaded and not unpacked.
Patched_Not(tree) == tree

Patched(tree) == Over(tree, overlay)

ApplyPatch(b) ==
  /\ builds[b].step = "patch"
  /\ Proceed(b, "verify", Patched(builds[b].workspace))
  /\ UNCHANGED <<runner, pc, locals, halting, base, overlay, live, history>>

\* The test and the image.
Verify(b) ==
  /\ builds[b].step = "verify"
  /\ IF builds[b].deploy THEN Step(b, "deploy") ELSE Finish(b, "success")
  /\ UNCHANGED <<runner, pc, locals, halting, base, overlay, live, history>>

Deploy(b) ==
  /\ builds[b].step = "deploy"
  /\ live' = builds[b].workspace
  /\ Step(b, "save")
  /\ UNCHANGED <<runner, pc, locals, halting, base, overlay, history>>

\* save-updated-base, upload-updated-base: the next overlay builds on this.
SaveBase(b) ==
  /\ builds[b].step = "save"
  /\ base' = builds[b].workspace
  /\ Finish(b, "success")
  /\ UNCHANGED <<runner, pc, locals, halting, overlay, live, history>>

BuildFails(b) ==
  /\ Running(b)
  /\ Finish(b, "failure")
  /\ UNCHANGED <<runner, pc, locals, halting, base, overlay, live, history>>

-----------------------------------------------------------------------------
(* The specification *)

\* What a call does of itself, given a cloud that answers.
Progress(c) ==
  \/ Prepare(c) \/ GivesUp(c) \/ (\E found \in BOOLEAN : Decide(c, found))
  \/ UploadOverlay(c) \/ UploadSource(c) \/ UploadTruncated(c) \/ MarkSynced(c)
  \/ Submit(c) \/ (\E accepted \in BOOLEAN : Resubmit(c, accepted) \/ SubmitFails(c, accepted))
  \/ SetActiveBuild(c) \/ PollBuild(c) \/ Return(c)

Halting == CancelActive \/ \E landed \in BOOLEAN : CancelBuild(landed)

Work(b) == Fetch(b) \/ ApplyPatch(b) \/ Verify(b) \/ Deploy(b) \/ SaveBase(b) \/ BuildFails(b)

Next ==
  \/ \E c \in Callers : \/ \E asked \in Call : Begin(c, asked)
                        \/ Progress(c) \/ LoseContact(c) \/ Halt(c)
  \/ Halting
  \/ \E dir \in Roots : SetSourceRoot(dir)
  \/ Restart
  \/ \E b \in DOMAIN builds : Work(b)

Spec == Init /\ [][Next]_vars

-----------------------------------------------------------------------------
(* Properties *)

TypeOK ==
  /\ root \in Roots /\ synced \in BOOLEAN /\ active \in 0..Len(builds)
  /\ pc \in [Callers -> {"idle", "prepare", "decide", "upload", "mark", "submit",
                         "register", "poll", "clear"}]
  /\ call \in [Callers -> Call] /\ eff \in [Callers -> Roots]
  /\ patchOnly \in [Callers -> BOOLEAN] /\ tries \in [Callers -> 0..(Attempts - 1)]
  /\ id \in [Callers -> 0..Len(builds)] /\ ok \in [Callers -> BOOLEAN]
  /\ halted \in [Callers -> BOOLEAN]
  /\ cancelling \in {"no", "ask", "send"} /\ target \in 0..Len(builds)
  /\ base \in Tree /\ overlay \subseteq Patches /\ builds \in Seq(Build) /\ live \in Tree
  /\ approved \subseteq Patches /\ alone \in [Callers -> BOOLEAN]
  /\ from \in [Callers -> Tree] /\ refreshed \in BOOLEAN

\* The registered build is one that some Remediate is still following: a halt
\* never goes after a build whose run is over.
ActiveIsFollowed ==
  active # NoBuild =>
    \E c \in Callers : pc[c] \in {"poll", "clear"} /\ id[c] = active

\* A process that has not uploaded a base in full never ships a bare overlay on
\* top of the one an earlier process left.
FirstUploadIsFull ==
  \A c \in Callers :
    patchOnly[c] /\ pc[c] \in {"upload", "submit", "register", "poll"} => refreshed

Expected(c) ==
  IF patchOnly[c] THEN Over(from[c], call[c].fixes)
  ELSE Packed(c)

\* A call that met no other call or build, and reports success, has put live
\* exactly the tree it was to ship, and the next overlay starts from that tree.
UndisturbedCallShips ==
  \A c \in Callers :
    At(c, "clear") /\ ok[c] /\ call[c].deploy /\ alone[c]
      => live = Expected(c) /\ base = live

-----------------------------------------------------------------------------
(* What comments of cloudbuild.go claim and the code does not keep *)

\* "It never auto-deploys" and "a test-/build-only run must not mutate the
\* durable base": a fix is live only if somebody asked to deploy it.
OnlyApprovedIsLive == live.fixes \subseteq approved

\* "The build itself would otherwise run to completion and deploy": once the
\* goroutine that cancels it is done, a halted run's build does not deploy.
HaltStopsBuild ==
  [][\A b \in DOMAIN builds : Deploy(b) =>
       \A c \in Callers : id[c] = b /\ halted[c] => cancelling # "no"]_vars

=============================================================================
