------------------------------- MODULE Releases -------------------------------
(***************************************************************************)
(* The handlers of cmd/server that deploy through the local runner, and    *)
(* what they tell the store of deploy versions about it: LocalRunner       *)
(* composed with DeployLog, the promise of Versions.  The callers are the  *)
(* autopilot's batch and the handlers remediate, pipelineRun,              *)
(* versionRevert, instrumentApply, testReset and demoReset.                *)
(***************************************************************************)
EXTENDS LocalRunner

CONSTANT Autopilot   \* the caller whose calls the engine tracks

ASSUME ReleasesAssumption == Autopilot \in Callers

VARIABLES
  log, carried,  \* DeployLog
  tidy           \* history: the log tells all that changed the tree so far

Log == INSTANCE DeployLog

releaseVars == <<vars, log, carried, tidy>>

\* remediate and pipelineRun record what a deploying run was given, if it succeeded.
Records(c) ==
  /\ job[c].kind = "run" /\ job[c].outcome = "ok"
  /\ Opts(c).deploy /\ job[c].patches # NoPatches

RecordsRevert(c) == job[c].kind = "revert" /\ job[c].outcome = "ok"

\* A call that nobody interfered with and that built what it shipped.
Undisturbed(c) ==
  /\ job[c].alone /\ Opts(c).apply /\ Opts(c).build
  /\ \/ Opts(c).target = "local" /\ ~job[c].stale
     \/ Opts(c).target = "docker"

\* A revert, unlike a run, puts an untidy tree in order, unless it holds new files or
\* those of the fix branch that is checked out.
Tidies(c) ==
  /\ RecordsRevert(c) /\ Undisturbed(c)
  /\ \A f \in Files : f \notin Tracked \/ index[f] # Pristine => tree[f] = job[c].patches[f]

\* Slip: the batch is recorded whatever became of the run.
Finish_RecordsFailures(c) ==
  /\ At(c, "done") /\ (Return(c) \/ CommitFixes(c))
  /\ IF job[c].kind = "run" /\ job[c].patches # NoPatches THEN Log!Deploy(job[c].patches)
     ELSE IF RecordsRevert(c) THEN Log!Revert(job[c].patches)
     ELSE UNCHANGED <<log, carried>>
  /\ tidy' = (Tidies(c) \/ (tidy /\ job[c].kind = "run" /\ Undisturbed(c)))

\* The call returns; its handler records it, and may then commit its fixes.
Finish(c) ==
  /\ At(c, "done") /\ (Return(c) \/ CommitFixes(c))
  /\ IF Records(c) THEN Log!Deploy(job[c].patches)
     ELSE IF RecordsRevert(c) THEN Log!Revert(job[c].patches)
     ELSE UNCHANGED <<log, carried>>
  /\ tidy' = (Tidies(c) \/ (tidy /\ Records(c) /\ Undisturbed(c)))

\* versionRevert looks once at whether the engine has a batch in progress.
BeginRevert(c, o) ==
  /\ ~Busy(Autopilot) /\ c # Autopilot
  /\ \E target \in log : Revert(c, o, target)

Unrecorded == UNCHANGED <<log, carried, tidy>>

\* What the Git source does to the tree goes past the version store.
Commit(c) ==
  \E working \in Branches, fix \in Overlay :
    /\ CommitPatch(c, working, fix)
    /\ tidy' = (tidy /\ tree' = tree)
    /\ UNCHANGED <<log, carried>>

EndCommits(c) == At(c, "commit") /\ Return(c) /\ Unrecorded

Switch(branch) ==
  /\ SwitchBranch(branch)
  /\ tidy' = (tidy /\ tree' = tree)
  /\ UNCHANGED <<log, carried>>

\* demoReset, gitSourceConfigSet and gitSourceConnect leave the version store as it is.
Retarget(binary, found, clone) ==
  /\ SetSourceRoot(binary, found, clone)
  /\ tidy' = FALSE
  /\ UNCHANGED <<log, carried>>

Calls(c, o) ==
  \/ (\E patches \in PatchSets : Remediate(c, o, patches)) /\ Unrecorded
  \/ (\E patches \in PatchSets : ApplyInstrumentation(c, o, patches)) /\ Unrecorded
  \/ Reset(c, o) /\ Unrecorded
  \/ BeginRevert(c, o) /\ Unrecorded

ReleaseInit == Init /\ Log!Init /\ tidy = TRUE

ReleaseNext ==
  \/ \E c \in Callers : Proceed(c) /\ Unrecorded
  \/ \E c \in Callers : Finish(c) \/ Commit(c) \/ EndCommits(c)
  \/ \E c \in Callers, o \in Options : Calls(c, o)
  \/ \E branch \in Branches : Switch(branch)
  \/ \E binary \in BOOLEAN, found \in SUBSET {"build", "docker"}, clone \in Branches :
       Retarget(binary, found, clone)

ReleaseSpec == ReleaseInit /\ [][ReleaseNext]_releaseVars

-----------------------------------------------------------------------------
(* Properties *)

TypeOK ==
  /\ nested \in BOOLEAN /\ compiled \in BOOLEAN /\ generator \in BOOLEAN
  /\ index \in Overlay
  /\ tree \in Overlay /\ brokenTest \in BOOLEAN /\ scripts \subseteq {"build", "docker"}
  /\ bin \in Overlay \cup {None}
  /\ live \in [local : Overlay \cup {None}, docker : Overlay \cup {None}]
  /\ job \in [Callers -> Job]
  /\ log \subseteq Overlay /\ carried \in Overlay /\ tidy \in BOOLEAN

Shipped(c) == IF Opts(c).target = "docker" THEN live.docker ELSE live.local

\* A run that nobody interfered with, was gated and built what it shipped, ends well
\* only with the very tree its gate passed live, patches included: no stage runs on
\* anything but what the one before it left.
ShippedWasGated ==
  \A c \in Callers :
    /\ At(c, "done") /\ job[c].kind = "run" /\ job[c].outcome = "ok"
    /\ Undisturbed(c) /\ Opts(c).deploy /\ job[c].gated # None
    => /\ Shipped(c) = job[c].gated
       /\ \A f \in Touched(job[c].patches) : Shipped(c)[f] = job[c].patches[f]

\* A rollback reported as done leaves every tracked file as committed and, if the rebuild
\* replaced the binary, the restored source running, however far the instrumentation and
\* its repairs had come.
RollbackRestores ==
  \A c \in Callers :
    At(c, "done") /\ job[c].outcome = "rolledBack" /\ job[c].alone
    => /\ \A f \in Tracked : tree[f] = Pristine
       /\ ~job[c].stale => live.local = tree

\* As long as all that changed the tree was recorded, or a revert has put it in order
\* since, the tree is the overlay the next deploy is recorded on top of.  A commit of
\* fixes that changes the tree, as that of two problems in one clone does, ends this.
TidyTreeIsCarried ==
  tidy /\ (\A c \in Callers : Busy(c) => At(c, "commit")) => tree = carried

\* Then also a recorded deploy or revert has live exactly what its version says.
TidyVersionIsLive ==
  [][\A c \in Callers : Finish(c) /\ tidy' => Shipped(c) = carried']_releaseVars

\* What a revert that nobody interfered with does restore: every file its version
\* patched is as that version has it, every other file git knows as it is checked out.
RevertRestoresTracked ==
  \A c \in Callers :
    At(c, "done") /\ RecordsRevert(c) /\ Undisturbed(c)
    => /\ \A f \in Touched(job[c].patches) : tree[f] = job[c].patches[f]
       /\ \A f \in InGit \ Touched(job[c].patches) : tree[f] = index[f]

\* "Restoring a version is deterministic: pristine source + the version's file set": a
\* revert that nobody interfered with leaves exactly that in the tree.
RevertIsExact ==
  \A c \in Callers :
    At(c, "done") /\ RecordsRevert(c) /\ Undisturbed(c) => tree = job[c].patches
=============================================================================
