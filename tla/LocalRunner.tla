----------------------------- MODULE LocalRunner -----------------------------
(***************************************************************************)
(* The local pipeline runner (internal/democtl): one source tree, one      *)
(* binary and one demo process (or container), worked on by calls that     *)
(* nothing serialises.  A call is a Remediate (kind "run"), a Remediate    *)
(* after ResetTree (the deploy revert, "revert"), a ResetSource ("reset")  *)
(* or an ApplyInstrumentation ("instrument").  In a connected clone the    *)
(* Git source works on the same tree: it commits fixes and switches        *)
(* branches.                                                               *)
(*                                                                         *)
(* An action is one file written, one command run or one launch, so calls  *)
(* interleave between any two of them; the commit of one fix is a single   *)
(* action, done whole or up to where it fails.  A tree is an overlay: what *)
(* each file was turned into, or Pristine (for a file git does not know:   *)
(* absent).  Whether code compiles, passes its test or serves is external. *)
(***************************************************************************)
EXTENDS Naturals, FiniteSets

CONSTANTS
  Files,        \* the files of the source tree, and those a patch may create
  Tracked,      \* the files git knows
  MainFile,     \* demo_app/main.go
  Contents,     \* what a patch may turn a file into
  Pristine,     \* as committed
  None,         \* no binary, no process, no tree
  Callers,      \* who may have a call in progress
  Options,      \* the options a Remediate or ApplyInstrumentation is given
  PatchSets,    \* the patches a call is given
  Branches,     \* what the branches of a connected clone hold
  MaxRepair     \* maxRepairAttempts

Overlay   == [Files -> Contents \cup {Pristine}]
NoPatches == [f \in Files |-> Pristine]
Touched(patches) == {f \in Files : patches[f] # Pristine}

Option == [apply : BOOLEAN, test : BOOLEAN, build : BOOLEAN, deploy : BOOLEAN,
           tests : {"auto", "reuse", "generate", "skip"}, \* TestStrategy
           scenario : {"seeded", "other", "batch"},       \* has a committed test; or several
           builds : {"auto", "script", "default"},        \* BuildStrategy
           target : {"local", "docker", "script"}]        \* Deployment.Target

ASSUME LocalRunnerAssumption ==
  /\ MainFile \in Tracked /\ Tracked \subseteq Files
  /\ Pristine \notin Contents /\ None \notin Overlay
  /\ Options \subseteq Option /\ Options # {} /\ PatchSets \subseteq Overlay
  /\ Branches \subseteq Overlay /\ NoPatches \in Branches
  /\ MaxRepair \in Nat

VARIABLES
  nested,      \* the app is demo_app/ inside its repository; else a clone's root
  compiled,    \* lang.ProducesBinary: a Go binary is launched, not the source
  generator,   \* testGen and buildGen are wired
  index,       \* what git has checked out: the branch's files, and those added
  tree,        \* the source on disk
  brokenTest,  \* a generated test that does not compile lies in the tree
  scripts,     \* which of a build script and a Dockerfile lie in the tree
  bin,         \* what the binary at binPath was built from
  live,        \* what the demo process and the container run
  job          \* the call of each caller

wiring == <<nested, compiled, generator, index>>   \* what no call of the runner changes
disk   == <<tree, brokenTest, scripts>>
vars   == <<wiring, disk, bin, live, job>>

Kinds     == {"run", "revert", "reset", "instrument"}
Positions == {"idle", "checkout", "apply", "test", "runTest", "build", "deploy", "verify",
              "restore", "rebuild", "relaunch", "done", "commit"}
Outcomes  == {"none", "ok", "failed", "rolledBack"}

\* The last four fields are what the properties ask of a call's past; stale: the binary
\* may be older than the tree.
Job == [kind : Kinds, at : Positions, opts : Option, patches : Overlay, todo : SUBSET Files,
        attempt : 0..MaxRepair, wrote : BOOLEAN,
        outcome : Outcomes, gated : Overlay \cup {None}, alone : BOOLEAN, stale : BOOLEAN]

At(c, pos) == job[c].at = pos
Busy(c) == ~At(c, "idle")
Opts(c) == job[c].opts

-----------------------------------------------------------------------------
(* Where a call goes *)

\* Slip: the service is restarted before it is built.
Afterwards_DeployFirst(o, stage) ==
  IF stage = "start" /\ o.apply THEN "apply"
  ELSE IF stage \in {"start", "apply"} /\ o.test THEN "test"
  ELSE IF stage \in {"start", "apply", "test"} /\ o.deploy THEN "deploy"
  ELSE IF stage # "build" /\ o.build THEN "build"
  ELSE "done"

\* The next enabled stage: apply, test, build, deploy, in this order.
Afterwards(o, stage) ==
  IF stage = "start" /\ o.apply THEN "apply"
  ELSE IF stage \in {"start", "apply"} /\ o.test THEN "test"
  ELSE IF stage \in {"start", "apply", "test"} /\ o.build THEN "build"
  ELSE IF stage \in {"start", "apply", "test", "build"} /\ o.deploy THEN "deploy"
  ELSE "done"

\* The call's next position; the end of its stages is success.
Onwards(c, j, pos) ==
  job' = [job EXCEPT ![c] = [j EXCEPT !.at = pos,
                                      !.outcome = IF pos = "done" THEN "ok" ELSE @]]

\* Only instrumentation rolls back.
Fails(c) ==
  job' = [job EXCEPT ![c].at = IF @ = "restore" \/ job[c].kind # "instrument"
                                 THEN "done" ELSE "restore",
                     ![c].outcome = "failed"]

-----------------------------------------------------------------------------
(* A call begins; the apply stage *)

\* todo: the files still to be written.
NewJob(c, kind, o, patches, pos) ==
  [kind |-> kind, at |-> pos, opts |-> o, patches |-> patches, todo |-> Touched(patches),
   attempt |-> 0, wrote |-> FALSE, outcome |-> IF pos = "done" THEN "ok" ELSE "none",
   gated |-> None, alone |-> \A d \in Callers \ {c} : ~Busy(d), stale |-> FALSE]

Begin(c, kind, o, patches, pos) ==
  /\ ~Busy(c)
  /\ job' = [d \in Callers |->
               IF d = c THEN NewJob(c, kind, o, patches, pos)
                        ELSE [job[d] EXCEPT !.alone = FALSE]]
  /\ UNCHANGED <<wiring, disk, bin, live>>

Remediate(c, o, patches) == Begin(c, "run", o, patches, Afterwards(o, "start"))

ApplyInstrumentation(c, o, patches) ==
  /\ patches # NoPatches
  /\ Begin(c, "instrument", o, patches, Afterwards(o, "start"))

\* versionRevert: the tree is reset, and Remediate applies the version untested.
RevertOptions(o) == [o EXCEPT !.apply = TRUE, !.test = FALSE, !.build = TRUE, !.deploy = TRUE]

Revert(c, o, target) ==
  /\ \A d \in Callers : Busy(d) => job[d].kind # "revert"
  /\ Begin(c, "revert", RevertOptions(o), target, "checkout")

Reset(c, o) == Begin(c, "reset", o, NoPatches, "checkout")

\* What git knows: every branch has the tracked files, a fix may have added others.
InGit == {f \in Files : f \in Tracked \/ index[f] # Pristine}

\* git checkout -- . restores what git knows to what is checked out.
ResetTree == [f \in Files |-> IF f \in InGit THEN index[f] ELSE tree[f]]

Checkout(c) ==
  /\ At(c, "checkout")
  /\ UNCHANGED <<wiring, brokenTest, scripts, bin, live>>
  /\ \/ /\ job[c].kind = "revert"
        /\ tree' = ResetTree
        /\ Onwards(c, job[c], "apply")
     \/ \* ResetSource names demo_app/main.go, which a clone's root does not have
        /\ job[c].kind = "reset" /\ nested
        /\ tree' = [tree EXCEPT ![MainFile] = index[MainFile]]
        /\ Onwards(c, job[c], "rebuild")
     \/ UNCHANGED tree /\ Fails(c)

\* applyPatchSet and writeFiles write file by file, over whatever is there.
WriteFile(c, f) ==
  /\ At(c, "apply") /\ f \in job[c].todo
  /\ tree' = [tree EXCEPT ![f] = job[c].patches[f]]
  /\ LET rest == job[c].todo \ {f} IN
       Onwards(c, [job[c] EXCEPT !.todo = rest],
               IF rest = {} THEN Afterwards(Opts(c), "apply") ELSE "apply")
  /\ UNCHANGED <<wiring, brokenTest, scripts, bin, live>>

\* A file that cannot be written, or no patch at all.
ApplyFails(c) ==
  /\ At(c, "apply") /\ Fails(c)
  /\ UNCHANGED <<wiring, disk, bin, live>>

-----------------------------------------------------------------------------
(* The test gate *)

\* Which gate resolveTestBatch and resolveTest choose; instrumentation is vetted.
Gate(c) ==
  IF job[c].kind = "instrument" THEN "vet"
  ELSE IF Opts(c).tests = "skip" THEN "none"
  ELSE IF Opts(c).scenario = "batch" THEN "committed"
  ELSE IF Opts(c).tests # "generate" /\ Opts(c).scenario = "seeded" THEN "committed"
  ELSE IF generator THEN "generated"
  ELSE "committed"

\* What a passed gate has seen.
GatePasses(c, seen) ==
  Onwards(c, [job[c] EXCEPT !.gated = seen], Afterwards(Opts(c), "test"))

SkipGate(c) ==
  /\ At(c, "test") /\ Gate(c) = "none"
  /\ GatePasses(c, None)
  /\ UNCHANGED <<wiring, disk, bin, live>>

\* Slip: a failed gate or build is repaired as often as it fails.
Repair_Unbounded(c, fixed) ==
  /\ job[c].kind = "instrument" /\ fixed # NoPatches
  /\ job' = [job EXCEPT ![c].at = "apply", ![c].attempt = @ + 1, ![c].patches = fixed,
                        ![c].todo = Touched(fixed), ![c].gated = None]

\* The repair loop of instrumentation: new files from the agent, as often as allowed.
Repair(c, fixed) ==
  /\ job[c].kind = "instrument" /\ job[c].attempt < MaxRepair
  /\ fixed # NoPatches
  /\ job' = [job EXCEPT ![c].at = "apply", ![c].attempt = @ + 1, ![c].patches = fixed,
                        ![c].todo = Touched(fixed), ![c].gated = None]

\* A failed gate or build: repair, or give up.
StageFails(c) ==
  \/ Fails(c)
  \/ \E fixed \in PatchSets : Repair(c, fixed)

\* The committed tests or vet: every test of the package has to compile.
RunGate(c) ==
  /\ At(c, "test") /\ Gate(c) \in {"committed", "vet"}
  /\ \/ ~brokenTest /\ GatePasses(c, tree)
     \/ StageFails(c)
  /\ UNCHANGED <<wiring, disk, bin, live>>

\* The agent names an existing test, or writes one that may not compile.
GenerateTest(c) ==
  /\ At(c, "test") /\ Gate(c) = "generated"
  /\ UNCHANGED <<wiring, tree, scripts, bin, live>>
  /\ \/ Fails(c) /\ brokenTest' \in {brokenTest, TRUE}
     \/ /\ Onwards(c, [job[c] EXCEPT !.wrote = FALSE], "runTest")
        /\ UNCHANGED brokenTest
     \/ /\ Opts(c).tests # "reuse"
        /\ Onwards(c, [job[c] EXCEPT !.wrote = TRUE], "runTest")
        /\ brokenTest' \in BOOLEAN

\* A generated test that looks as if it does not compile is generated again.
MayRegenerate(c) == job[c].wrote /\ job[c].attempt < MaxRepair

RunGenerated(c) ==
  /\ At(c, "runTest")
  /\ \/ ~brokenTest /\ GatePasses(c, tree)
     \/ Fails(c)
     \/ /\ MayRegenerate(c)
        /\ Onwards(c, [job[c] EXCEPT !.attempt = @ + 1], "test")
  /\ UNCHANGED <<wiring, disk, bin, live>>

-----------------------------------------------------------------------------
(* The build stage *)

\* build: the language's own build; a Python build leaves no binary.  A build that
\* complained of nothing but a file in use (isCleanupOnlyFailure) passes as well,
\* whether or not it could replace the binary.
BuildDefault(c, pos) ==
  /\ \/ /\ bin' = IF compiled THEN tree ELSE bin
        /\ Onwards(c, job[c], pos)
     \/ /\ compiled /\ UNCHANGED bin
        /\ Onwards(c, [job[c] EXCEPT !.stale = TRUE], pos)
  /\ UNCHANGED <<wiring, disk, live>>

UsesScript(c) ==
  /\ job[c].kind # "instrument" /\ Opts(c).builds # "default"
  /\ "build" \in scripts

\* buildGen writes a build script that detectBuildScript recognises, or does not.
GenerateScript(c) ==
  /\ At(c, "build") /\ job[c].kind # "instrument"
  /\ Opts(c).builds = "script" /\ "build" \notin scripts /\ generator
  /\ UNCHANGED <<wiring, tree, brokenTest, bin, live>>
  /\ \/ scripts' = scripts \cup {"build"} /\ UNCHANGED job
     \/ UNCHANGED scripts /\ Fails(c)

\* A script may rebuild the binary or, say, only the frontend; only a missing
\* binary is made up for.
RunBuildScript(c) ==
  /\ At(c, "build") /\ UsesScript(c)
  /\ \/ /\ bin' \in {bin, tree} /\ (compiled => bin' # None)
        /\ Onwards(c, [job[c] EXCEPT !.stale = TRUE], Afterwards(Opts(c), "build"))
     \/ bin' \in {bin, tree} /\ Fails(c)
  /\ UNCHANGED <<wiring, disk, live>>

Build(c) ==
  /\ At(c, "build") /\ ~UsesScript(c)
  /\ \/ BuildDefault(c, Afterwards(Opts(c), "build"))
     \/ StageFails(c) /\ UNCHANGED <<wiring, disk, bin, live>>

-----------------------------------------------------------------------------
(* The deploy stage, and the verdict *)

\* launch kills what runs before it starts the binary (Python: the source).
Launched == IF compiled THEN bin ELSE tree

Launch(c, pos) ==
  /\ \/ /\ Launched # None
        /\ live' = [live EXCEPT !.local = Launched]
        /\ Onwards(c, job[c], pos)
     \/ live' = [live EXCEPT !.local = None] /\ Fails(c)
  /\ UNCHANGED <<wiring, disk, bin>>

Restart(c) ==
  /\ At(c, "deploy") /\ (Opts(c).target = "local" \/ job[c].kind = "instrument")
  /\ Launch(c, "verify")

\* deployDocker: a Dockerfile is generated if there is none; the image is built from
\* the tree; the old container goes before the new one starts.
DeployDocker(c) ==
  /\ At(c, "deploy") /\ Opts(c).target = "docker" /\ job[c].kind # "instrument"
  /\ UNCHANGED <<wiring, tree, brokenTest, bin>>
  /\ \/ /\ "docker" \in scripts \/ generator
        /\ scripts' = scripts \cup {"docker"}
        /\ \/ UNCHANGED live /\ Fails(c)                              \* docker build
           \/ live' = [live EXCEPT !.docker = None] /\ Fails(c)       \* docker run
           \/ live' = [live EXCEPT !.docker = tree] /\ Onwards(c, job[c], "verify")
     \/ "docker" \notin scripts /\ UNCHANGED <<scripts, live>> /\ Fails(c)

\* A deploy script ships elsewhere.
DeployScript(c) ==
  /\ At(c, "deploy") /\ Opts(c).target = "script" /\ job[c].kind # "instrument"
  /\ Onwards(c, job[c], "verify") \/ Fails(c)
  /\ UNCHANGED <<wiring, disk, bin, live>>

\* verifyDeploy: a failed smoke test fails the run and leaves what is live.
Verify(c) ==
  /\ At(c, "verify")
  /\ Onwards(c, job[c], "done") \/ Fails(c)
  /\ UNCHANGED <<wiring, disk, bin, live>>

-----------------------------------------------------------------------------
(* Rolling back, and the end *)

\* Slip: a rollback that forgets the source and only restarts.
Restored_Nothing == tree

\* git checkout -- demo_app
Restored == ResetTree

\* restore names demo_app, which a clone's root does not have.
Restore(c) ==
  /\ At(c, "restore")
  /\ \/ nested /\ tree' = Restored /\ job' = [job EXCEPT ![c].at = "rebuild"]
     \/ UNCHANGED tree /\ Fails(c)
  /\ UNCHANGED <<wiring, brokenTest, scripts, bin, live>>

\* The rebuild of a restore or of a ResetSource.
Rebuild(c) ==
  /\ At(c, "rebuild")
  /\ \/ BuildDefault(c, "relaunch")
     \/ job' = [job EXCEPT ![c].at = "done", ![c].outcome = "failed"]
        /\ UNCHANGED <<wiring, disk, bin, live>>

Relaunch(c) ==
  /\ At(c, "relaunch")
  /\ \/ /\ Launched # None
        /\ live' = [live EXCEPT !.local = Launched]
        /\ job' = [job EXCEPT ![c].at = "done",
                              ![c].outcome = IF @ = "failed" THEN "rolledBack" ELSE "ok"]
     \/ /\ live' = [live EXCEPT !.local = None]
        /\ job' = [job EXCEPT ![c].at = "done", ![c].outcome = "failed"]
  /\ UNCHANGED <<wiring, disk, bin>>

-----------------------------------------------------------------------------
(* The Git source in the same tree *)

\* Connect: whatever is in progress goes on in the clone, for the calls in it read the
\* directories afresh at every step.  The clone is fresh, or one found on disk.
SetSourceRoot(binary, found, clone) ==
  /\ nested' = FALSE /\ compiled' = binary /\ UNCHANGED generator
  /\ tree' = clone /\ index' = clone /\ brokenTest' = FALSE /\ scripts' = found
  /\ bin' = None
  /\ job' = [c \in Callers |-> [job[c] EXCEPT !.alone = FALSE]]
  /\ UNCHANGED live

\* Another branch without force (CreateFixBranch, ConfirmFix and its merge,
\* CleanupConfirmed, reconnecting): git keeps what is modified, and refuses to switch
\* where the branches differ in it.
SwitchBranch(branch) ==
  /\ ~nested
  /\ \A f \in Files : index[f] # branch[f] => tree[f] = index[f]
  /\ tree' = [f \in Files |-> IF index[f] = branch[f] THEN tree[f] ELSE branch[f]]
  /\ index' = branch
  /\ job' = [c \in Callers |-> [job[c] EXCEPT !.alone = FALSE]]
  /\ UNCHANGED <<nested, compiled, generator, brokenTest, scripts, bin, live>>

\* checkout -f: what git knows, before or after, is as on the branch.
Forced(branch) ==
  [f \in Files |-> IF f \in InGit \/ branch[f] # Pristine THEN branch[f] ELSE tree[f]]

Overlaid(under, fix, fs) == [f \in Files |-> IF f \in fs THEN fix[f] ELSE under[f]]

\* CommitPatch: the working branch is checked out by force, the fix branch started anew
\* there, one problem's files written and added; it may fail after any of these.
CommitPatch(c, working, fix) ==
  /\ At(c, "commit")
  /\ fix # NoPatches /\ Touched(fix) \subseteq Touched(job[c].patches)
  /\ \E written \in SUBSET Touched(fix) :
       /\ tree' = Overlaid(Forced(working), fix, written)
       /\ \/ index' = working
          \/ written = Touched(fix) /\ index' = Overlaid(working, fix, written)
  /\ UNCHANGED <<nested, compiled, generator, brokenTest, scripts, bin, live, job>>

\* pipelineRun and the engine commit the fixes of a run that succeeded, if a Git source
\* is connected and keeps a branch per fix.
CommitFixes(c) ==
  /\ ~nested /\ job[c].kind = "run" /\ job[c].outcome = "ok" /\ job[c].patches # NoPatches
  /\ job' = [job EXCEPT ![c].at = "commit"]
  /\ UNCHANGED <<wiring, disk, bin, live>>

Idle == [kind |-> "run", at |-> "idle", opts |-> CHOOSE o \in Options : TRUE,
         patches |-> NoPatches, todo |-> {}, attempt |-> 0, wrote |-> FALSE,
         outcome |-> "none", gated |-> None, alone |-> FALSE, stale |-> FALSE]

Return(c) ==
  /\ job' = [job EXCEPT ![c] = Idle]
  /\ UNCHANGED <<wiring, disk, bin, live>>

-----------------------------------------------------------------------------
\* New, and the Start that builds and launches what is committed.
Init ==
  /\ nested \in BOOLEAN /\ compiled \in BOOLEAN /\ generator \in BOOLEAN
  /\ tree = NoPatches /\ index = NoPatches /\ brokenTest = FALSE
  /\ scripts \in SUBSET {"build", "docker"}
  /\ \/ bin = IF compiled THEN tree ELSE None
     \/ bin = None
  /\ live = [local |-> IF bin = None /\ compiled THEN None ELSE tree, docker |-> None]
  /\ job = [c \in Callers |-> Idle]

\* What a call in progress does next.
Proceed(c) ==
  \/ Checkout(c)
  \/ \E f \in Files : WriteFile(c, f)
  \/ ApplyFails(c)
  \/ SkipGate(c)
  \/ RunGate(c)
  \/ GenerateTest(c)
  \/ RunGenerated(c)
  \/ GenerateScript(c)
  \/ RunBuildScript(c)
  \/ Build(c)
  \/ Restart(c)
  \/ DeployDocker(c)
  \/ DeployScript(c)
  \/ Verify(c)
  \/ Restore(c)
  \/ Rebuild(c)
  \/ Relaunch(c)
=============================================================================
