# A verification of PatchPilot's backend

TLA+ models of the Go backend of PatchPilot (`src/backend`), the configurations that check them
with TLC, and proofs about them that TLAPS checks. PatchPilot watches an application through
Dynatrace, lets an LLM agent propose a patch for each problem, ships patches through a local or a
Cloud Build pipeline, and keeps the versions it deployed. Much of it is concurrent, much of it
outlives a crash only in part, and nearly all of the hard behaviour is between two lock sections;
that is what is modelled.

    tlc -workers 2 -config MCAutopilot.cfg MCAutopilot      # any run of PROJECT.json
    tlapm AutopilotProofs.tla                               # any *Proofs module

`PROJECT.json` lists the components, the runs, for each property a mutation of the code that breaks
it, the source lines behind each definition, the hazards of the code, the findings and the theorems.
A few `.cfg` files besides its runs hold counterexamples that section 6 refers to.

## 1. The system

| Component | State it keeps | Operations | Modelled in |
|---|---|---|---|
| Auto-patch engine `internal/autopilot` | config, runs, baseline, skip list, queue, the batch in flight and its context | poll, worker (dequeue, coalesce, pipeline, isolate), `SetConfig`, `Cancel`, `StopAll` | `Autopilot`, `AutoPatch` |
| Deploy versions `internal/versions` | list, counter, cumulative overlay; one file per version | `RecordDeploy`, `RecordRevert`, `Get`, prune, load | `Versions`, `DeployLog` |
| Cloud Build runner `internal/pipeline` | source root, `synced`, active build; in the cloud: two objects, builds, the service | `Remediate`, `CancelActive`, `SetSourceRoot` | `CloudRunner` |
| Local runner `internal/democtl`, language profiles `internal/lang` | the local tree, the binary, the demo process and container | `Remediate`, `ApplyInstrumentation`, `ResetTree`, `ResetSource`, `SetSourceRoot` | `LocalRunner` |
| Managed Git source `internal/gitsource` | clone, working branch, fix branches and their `confirmed` flag, config file | `Connect`, `CreateFixBranch`, `CommitPatch`, `ConfirmFix`, `CleanupConfirmed`, `ResetWorkspace` | `GitSource` |
| Patch store `internal/tools` | the latest proposal, the proposal of each problem (persisted), the staged batch | `Propose`, `SetProposed`, `Stage`, `Unstage`, `StagedForApply`, `Reset`, load | `Fixes` |
| Artifact store `internal/artifact` | per problem an audit record, persisted | `Record*`, `AppendStep`, `Reset`, load | `Fixes` |
| Dynatrace client `internal/dynatrace` | the last list, its age, the last slow operations | `ListProblems` | `Digest` |
| Slack notifier `internal/slack` | enabled, webhook, fingerprint of the last digest | `tick`, `Sync`, `post`, `SetConfig` | `Digest` |
| HTTP server `cmd/server` | the wiring; a mutex per slow operation; SSE streams | the handlers: investigate, stage, run, revert, reset, re-target | `Releases` (those that deploy), `Fixes` (those that work on proposals), `Versions` |
| Agent `internal/agent` | none of its own; an external model answers | `Investigate`, generators and repairs | its outcomes, in `Autopilot`, `LocalRunner`, `Fixes` |
| History, settings, frontend, demo application | a list; a validated record; the browser's; the monitored program's | | not modelled |

How they meet: handlers and the engine's goroutines call the runner, the patch store, the version
store and the Git source directly. Nothing serialises a runner: the engine's batch, the manual
pipeline, a revert and the demo reset may each call `Remediate` while another is in it (the handlers
that start one look once at whether a batch is active). The engine learns of problems by polling and
cancels a batch with a Go context *and*, from a new goroutine, by cancelling the active remote
build. `StopAll` and `SetSourceRoot` re-point everything when a Git source is connected.

Hard behaviours: state read under a lock and acted on after it (nearly every engine step); a
cancellation that races the step it should stop; one shared field or object used by calls that
overlap (`activeBuildID`, `patch-source.tar.gz`, the local tree, `PatchStore.latest`); durable state (the base object, version files)
that outlives the memory that explained it; best-effort writes whose failures are ignored; retries
of requests that were carried out. `PROJECT.json` has them one by one, at their lines.

What makes each part correct, in a sentence: the engine loses no run, stops what it was told to
stop and gives a problem up when a human takes it over; the version store's overlay is what the
newest version says, whatever was pruned or lost; the runner ships what it was asked to, and the
base that the next overlay builds on is what is live; the Git source keeps a fix's branch until it
is merged; the local runner ships what its gate passed and what its version says, and a rollback restores;
a problem gets its own proposal, and is shown as running only while something runs; the stores' files
reload to what memory held; the team's channel hears of every change of the bugs, and of nothing else.

## 2. Modules

### Autopilot

An action is one critical section of `Engine.mu`, or one stretch between two, so that any
interleaving of lock sections is a behaviour. Three kinds of process: the pollers (the 30-second
ticker, and the poll that enabling autopatch kicks), the one worker, and the API.

| Code | Model |
|---|---|
| `runs[id].Phase` | `phase[p]`, `none` for no entry |
| `baseline` | `seen`, its domain; a poll picks for itself which counts climbed past it |
| `skip`, `activeIDs`, `stopping`, `queue` | the same names |
| `cancel`, `runCtx` | `ctx`: `nil`, `live` or `done` |
| the ids `tick` picked and has not sent | `toEnqueue[t]` |
| the worker's place in `runBatch`, `applyOne`, `investigateAndApply`, `isolate`, `markHalted` | `pc` |
| `batch`, the loops over it, the attempt, the result | `batch`, `todo`, `rest`, `attempt`, `verdict`, `stage` |

`tick` is `Poll` (its critical section) and `Send` (the non-blocking sends); `runBatch` goes from
`Dequeue` to `CleanUp`; `markHalted` is two actions because it takes the lock twice; `SetConfig`,
`Cancel` and `StopAll` are one action each. `shipped`, `swept` and `dropped` are history: no action
reads them. Outcomes of the agent, of applying a patch and of the pipeline are nondeterministic.
Left out: counts as numbers, messages, artifacts and `commitFix` (they hold no engine state),
`dedupeByFile`.

`AutoPatch` is what the engine promises, without queue, polls, investigations and retries: one batch at a time,
which fixes join and pipelines are started for only while it is live, and which is cancelled by whoever withdraws a
fix it carries. `Autopilot!Engine` instantiates it: `manual` is `skip`, `carried` the problems in `batch`, `running`
the subject of the pipeline in progress (`Running`); `enabled`, `ctx` and `shipped` are themselves. `skip` only
grows, `StopAll` aside, which clears it and cancels.

### Versions

A record call is one critical section of `Store.mu`. Inside it the write of the new file and the
removals of pruned ones may fail unnoticed (`written`, `unlinked`), and the process may die between
the write and the prune (`CrashInAppend`). `Restart` loads what is on disk, or nothing if the store
is cleared at start. The handler `versionRevert` is in the module as far as it holds a record across
its deploy: `Get`, then `RecordRevert` or `RevertFails`; the deploys that other runs record in
between are `RecordDeploy`. An overlay is a function from files to contents, `Pristine` where
nothing was patched.

### CloudRunner

Any number of callers are in `Remediate` at once, each with its locals. The cloud is in the module:
the two objects of the bucket (`base`, `overlay`), the builds in order of submission, each with the
workspace its steps work on, and the tree that is `live`. The steps of a build are the ones
`buildSpec` asks for: fetch the base, apply the overlay, test and build, deploy, save the base.
A request may be lost, or carried out and its answer lost (`Resubmit`, `SubmitFails`); contact with
a build may be lost while it goes on; an upload may be cut short by an unreadable file and is
published all the same. `Halt` is the engine's side of a halt (`cancelRunnerBuild`), `CancelActive`
the read of the active build, `CancelBuild` the request. Left out: deploy params that retarget the
bucket or the service (one of each), the generated test and Dockerfile as files of their own, logs.
Two fixes are patches of different files, so laying one over another is a union.

### GitSource

The manager holds `Manager.mu` through each operation, so an operation is one action, and what git may
answer (refused, failed, cut off) makes several: `ConfirmFix` is `MergeAborted`, `ConfirmUnpushed` (merged,
push failed), `ConfirmFix`, or `ConfirmDies` (the process dies before the record); `Connect` is `Clone`,
`Fetch`, `FetchBlocked` or `ConnectFails`. `demoReset` is two actions, `DemoReset` (the stores) and
`ResetWorkspace`, since the handler takes no lock across them; its `Connect` is a third.

| Code | Model |
|---|---|
| `Store.c`, as far as operations branch on it | `push`, `auto` |
| `connected`, `branches` | `connected`, `listed` |
| artifacts' `FixBranch`, `Confirmed` (on disk) | `branched`, `confirmed` |
| the proposal of each problem | `patch` |
| the clone: branches, `origin/*` of fix branches, upstreams, HEAD, the file | `local`, `tracking`, `upstream`, `head`, `tree` |
| the remote repository | `remote` |
| every commit ever made, with its ancestors | `commits` |
| (history) the tips a confirm was asked for | `approved` |

git is outside the repository and modelled by the rules the manager's calls meet: checkout carries or refuses
local changes, `merge` works on the merge base, a push goes forward only, `branch -d` compares with the
upstream if there is one. The repository is cut to one file, and its content to the set of fixes in it: every
problem of the demo application is seeded in `main.go`, and two patches of one file are what the manager finds
hard. Whether two changes of it clash is git's choice (`MayClash` says when they can). Left out: several files,
the index, a change of repository, working branch or prefix, slugs that collide, `branchPerFix` off (nothing
happens then), and the gap between `requireReady` and the lock. Somebody else's pushes go to the working branch
and leave the file alone. A restart may clear the output directory, as it does by default: records and proposals are
gone then, and the clone with them unless it is kept elsewhere.

### LocalRunner, DeployLog, Releases

`LocalRunner` has one tree, one binary, one demo process and one container, and any number of calls in
progress over them, for nothing serialises them: an action is one file written, one command run or one launch.

| Code | Model |
|---|---|
| the source directory | `tree`, what each file was turned into (`Pristine`: as committed, or absent) |
| generated tests, build script, Dockerfile | `brokenTest` (one that does not compile lies in the package), `scripts` |
| `binPath`, `proc`, the container | `bin` and `live`: the tree each was built from |
| `demoDir`/`repoRoot`, `lang`, `testGen`/`buildGen` | `nested`, `compiled`, `generator` |
| what git has checked out: HEAD's files, and those it added | `index` |
| a call's locals: options, patches, the files still to write, the attempt | `job[c]` |

`Afterwards` is the chain of `if opts.X` in `Remediate`; `Repair` the loop of `ApplyInstrumentation`, `Restore`,
`Rebuild` and `Relaunch` its rollback. Whether code compiles, passes or serves is nondeterministic, but a
broken test fails every gate, and what is launched is the binary (Go) or the tree (Python). A build that complained
of nothing but a file in use passes, with the binary replaced or not (`stale`). `ResetTree` is `git checkout`: it
restores what is checked out and leaves files git does not know. In a connected clone the Git source works on the
same tree: `CommitFixes` and `CommitPatch` are the commits that follow a run that ended well, one problem at a time,
each with a forced checkout of the working branch; `SwitchBranch` is every checkout without force, which carries local
changes or is refused; `SetSourceRoot` connects a clone, fresh or found, on any branch. Which fix a branch holds is
`GitSource`'s matter: here a branch is one of `Branches`. The `cloud-run` target of the local runner fails at once
and is left out.

`DeployLog` is what the version store promises: a deploy puts its patches over what is carried, a revert carries
an overlay that was recorded. `Versions` implements it (`ImplementsLog`: the log is every overlay ever recorded,
what is carried is the cumulative overlay). `Releases` composes `LocalRunner` with an instance of it: `Finish` is a
call's return, or its going on to commit, together with what its handler records; `BeginRevert` the handler's one look
at the engine's batch, `Commit`, `Switch` and `Retarget` what the Git source does to the tree past the record. `tidy` is
history: every change of the tree so far is on the log, or an exact revert has put the tree in order since.

### Fixes

The patch store and the artifact store under one roof, since the same handlers work on both. Each call of a store
takes its lock once and is an action; handlers (`job[c]`) interleave between them. A proposal is a file and, for
the properties, the problem whose investigation made it. `Proposes` is the agent's tool; `AgentEnds` what
`Investigate` returns: the store's latest proposal. The engine's investigations are in it, as the same call that
goes on to run what it found (a batch of one; larger ones are `Autopilot`'s). `pipelineRun` reads the batch twice
(`PipelineRun`, `ReadPatches`). `Restart` reads back what is on disk, which is nothing after a start that clears
(`CLEAR_ISSUES_ON_START`, on by default, removes the directory of both stores). Left out: stage statuses and step logs, which
follow the overall status, approved-patch files, which nothing reads back, and disk writes that fail.

### Digest

`ListProblems` with its cache and its two queries; other consumers, which refresh the same cache; the poller (`List`,
`Sync`, `Post`, three actions, since `Sync` lets go of the lock); `SetConfig` at any point; and the world. A query may
fail (`failed`, `perfFailed`), or be answered short of what there is (`short`): its rows are limited, and an error that
the tool reports inside its answer is taken for no rows. A list is how often each problem occurred, and both queries of
a fresh list see the world at one moment. A digest names the first `MaxNamed` of its problems (ten, in the code) and
counts the others. A post may be delivered and reported as failed. The rest is history: `told` and `named` are the
last digest delivered, `cleared` and `omitted` which of the bugs it named were gone since, or lacking in an answer,
`clearedNow` and `omittedNow` the same for the list of the tick in progress, `rearmed` and `unsure` what excuses a
repetition.

## 3. Runs

| Run | Shows | Distinct states |
|---|---|---|
| `autopilot` | the engine's safety, and that it implements `AutoPatch`; every action taken | 1.5 million |
| `autopilot_live` | off comes to rest, runs settle, a handover completes | 250 thousand |
| `versions` | overlay, numbers, reverts, prunes, restarts | 29 thousand |
| `cloud` | what a call may rely on, between calls, halts, re-points and restarts | 3.2 million |
| `gitsource` | the merge gate, its records, and the branches that must survive | 185 thousand |
| `releases` | gate, ship, roll back, and the version record against the tree and what is live | 7.3 million |
| `fixes` | whose proposal a problem gets, what a restart brings back, what `running` means | 1.0 million |
| `digest` | what the channel is told, and that it is told | 760 thousand |
| `autopilot_stopall`, `git_delete`, `releases_revert`, `fixes_proposal` | findings of section 6 | |

**Bounds.** `MCAutopilot` caps only the API calls of a behaviour (`MaxCalls`); pollers, worker and
feed run for ever. Two problems with `MaxBatch = 2` give a batch that fills, one that flushes, a
pair to isolate and a third place, the queue, for a re-picked problem; `QueueCap = 2` lets a full
queue drop a send, and `ApplyRetries = 1` lets a patch fail twice. The liveness run takes
`QueueCap = 4`, which two problems cannot fill in one call, so that what it shows does not hide behind drops; its
cap of one call is no loss, since each property speaks of what follows the last call.
`DeployChoices = {TRUE}` keeps the deploy stage on: with it off the code shows `deployed` for a run
that shipped nothing, and `DeployedWasShipped` says nothing of that. One kicked poll is outstanding
at a time. `MCVersions` caps records (`MaxRecords = 4`, twice the retention, so that a
pruned version can still be reverted to by a revert that holds it) and restarts (`MaxRestarts = 2`). `MCCloudRunner` caps
submitted builds, calls of `Remediate` and disturbing events (a halt, a re-point, a restart):
`MaxBuilds = 2`, `MaxCalls = 2`, `MaxEvents = 1` with an engine and a handler as callers, enough for a
second call to meet the first anywhere, for a retry to submit twice, and for the base of one call to
be the next one's. These two stop when their budgets are spent, hence `CHECK_DEADLOCK FALSE`;
`MCAutopilot` and `MCGitSource` check deadlock. `MCGitSource` caps commits (`MaxCommits = 4`: a base, two fixes
and a merge, or one fix, its merge, and another fix of the same problem), proposals, tree writes and created
branches (`MaxWork = 3`) and, together, re-configurations, failures, restarts, resets and pushes of others
(`MaxEvents = 1`). It starts with deletion on, push on or off, and an origin that lacks the working branch; the
two problems with their fixes may be swapped (`Swapped`), which no property tells apart. The finding runs do
not need the bounds exhausted and set `CHECK_DEADLOCK FALSE`.

`MCReleases` caps calls (`MaxCalls = 3`): enough for two to meet anywhere and a third to find what they left. The Git
source takes two steps (`MaxGit = 2`: two commits, or a switch and a commit, or a clone connected), which cost one call
together and meet one call of the runner at most; a build finds its file in use in the first call only. The pipeline
settings are fixed in a behaviour, with one of four layouts each, so that every gate, build and target occurs; one
tracked and one new file, a patch of the one and a patch of both, a pristine branch and one with a fix, one repair.
`MCFixes` has two problems, two proposals, three requests and one disturbing event. `MCDigest` has an
error and a performance problem, counts on both sides of a bucket, a digest that names one problem (`MaxNamed = 1`, so
that one of two goes unnamed), a snapshot that is young for one tick and too old after two, and three events
(`MaxEvents = 3`: the world changes, a query fails or falls short, a post fails, the channel is re-configured).
`MCReleases` and `MCFixes` stop when their budgets are spent; `MCDigest` never stops.

**Fairness** (`Autopilot!Fairness`). Weak for the worker: a goroutine that loops for ever, on the
assumption that its calls of the agent and the runner return. The batch's context has no deadline of
its own; a cloud build has one (20 minutes), and a poll of it ends when the build does. Weak for the
sends of a poll and for the kicked poll: plain code that never blocks. Strong for `CoalesceEnd` when
the context is done: `select` chooses among ready cases at random, so a `ctx.Done()` that is ready
again and again is taken. None for the ticker's polls (the feed owes nothing) or for the API.
`Fixes!Fairness` is weak for every request in progress: the server runs each in a goroutine, and what the agent, a
build or git is asked ends at its timeout. `Digest!Fairness` is weak for the poller's steps and for time, and for
a query and a post that come through: `DigestFollows` promises nothing while Grail or Slack is down.

`RunsEnd` exempts problems whose run a restart cut short: nothing looks for them at start-up, and they stay
`running` until the next run of them.

Every passing property comes with a mutation of one mapped definition (an operator named after it,
commented `Slip`) under which TLC finds the property violated.

## 4. Properties

* **Autopilot.** `NoOrphanRun`: a run shown in flight is in the queue, with a poller or with the
  worker, or a full queue dropped it. `LiveBatchIsWanted`: while a batch's context is live,
  autopatch is on and no fix in it belongs to a problem under manual control. `ManualMeansReleased`
  and `HandoverCompletes`: once let go, a problem taken over is never in flight again, and it is let
  go. `StoppingIsScoped`: `StopAll`'s flag never reaches the next batch. `DeployedWasShipped`: what
  is shown deployed has a version. `OffComesToRest`, `RunsSettle`. `ImplementsAutoPatch`, the refinement of `AutoPatch`.
* **Versions.** `CumulativeIsNewest`, `NumbersGrow`, `RevertCarriesTarget`, `OnlyOldestPruned`,
  `RestartResumes`, and `ImplementsLog`, the refinement of `DeployLog`.
* **CloudRunner.** `ActiveIsFollowed`: a halt never goes after a build whose run is over.
  `FirstUploadIsFull`: no process ships a bare overlay over a base it did not upload.
  `UndisturbedCallShips`: a deploy that met no other and reports success has put live exactly its
  tree, and the next overlay starts from that tree.
* **GitSource.** `OnlyConfirmedMerges`: no commit made for a problem reaches the working branch, here or on
  origin, unless that very commit was confirmed. `OpenIsListed`: a recorded open branch is on the list after
  every restart, reset and re-clone. `RecordedIsMerged`: a fix is recorded as confirmed only when it is in the
  working branch and, with push on, on origin. `UnmergedIsKept`: the branch of a problem never confirmed is
  not deleted before it is merged.
* **Releases.** `ShippedWasGated`: a gated run that ends well has live the very tree its gate passed.
  `RollbackRestores`: a rollback reported as done leaves the tracked files as committed and, unless its build
  could not replace the binary, runs them.
  `TidyTreeIsCarried` and `TidyVersionIsLive`: as long as every change of the tree was recorded, or an exact revert
  has put it in order since, the tree is the overlay the next version builds on, and what is live is what the
  newest version says. A failed run, a call that another overlaps, a re-target, and a commit of fixes that changes
  the tree (that of two problems does, finding 11) end this until such a revert.
* **Fixes.** `OwnProposal`: an investigation that no other overlaps takes its own last proposal to its problem.
  `RunningHasARun` and `RunsEnd`: `running` is shown of what runs, and not for ever. `RestartKeepsProposals`: a
  restart that does not clear neither loses a proposal nor brings back one that a reset discarded (by default a
  restart does clear, finding 12).
* **Digest.** `NoSpam`: the channel is not told the same twice without a reason. `NoFalseAllClear`: a digest that
  says what it names is all, and drops a bug, is right about it or misled by an answer that lacked the bug, whatever
  queries failed openly and whoever refreshed the snapshot. `DigestFollows`: in the end the channel has been told what is.

## 5. Proofs

The theorems hold for every value of the constants, under the assumption each module names
(`AutopilotAssumption`, `VersionsAssumption`, `CloudRunnerAssumption`, `GitSourceAssumption`, `FixesAssumption`,
`DigestAssumption`, `FingerprintAssumption`, `LocalRunnerAssumption`, `ReleasesAssumption`: positive capacities, a
sentinel outside its set, a first root among the roots, a problem for each fix, options and patches of the kind
the runner takes). TLC evaluates the assumptions in each run.

* `AutopilotProofs`. `Shape` is the strengthening: at each place of the worker, which locals are
  empty and whether a batch and a context exist. `Inv == TypeOK /\ Shape` is inductive (`InitInv`,
  `StepInv`), and from it `TypeCorrect`. `LiveInv` adds that a problem under investigation in a live batch is
  active and not under manual control (so that whoever changes that cancels the context), which gives
  `LiveBatchWanted` and `StoppingScoped`. `HeldInv` (`NoOrphanRun` with `ManualMeansReleased`: each
  needs the other, as a taken-over problem must not be re-queued) rests on what a worker step may do to a
  problem it does not hold (`WorkerLetsGo`). `DeployedShipped` assumes that the deploy stage cannot be turned off
  (with it off a run is shown deployed though nothing ships) and follows the verdict from the runner's return to
  the problems it is written to (`ShipInv`). `AutopilotImplementsAutoPatch` is the refinement: each step maps to a
  step of `AutoPatch` or a stutter. It needs `LiveInv`, for a fix that joins must be wanted at that moment though the
  checks were made long before, and `IsoInv`: while fixes are retried one by one, what is retried is in the batch.
* `VersionsProofs`. `Inv` adds to the properties that the counter is the newest version's number and that
  every listed, stored or held version is one that was recorded, without which a reload could not
  be compared with the list. `VersionsImplementLog` is the refinement: the properties above are what makes each
  step of the store a step of `DeployLog`.
* `CloudRunnerProofs`. `TypeCorrect` and `ActiveFollowed` are inductive as they stand. `Refreshed`
  strengthens `FirstUploadIsFull` with the flag and the place that lead to an overlay. For
  `UndisturbedShips`, `Undisturbed(c)` follows the fixes of a call that is alone from the bucket
  (`Uploaded`) through the workspace of its build to the service and the saved base (`OnCourse`),
  using that nobody else calls and no other build runs. `HaltStops` is conditional (below): `Chased` says that the
  build of a halted call has ended or somebody is after it.
* `GitSourceProofs`. `TypeCorrect` is inductive. `GateHolds` needs `Gate`: the log is closed (the ancestors of
  an ancestor are ancestors), the tips of the working branch, here and on origin, are `Good` (only confirmed
  commits of problems below them), and the tip of a fix branch, in any of its three copies, is `Nearly` good:
  all below it is, itself aside. So a confirm, which approves exactly the tip, makes the merge good.
  `OpenListed`, `RecordedMerged` and `UnmergedKept` need `Lineage` beside it: every history is closed (with a commit
  come its ancestors, itself included), the tips of the working branch were made on no fix branch (so a branch
  just started holds no fix yet), and a lost clone has no branches. `Based` is for `DeletedMergedUnpushed`: without
  pushes no fix branch has an upstream, so `branch -d` compares with the branch that is checked out.
* `FixesProofs`. `TypeCorrect` is inductive; that a problem has one patch in the batch at most rests on what
  taking an element out of a sequence leaves (`Removed`, `WithoutTyped`). `RunningShown` and `RestartsKeep` (from
  `Mirrored`, memory and disk agree) are inductive beside it. `OwnProposals` needs `Unmixed`: an investigation
  nobody overlaps is the only one, and while its agent works the latest proposal is its own. `ProposalsOwn` adds
  `ForOne`: an investigation is of one problem and proposes for it. `OnePatchPerFile` is about what a run holds to
  apply; that each file of the batch is in it, once and as staged last, is read off `StagedForApply` with a greatest
  element of a set of positions (`Least`, `Greatest`, from the well-foundedness of the naturals).
* `DigestProofs`. `NothingTwice` needs `Remembers`: with no configuration change or failed post since, the
  fingerprint kept is that of what was told. `NoBugHidden` needs `Accounted`: whatever the snapshot, or the list of
  the tick in progress, lacks and the last digest named was gone, or lacking in an answer, at some time since; a half
  kept from before is the snapshot's (`lastPerf = KeptPerf(cache)`). `RearmedReposts` needs only that a post in progress goes to the
  channel configured (`ToTheChannel`).
* `ReleasesProofs`. The properties speak of calls that no other overlaps, so `Inv` follows that one call
  (`Solo`: there is at most one) from stage to stage (`JobOk`): what it has still to write, and that the tree under
  it is as the record or the checkout left it (`Placed`, `Written`), that the gate saw this tree (`WasGated`),
  that the binary is built from it (`WasBuilt`) and that it is live (`WasDeployed`), or restored (`WasRestored`).
  `ShippedGated`, `RollbacksRestore`, `TidyCarried` and `TidyLive` are read off it. Every step of a call is one lemma
  (`...Goes`), and a step that writes nothing owes only what it claims anew (`Forward`). `ReleasesKeepLog` is the
  other half of the composition: the handlers, however they interleave, move the record only as `DeployLog` does, since
  a revert's target is in the log from the look that found it on (`TargetsRecorded`). `RevertsRestoreTracked` and
  `RevertsExact` are read off `Inv`.

**Under which condition the code keeps its word.** Where a comment claims what the code does not do (section 6), a
theorem proves the claim under a condition on the behaviour, and the finding's run is a behaviour that leaves it. So
whatever breaks the claim, within the model, takes a step that the condition excludes.

| Claim | Theorem | Holds as long as |
|---|---|---|
| `HaltedStaysHalted` | `HaltedStayHalted` | no `StopAll` comes while a poller holds unsent picks or the worker stands between its dequeue and the batch's context |
| `HaltStopsBuild` | `HaltStops` | calls do not overlap, no halt comes between submit and registration, and no cancel of a running build fails |
| `DeletedWasMerged` | `DeletedMergedUnpushed` | push stays off |
| `RevertIsExact` | `RevertsExact` | no patch adds a file, and the pristine branch is checked out (what git knows is restored to what is checked out in any case: `RevertsRestoreTracked`) |
| `ProposalIsOwn` | `ProposalsOwn` | an investigation that answers was alone and has proposed something |
| `RearmedRepost` | `RearmedReposts` | the channel is not changed while a post is under way |

The conditions speak of requests, their timing and failures, not of the code, and each is met by behaviours in which
what the claim is about does occur. They are sufficient; no one has shown them to be the weakest.

Only model-checked: the liveness properties `OffComesToRest`, `RunsSettle`, `HandoverCompletes`, `RunsEnd` and
`DigestFollows` (liveness under fairness is out of TLAPS's reach here). Every safety property of a passing run is a
theorem, both refinements included. Not proved either: conditions for findings 2 and 3 (the first would restate
`Poll`, the second is liveness), 4 (a check-only full upload is the finding itself) and 6 (what a fix branch carries
depends on every tree a proposal was read from).

## 6. Findings

With a run, or with the `.cfg` in brackets, which TLC finds violated in the same way:

1. **`StopAll` misses a batch that is about to start** (`autopilot_stopall`). It cancels through
   `e.cancel`, which `runBatch` sets only after the dequeue: a problem in between is shown halted
   and then investigated and shipped from the target that was being left.
2. **Off and on again forgets open problems** (`MCAutopilotToggle.cfg`). The drain leaves the baseline,
   so the poll that enabling kicks sees a finished run whose count did not climb.
3. **A failing problem starves its batch** (`MCAutopilotStarvation.cfg`). It re-enters the queue on every poll,
   sooner than the idle grace ends, and failures do not count towards a full batch.
4. **A check-only run changes the durable base** (`MCCloudRunnerBase.cfg`). A full upload contains the fix, and
   the next overlay deploy ships it.
5. **A halt between submit and registration cancels nothing** (`MCCloudRunnerHalt.cfg`), and the build deploys.
6. **A fix branch carries other fixes** (`MCGitSourceExact.cfg`). `CommitPatch` starts at the working branch but
   writes whole files from a proposal read elsewhere: in a tree that already carried another fix (confirming one
   merges both), or before the working branch moved on (confirming it undoes what was merged since).
7. **Clean-up deletes an unmerged branch** (`git_delete`). `Confirmed` is never taken back, so a problem's
   second fix counts as confirmed; once pushed, `branch -d` lets it go, and origin's copy goes too.
8. **A revert keeps files added since** (`releases_revert`). `git checkout` restores what is checked out; what a later
   version added stays, ships with the restored version and is not in its record. In a clone that commits its fixes,
   what is checked out is a fix branch: the revert restores that (`MCReleasesBranch.cfg`).
9. **A problem gets another's fix** (`fixes_proposal`). An investigation that proposes nothing, or overlaps
   another, is handed the store's latest proposal, which is then recorded, staged and attributed as its own.
10. **A new channel is not told** (`MCDigestRearm.cfg`). `Sync` writes the fingerprint after its post, over a
    configuration change that re-armed the digest meanwhile.

11. **Committing the fixes of a deploy takes them apart** (the models show it; no run). Each commit checks out the working
    branch by force in the tree that was deployed, so after two problems' fixes the tree holds the last one's only,
    while the version record carries both; the next deploy ships without the other.
12. **By default a restart loses the proposals** (the models show it; no run). `main` empties the directory they are kept
    in before they are read back.
13. **An error in an answer is an all-clear** (`MCDigestBlank.cfg`). `executeDQLMeta` takes an error that the tool reports
    in its result for no rows: the snapshot is emptied, and the digest drops bugs that are still there.

Smaller disagreements of code and comment the models show but no run is about: an empty problem list is never served from
the cache, being a nil slice (`client.go:127`); a run's result is recorded for every staged problem, also those whose
patch was superseded or unstaged between the two reads of the batch (`main.go:699`, `729`); a run in progress records
its result after a demo reset (`artifact.go:58`); no handler empties the batch after a run (`main.go:760`).

## 7. What is not modelled, and what is left

* **Out of scope.** The history (a list nothing decides by), the settings (a validated record; what it decides is
  a parameter of `LocalRunner`), API types, the frontend and the demo application; of the agent, the prompts and the
  conversation; of the server, handlers that only read, and the streaming of events.
* **The server over the engine.** `Releases` and `Fixes` take the engine as one more caller. `AutoPatch`, which
  `Autopilot` implements, is small enough to be composed with `demoReset` and re-targeting; that is the next step.
* **Pure algorithms** against reference definitions: the sandbox's read windows, `dedupeByFile`, `stageStatuses`,
  branch slugs.
* **GitSource.** A change of repository or working branch, and whether a pushed fix outlives its host.
* **Faults of the disk.** `Fixes` assumes that writes and removals of the mirrors succeed; only `Versions` lets
  them fail. `LocalRunner` does not restart: the demo process and the tree outlive the server, the calls do not.
