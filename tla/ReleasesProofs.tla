---------------------------- MODULE ReleasesProofs ----------------------------
(***************************************************************************)
(* Proofs about releases, for every set of files, patches, options and     *)
(* callers: what a gate passed is what ships, a rollback restores, and as  *)
(* long as every change is recorded the version record tells what the tree *)
(* carries and what is live.                                               *)
(*                                                                         *)
(* The properties speak of calls that no other call overlaps; `alone'      *)
(* marks them, so the invariant follows one such call through its stages.  *)
(***************************************************************************)
EXTENDS Releases, TLAPS

-----------------------------------------------------------------------------
(* The invariant *)

Over(j)     == j.at = "done" /\ j.outcome = "ok"
Applied(j)  == j.at \in {"test", "runTest", "build", "deploy", "verify"} \/ Over(j)
Built(j)    == j.at \in {"deploy", "verify"} \/ Over(j)
Deployed(j) == j.at = "verify" \/ Over(j)

Releasing(j) == j.kind \in {"run", "revert"}
Wrote(j)     == Touched(j.patches) \ j.todo

\* Where a call may be, and what it has to do there.
Placed(j) ==
  /\ j.at \in {"checkout", "apply", "test", "runTest", "build", "deploy", "verify"}
     => j.outcome = "none"
  /\ Releasing(j) => j.at \notin {"restore", "rebuild", "relaunch"}
  /\ j.kind = "run" => j.at # "checkout"
  /\ j.kind = "revert" => j.opts.apply /\ j.opts.build /\ j.opts.deploy
  /\ j.todo \subseteq Touched(j.patches) /\ (j.at = "checkout" => j.todo = Touched(j.patches))
  /\ Releasing(j) /\ Applied(j) /\ j.opts.apply => j.todo = {}

\* The tree is what it was, or as checked out, under what has been written.
Written(j) ==
  /\ Releasing(j) => \A f \in Wrote(j) : tree[f] = j.patches[f]
  /\ j.kind = "run" /\ tidy => \A f \in Files \ Wrote(j) : tree[f] = carried[f]
  /\ j.kind = "revert" /\ (j.at = "apply" \/ Applied(j))
     => \A f \in InGit \ Wrote(j) : tree[f] = index[f]

WasGated(j) ==
  j.kind = "run" =>
    /\ j.at \in {"apply", "test", "runTest"} => j.gated = None
    /\ j.gated # None => tree = j.gated

WasBuilt(j) ==
  Releasing(j) /\ Built(j) /\ j.opts.build /\ ~j.stale /\ compiled => bin = tree

WasDeployed(j) ==
  Releasing(j) /\ Deployed(j) /\ j.opts.build /\ j.opts.deploy =>
    /\ j.opts.target = "local" /\ ~j.stale => live.local = tree
    /\ j.opts.target = "docker" => live.docker = tree

AllPristine == \A f \in Tracked : tree[f] = Pristine

WasRestored(j) ==
  /\ j.at \in {"rebuild", "relaunch"} /\ j.outcome = "failed" => AllPristine
  /\ j.at = "relaunch" /\ j.outcome = "failed" /\ compiled /\ ~j.stale => bin = tree
  /\ j.at = "done" /\ j.outcome = "rolledBack" =>
       AllPristine /\ (~j.stale => live.local = tree)

JobOk(j) ==
  Placed(j) /\ Written(j) /\ WasGated(j) /\ WasBuilt(j) /\ WasDeployed(j) /\ WasRestored(j)

Solo == \A c, d \in Callers : Busy(c) /\ job[c].alone /\ Busy(d) => c = d

\* A call that commits its fixes has been recorded: nothing is claimed of it any more.
InOrder ==
  \A c \in Callers : Busy(c) /\ ~At(c, "commit") /\ job[c].alone => JobOk(job[c])

\* The Git source works on connected clones only.
Unbranched == nested => index = NoPatches /\ \A c \in Callers : ~At(c, "commit")

Inv == TypeOK /\ Solo /\ InOrder /\ Unbranched /\ TidyTreeIsCarried

-----------------------------------------------------------------------------
(* Calls and where they go *)

LEMMA JobTyped ==
  ASSUME TypeOK, NEW c \in Callers
  PROVE  /\ job[c] \in Job /\ job[c].kind \in Kinds /\ job[c].at \in Positions
         /\ job[c].opts \in Option /\ job[c].patches \in Overlay /\ job[c].todo \subseteq Files
         /\ job[c].attempt \in 0..MaxRepair /\ job[c].wrote \in BOOLEAN
         /\ job[c].outcome \in Outcomes /\ job[c].gated \in Overlay \cup {None}
         /\ job[c].alone \in BOOLEAN /\ job[c].stale \in BOOLEAN
BY DEF TypeOK, Job

\* A stage is skipped only if it is switched off.
LEMMA AfterwardsStage ==
  ASSUME NEW o, NEW stage \in {"start", "apply", "test", "build"}
  PROVE  LET pos == Afterwards(o, stage) IN
         /\ pos \in {"apply", "test", "build", "deploy", "done"}
         /\ pos = "apply" <=> stage = "start" /\ o.apply
         /\ pos = "test" => stage \in {"start", "apply"}
         /\ pos = "build" => stage # "build"
         /\ pos \in {"deploy", "done"} => stage = "build" \/ ~o.build
         /\ pos = "done" => ~o.deploy
BY DEF Afterwards

\* What the call c is after it went on, or failed.
Same(j, k) ==
  /\ k.kind = j.kind /\ k.opts = j.opts /\ k.patches = j.patches /\ k.alone = j.alone

LEMMA OnwardsTyped ==
  ASSUME TypeOK, NEW c \in Callers, NEW j \in Job, NEW pos \in Positions, Onwards(c, j, pos)
  PROVE  /\ job' \in [Callers -> Job] /\ \A d \in Callers \ {c} : job'[d] = job[d]
         /\ job'[c].at = pos /\ Same(j, job'[c]) /\ job'[c].todo = j.todo
         /\ job'[c].outcome = IF pos = "done" THEN "ok" ELSE j.outcome
         /\ job'[c].gated = j.gated /\ job'[c].stale = j.stale
<1> DEFINE k == [j EXCEPT !.at = pos, !.outcome = IF pos = "done" THEN "ok" ELSE @]
<1>1. k \in Job
  BY DEF Job, Outcomes
<1>2. /\ k.at = pos /\ Same(j, k) /\ k.todo = j.todo
      /\ k.outcome = IF pos = "done" THEN "ok" ELSE j.outcome
      /\ k.gated = j.gated /\ k.stale = j.stale
  BY DEF Job, Same
<1>3. job' = [job EXCEPT ![c] = k]
  BY DEF Onwards
<1> HIDE DEF k
<1>4. job'[c] = k
  BY <1>3 DEF TypeOK
<1>5. QED BY <1>1, <1>2, <1>3, <1>4 DEF TypeOK

LEMMA FailsTyped ==
  ASSUME TypeOK, NEW c \in Callers, Fails(c)
  PROVE  /\ job' \in [Callers -> Job] /\ \A d \in Callers \ {c} : job'[d] = job[d]
         /\ job'[c].at = IF job[c].at = "restore" \/ job[c].kind # "instrument"
                         THEN "done" ELSE "restore"
         /\ Same(job[c], job'[c]) /\ job'[c].todo = job[c].todo
         /\ job'[c].outcome = "failed"
         /\ job'[c].gated = job[c].gated /\ job'[c].stale = job[c].stale
<1> DEFINE pos == IF job[c].at = "restore" \/ job[c].kind # "instrument"
                  THEN "done" ELSE "restore"
           k == [job[c] EXCEPT !.at = pos, !.outcome = "failed"]
<1>1. k \in Job
  BY JobTyped DEF Job, Outcomes, Positions
<1>2. /\ k.at = pos /\ Same(job[c], k) /\ k.todo = job[c].todo /\ k.outcome = "failed"
      /\ k.gated = job[c].gated /\ k.stale = job[c].stale
  BY JobTyped DEF Job, Same
<1>3. job' = [job EXCEPT ![c] = k]
  BY DEF Fails
<1> HIDE DEF k
<1>4. job'[c] = k
  BY <1>3 DEF TypeOK
<1>5. QED BY <1>1, <1>2, <1>3, <1>4 DEF TypeOK

-----------------------------------------------------------------------------
(* One step of one call *)

\* A step of the call c that keeps the state well formed and c itself in order.
Goes(c) ==
  /\ Busy(c) /\ ~At(c, "commit") /\ Busy(c)' /\ ~At(c, "commit")' /\ UNCHANGED wiring
  /\ job'[c].alone = job[c].alone
  /\ \A d \in Callers \ {c} : job'[d] = job[d]
  /\ TypeOK'
  /\ job[c].alone => JobOk(job[c])'

LEMMA GoesKeeps ==
  ASSUME Inv, NEW c \in Callers, Goes(c), Unrecorded
  PROVE  Inv'
<1>1. \A d \in Callers : Busy(d)' => Busy(d) /\ job'[d].alone = job[d].alone
  BY DEF Goes, Busy, At
<1>2. Solo'
  BY <1>1 DEF Inv, Solo
<1>3. ASSUME NEW d \in Callers, Busy(d)', job'[d].alone
      PROVE  JobOk(job[d])'
  <2>1. d = c
    BY <1>1, <1>3 DEF Inv, Solo, Goes
  <2>2. QED BY <1>3, <2>1 DEF Goes
<1>4. TidyTreeIsCarried'
  BY DEF TidyTreeIsCarried, Goes
<1>5. Unbranched'
  BY DEF Inv, Unbranched, Goes, wiring, At
<1>6. QED BY <1>2, <1>3, <1>4, <1>5 DEF Inv, InOrder, Goes

\* From stage to stage nothing is written, so only what gate, build and deploy left is
\* to be shown.
LEMMA Forward ==
  ASSUME NEW c \in Callers, JobOk(job[c]), Same(job[c], job'[c]), job'[c].todo = job[c].todo,
         job[c].at \in {"test", "runTest", "build", "deploy", "verify"},
         job'[c].at \in {"test", "runTest", "build", "deploy", "verify", "done"},
         job'[c].outcome = IF job'[c].at = "done" THEN "ok" ELSE job[c].outcome,
         UNCHANGED <<wiring, tree, tidy, carried>>,
         WasGated(job[c])', WasBuilt(job[c])', WasDeployed(job[c])'
  PROVE  JobOk(job[c])'
<1>1. Placed(job[c])'
  BY DEF JobOk, Placed, Same, Releasing, Applied, Over
<1>2. Written(job[c])'
  BY DEF JobOk, Written, Same, Releasing, Applied, Over, Wrote, Touched, InGit, wiring
<1>3. WasRestored(job[c])'
  BY DEF WasRestored
<1>4. QED BY <1>1, <1>2, <1>3 DEF JobOk

\* Failing writes nothing either, and claims nothing.
LEMMA FailsGoes ==
  ASSUME Inv, NEW c \in Callers, Busy(c), ~At(c, "commit"), Fails(c), Unrecorded,
         UNCHANGED <<wiring, tree>>,
         brokenTest' \in BOOLEAN, scripts' \subseteq {"build", "docker"},
         bin' \in Overlay \cup {None},
         live' \in [local : Overlay \cup {None}, docker : Overlay \cup {None}]
  PROVE  Goes(c)
<1> DEFINE k == job'[c]
<1>1. /\ job' \in [Callers -> Job] /\ \A d \in Callers \ {c} : job'[d] = job[d]
      /\ k.at = IF job[c].at = "restore" \/ job[c].kind # "instrument" THEN "done" ELSE "restore"
      /\ Same(job[c], k) /\ k.todo = job[c].todo /\ k.outcome = "failed"
      /\ k.gated = job[c].gated /\ k.stale = job[c].stale
  BY FailsTyped DEF Inv
<1>2. UNCHANGED <<tree, log, carried, tidy>>
  BY DEF Unrecorded
<1>3. TypeOK'
  BY <1>1, <1>2 DEF Inv, TypeOK, wiring
<1>4. Busy(c)' /\ ~At(c, "commit")' /\ k.alone = job[c].alone
  BY <1>1 DEF Busy, At, Same
<1>5. ASSUME job[c].alone PROVE JobOk(job[c])'
  <2>1. JobOk(job[c])
    BY <1>5 DEF Inv, InOrder
  <2>2. Placed(job[c])'
    BY <1>1, <2>1 DEF JobOk, Placed, Same, Releasing, Applied, Over
  <2>3. Written(job[c])'
    BY <1>1, <1>2, <2>1 DEF JobOk, Written, Same, Releasing, Applied, Over, Wrote, Touched,
                            InGit, wiring
  <2>4. WasGated(job[c])'
    BY <1>1, <1>2, <2>1 DEF JobOk, WasGated, Same
  <2>5. WasBuilt(job[c])' /\ WasDeployed(job[c])' /\ WasRestored(job[c])'
    BY <1>1 DEF WasBuilt, WasDeployed, WasRestored, Built, Deployed, Over
  <2>6. QED BY <2>2, <2>3, <2>4, <2>5 DEF JobOk
<1>6. QED BY <1>1, <1>3, <1>4, <1>5 DEF Goes

LEMMA DiskTyped ==
  ASSUME TypeOK
  PROVE  /\ tree \in Overlay /\ index \in Overlay /\ brokenTest \in BOOLEAN
         /\ scripts \subseteq {"build", "docker"}
         /\ bin \in Overlay \cup {None}
         /\ live \in [local : Overlay \cup {None}, docker : Overlay \cup {None}]
BY DEF TypeOK

\* What the next steps share: they go on, from the call as it was but for fields that say
\* how often it tried and what its gate saw.
LEMMA OnwardsGoes ==
  ASSUME Inv, NEW c \in Callers, Busy(c), ~At(c, "commit"), NEW j \in Job,
         NEW pos \in Positions \ {"idle", "commit"},
         Onwards(c, j, pos), j.alone = job[c].alone, UNCHANGED <<wiring, log, carried, tidy>>,
         tree' \in Overlay, brokenTest' \in BOOLEAN, scripts' \subseteq {"build", "docker"},
         bin' \in Overlay \cup {None},
         live' \in [local : Overlay \cup {None}, docker : Overlay \cup {None}],
         job[c].alone => JobOk(job[c])'
  PROVE  Goes(c)
<1>1. /\ job' \in [Callers -> Job] /\ \A d \in Callers \ {c} : job'[d] = job[d]
      /\ job'[c].at = pos /\ Same(j, job'[c])
  BY OnwardsTyped DEF Inv
<1>2. TypeOK'
  BY <1>1 DEF Inv, TypeOK, wiring
<1>3. QED BY <1>1, <1>2 DEF Goes, Busy, At, Same

-----------------------------------------------------------------------------
(* Resetting, writing *)

LEMMA CheckoutGoes ==
  ASSUME Inv, NEW c \in Callers, Checkout(c), Unrecorded
  PROVE  Goes(c)
<1>1. /\ Busy(c) /\ ~At(c, "commit")
      /\ job[c].at = "checkout" /\ UNCHANGED <<log, carried, tidy>> /\ TypeOK
      /\ UNCHANGED <<wiring, brokenTest, scripts, bin, live>>
  BY DEF Checkout, Busy, At, Unrecorded, Inv
<1>2. job[c].alone => JobOk(job[c])
  BY <1>1 DEF Inv, InOrder
<1>3. CASE job[c].kind = "revert" /\ tree' = ResetTree /\ Onwards(c, job[c], "apply")
  <2>1. tree' \in Overlay /\ \A f \in InGit : tree'[f] = index[f]
    BY <1>1, <1>3, DiskTyped, LocalRunnerAssumption DEF ResetTree, Overlay, InGit
  <2>2. /\ job'[c].at = "apply" /\ Same(job[c], job'[c]) /\ job'[c].todo = job[c].todo
        /\ job'[c].outcome = job[c].outcome
    BY <1>1, <1>3, JobTyped, OnwardsTyped DEF Positions
  <2>3. ASSUME job[c].alone PROVE JobOk(job[c])'
    <3>1. Placed(job[c])' /\ job'[c].kind = "revert"
      BY <1>1, <1>2, <1>3, <2>2, <2>3 DEF JobOk, Placed, Same, Releasing, Applied, Over
    <3>2. Wrote(job[c])' = {}
      BY <1>1, <1>2, <2>2, <2>3 DEF JobOk, Placed, Same, Wrote, Touched
    <3>3. Written(job[c])'
      BY <1>1, <2>1, <3>1, <3>2 DEF Written, InGit, wiring
    <3>4. WasGated(job[c])' /\ WasBuilt(job[c])' /\ WasDeployed(job[c])' /\ WasRestored(job[c])'
      BY <2>2, <3>1 DEF WasGated, WasBuilt, WasDeployed, WasRestored, Built, Deployed, Over
    <3>5. QED BY <3>1, <3>3, <3>4 DEF JobOk
  <2>4. QED BY <1>1, <1>3, <2>1, <2>3, JobTyped, DiskTyped, OnwardsGoes DEF Positions
<1>4. CASE /\ job[c].kind = "reset" /\ tree' = [tree EXCEPT ![MainFile] = index[MainFile]]
           /\ Onwards(c, job[c], "rebuild")
  <2>1. tree' \in Overlay
    BY <1>1, <1>4, DiskTyped, LocalRunnerAssumption DEF Overlay
  <2>2. /\ job'[c].at = "rebuild" /\ Same(job[c], job'[c]) /\ job'[c].todo = job[c].todo
        /\ job'[c].outcome = job[c].outcome
    BY <1>1, <1>4, JobTyped, OnwardsTyped DEF Positions
  <2>3. ASSUME job[c].alone PROVE JobOk(job[c])'
    <3>1. job'[c].kind = "reset" /\ job'[c].outcome = "none" /\ Placed(job[c])'
      BY <1>1, <1>2, <1>4, <2>2, <2>3 DEF JobOk, Placed, Same, Releasing
    <3>2. QED BY <2>2, <3>1 DEF JobOk, Written, WasGated, WasBuilt, WasDeployed, WasRestored, Releasing
  <2>4. QED BY <1>1, <1>4, <2>1, <2>3, JobTyped, DiskTyped, OnwardsGoes DEF Positions
<1>5. CASE UNCHANGED tree /\ Fails(c)
  BY <1>1, <1>5, DiskTyped, FailsGoes
<1>6. QED BY <1>3, <1>4, <1>5 DEF Checkout

LEMMA WriteFileGoes ==
  ASSUME Inv, NEW c \in Callers, NEW f \in Files, WriteFile(c, f), Unrecorded
  PROVE  Goes(c)
<1> DEFINE rest == job[c].todo \ {f}
           j    == [job[c] EXCEPT !.todo = rest]
           pos  == IF rest = {} THEN Afterwards(Opts(c), "apply") ELSE "apply"
<1>1. /\ Busy(c) /\ ~At(c, "commit") /\ job[c].at = "apply" /\ f \in job[c].todo
      /\ UNCHANGED <<log, carried, tidy>> /\ TypeOK
      /\ UNCHANGED <<wiring, brokenTest, scripts, bin, live>>
      /\ tree' = [tree EXCEPT ![f] = job[c].patches[f]] /\ Onwards(c, j, pos)
  BY DEF WriteFile, Busy, At, Unrecorded, Inv
<1>2. job[c].alone => JobOk(job[c])
  BY <1>1 DEF Inv, InOrder
<1>3. tree' \in Overlay /\ tree \in Overlay
  BY <1>1, JobTyped, DiskTyped DEF Overlay
<1>4. /\ j \in Job /\ Same(job[c], j) /\ j.todo = rest /\ j.outcome = job[c].outcome
      /\ j.gated = job[c].gated /\ j.stale = job[c].stale
  BY <1>1, JobTyped DEF Job, Same
<1>5. /\ pos \in {"apply", "test", "build", "deploy", "done"}
      /\ pos = "apply" <=> rest # {}
      /\ pos \in {"deploy", "done"} => ~job[c].opts.build
      /\ pos = "done" => ~job[c].opts.deploy
  BY AfterwardsStage DEF Opts
<1> HIDE DEF j, pos
<1>6. /\ job'[c].at = pos /\ Same(job[c], job'[c]) /\ job'[c].todo = rest
      /\ job'[c].outcome = IF pos = "done" THEN "ok" ELSE job[c].outcome
      /\ job'[c].gated = job[c].gated /\ job'[c].stale = job[c].stale
  BY <1>1, <1>4, <1>5, OnwardsTyped DEF Positions, Same
<1>7. ASSUME job[c].alone PROVE JobOk(job[c])'
  <2>1. JobOk(job[c])
    BY <1>2, <1>7
  <2>2. Placed(job[c])'
    BY <1>1, <1>5, <1>6, <2>1 DEF JobOk, Placed, Same, Releasing, Applied, Over
  <2>3. f \in Touched(job[c].patches) /\ Wrote(job[c])' = Wrote(job[c]) \cup {f}
    BY <1>1, <1>6, <2>1 DEF JobOk, Placed, Same, Wrote, Touched
  <2>4. \A g \in Files : tree'[g] = IF g = f THEN job[c].patches[f] ELSE tree[g]
    BY <1>1, <1>3 DEF Overlay
  <2>5. InGit \subseteq Files /\ Wrote(job[c]) \subseteq Files /\ InGit' = InGit
    BY <1>1 DEF Wrote, Touched, InGit, wiring
  <2>6. Written(job[c])'
    BY <1>1, <1>6, <2>1, <2>3, <2>4, <2>5 DEF JobOk, Written, Same, Releasing, wiring
  <2>7. WasGated(job[c])'
    BY <1>1, <1>6, <2>1 DEF JobOk, WasGated, Same
  <2>8. WasBuilt(job[c])' /\ WasDeployed(job[c])' /\ WasRestored(job[c])'
    BY <1>5, <1>6 DEF WasBuilt, WasDeployed, WasRestored, Built, Deployed, Over, Same
  <2>9. QED BY <2>2, <2>6, <2>7, <2>8 DEF JobOk
<1>8. pos \in Positions \ {"idle", "commit"} /\ j.alone = job[c].alone
  BY <1>4, <1>5 DEF Positions, Same
<1>9. QED BY <1>1, <1>3, <1>4, <1>7, <1>8, DiskTyped, OnwardsGoes

LEMMA ApplyFailsGoes ==
  ASSUME Inv, NEW c \in Callers, ApplyFails(c), Unrecorded
  PROVE  Goes(c)
<1>1. /\ TypeOK /\ Busy(c) /\ ~At(c, "commit")
      /\ UNCHANGED <<wiring, tree, brokenTest, scripts, bin, live>>
  BY DEF ApplyFails, Busy, At, Inv, disk
<1>2. QED BY <1>1, DiskTyped, FailsGoes DEF ApplyFails

-----------------------------------------------------------------------------
(* The gate *)

\* A passed gate saw the tree, or was switched off and saw nothing.
LEMMA GatePassesGoes ==
  ASSUME Inv, NEW c \in Callers, job[c].at \in {"test", "runTest"}, NEW seen \in {None, tree},
         GatePasses(c, seen), Unrecorded, UNCHANGED <<wiring, disk, bin, live>>
  PROVE  Goes(c)
<1> DEFINE j   == [job[c] EXCEPT !.gated = seen]
           pos == Afterwards(Opts(c), "test")
<1>1. /\ TypeOK /\ Busy(c) /\ ~At(c, "commit")
      /\ UNCHANGED <<wiring, tree, brokenTest, scripts, bin, live>>
      /\ UNCHANGED <<log, carried, tidy>> /\ Onwards(c, j, pos)
  BY DEF Busy, At, Unrecorded, Inv, disk, GatePasses
<1>2. /\ j \in Job /\ Same(job[c], j) /\ j.todo = job[c].todo /\ j.outcome = job[c].outcome
      /\ j.gated = seen /\ j.stale = job[c].stale
  BY <1>1, JobTyped, DiskTyped DEF Job, Same
<1>3. /\ pos \in {"build", "deploy", "done"}
      /\ pos \in {"deploy", "done"} => ~job[c].opts.build
      /\ pos = "done" => ~job[c].opts.deploy
  BY AfterwardsStage DEF Opts
<1> HIDE DEF j, pos
<1>4. /\ job'[c].at = pos /\ Same(job[c], job'[c]) /\ job'[c].todo = job[c].todo
      /\ job'[c].outcome = IF pos = "done" THEN "ok" ELSE job[c].outcome
      /\ job'[c].gated = seen /\ job'[c].stale = job[c].stale
  BY <1>1, <1>2, <1>3, OnwardsTyped DEF Positions, Same
<1>5. ASSUME job[c].alone PROVE JobOk(job[c])'
  <2>1. JobOk(job[c])
    BY <1>1, <1>5 DEF Inv, InOrder
  <2>2. WasGated(job[c])' /\ WasBuilt(job[c])' /\ WasDeployed(job[c])'
    BY <1>1, <1>3, <1>4 DEF WasGated, WasBuilt, WasDeployed, Built, Deployed, Over, Same
  <2>3. job'[c].at \in {"test", "runTest", "build", "deploy", "verify", "done"}
    BY <1>3, <1>4
  <2>4. QED BY <1>1, <1>4, <2>1, <2>2, <2>3, Forward
<1>6. pos \in Positions \ {"idle", "commit"} /\ j.alone = job[c].alone
  BY <1>2, <1>3 DEF Positions, Same
<1>7. QED BY <1>1, <1>2, <1>5, <1>6, DiskTyped, OnwardsGoes

LEMMA SkipGateGoes ==
  ASSUME Inv, NEW c \in Callers, SkipGate(c), Unrecorded
  PROVE  Goes(c)
BY GatePassesGoes DEF SkipGate, At

\* Only instrumentation is repaired, and nothing is claimed of it before its end.
LEMMA RepairGoes ==
  ASSUME Inv, NEW c \in Callers, job[c].at \in {"test", "build"}, NEW fixed \in PatchSets,
         Repair(c, fixed), Unrecorded, UNCHANGED <<wiring, disk, bin, live>>
  PROVE  Goes(c)
<1> DEFINE k == [job[c] EXCEPT !.at = "apply", !.attempt = @ + 1, !.patches = fixed,
                               !.todo = Touched(fixed), !.gated = None]
<1>1. /\ TypeOK /\ Busy(c) /\ ~At(c, "commit")
      /\ UNCHANGED <<wiring, tree, brokenTest, scripts, bin, live>>
      /\ UNCHANGED <<log, carried, tidy>> /\ job' = [job EXCEPT ![c] = k]
      /\ job[c].kind = "instrument" /\ job[c].attempt < MaxRepair
  BY DEF Busy, At, Unrecorded, Inv, disk, Repair
<1>2. fixed \in Overlay /\ job[c].attempt + 1 \in 0..MaxRepair
  BY <1>1, JobTyped, LocalRunnerAssumption
<1>3. /\ k \in Job /\ k.at = "apply" /\ k.kind = "instrument" /\ k.alone = job[c].alone
      /\ k.outcome = job[c].outcome /\ k.todo = Touched(k.patches)
  BY <1>1, <1>2, JobTyped DEF Job, Positions, Touched
<1> HIDE DEF k
<1>4. job'[c] = k /\ \A d \in Callers \ {c} : job'[d] = job[d]
  BY <1>1 DEF TypeOK
<1>5. TypeOK'
  BY <1>1, <1>3 DEF TypeOK, wiring
<1>6. ASSUME job[c].alone PROVE JobOk(job[c])'
  <2>1. job[c].outcome = "none"
    BY <1>1, <1>6 DEF Inv, InOrder, JobOk, Placed
  <2>2. QED BY <1>3, <1>4, <2>1 DEF JobOk, Placed, Written, WasGated, WasBuilt, WasDeployed,
                                    WasRestored, Releasing
<1>7. QED BY <1>1, <1>3, <1>4, <1>5, <1>6 DEF Goes, Busy, At

LEMMA StageFailsGoes ==
  ASSUME Inv, NEW c \in Callers, job[c].at \in {"test", "build"}, StageFails(c), Unrecorded,
         UNCHANGED <<wiring, disk, bin, live>>
  PROVE  Goes(c)
<1>1. Busy(c) /\ ~At(c, "commit") /\ TypeOK
  BY DEF Busy, At, Inv
<1>2. CASE Fails(c)
  BY <1>1, <1>2, DiskTyped, FailsGoes DEF disk
<1>3. CASE \E fixed \in PatchSets : Repair(c, fixed)
  BY <1>3, RepairGoes
<1>4. QED BY <1>2, <1>3 DEF StageFails

LEMMA RunGateGoes ==
  ASSUME Inv, NEW c \in Callers, RunGate(c), Unrecorded
  PROVE  Goes(c)
<1>1. CASE GatePasses(c, tree)
  BY <1>1, GatePassesGoes DEF RunGate, At
<1>2. CASE StageFails(c)
  BY <1>2, StageFailsGoes DEF RunGate, At
<1>3. QED BY <1>1, <1>2 DEF RunGate

\* A test written, or to be written again: the gate has seen nothing yet.
LEMMA TestingGoes ==
  ASSUME Inv, NEW c \in Callers, job[c].at \in {"test", "runTest"}, NEW j \in Job,
         NEW pos \in {"test", "runTest"}, Onwards(c, j, pos), Same(job[c], j),
         j.todo = job[c].todo, j.outcome = job[c].outcome, j.gated = job[c].gated,
         j.stale = job[c].stale, Unrecorded,
         UNCHANGED <<wiring, tree, scripts, bin, live>>, brokenTest' \in BOOLEAN
  PROVE  Goes(c)
<1>1. TypeOK /\ Busy(c) /\ ~At(c, "commit") /\ UNCHANGED <<log, carried, tidy>>
  BY DEF Busy, At, Unrecorded, Inv
<1>2. /\ job'[c].at = pos /\ Same(job[c], job'[c]) /\ job'[c].todo = job[c].todo
      /\ job'[c].outcome = job[c].outcome
      /\ job'[c].gated = job[c].gated /\ job'[c].stale = job[c].stale
  BY <1>1, OnwardsTyped DEF Positions, Same
<1>3. ASSUME job[c].alone PROVE JobOk(job[c])'
  <2>1. JobOk(job[c])
    BY <1>1, <1>3 DEF Inv, InOrder
  <2>2. WasGated(job[c])' /\ WasBuilt(job[c])' /\ WasDeployed(job[c])'
    BY <1>2, <2>1 DEF JobOk, WasGated, WasBuilt, WasDeployed, Built, Deployed, Over, Same
  <2>3. /\ job'[c].at \in {"test", "runTest", "build", "deploy", "verify", "done"}
        /\ job'[c].outcome = IF job'[c].at = "done" THEN "ok" ELSE job[c].outcome
    BY <1>2
  <2>4. QED BY <1>1, <1>2, <2>1, <2>2, <2>3, Forward
<1>4. pos \in Positions \ {"idle", "commit"} /\ j.alone = job[c].alone
  BY DEF Positions, Same
<1>5. QED BY <1>1, <1>3, <1>4, DiskTyped, OnwardsGoes

LEMMA GenerateTestGoes ==
  ASSUME Inv, NEW c \in Callers, GenerateTest(c), Unrecorded
  PROVE  Goes(c)
<1>1. /\ TypeOK /\ Busy(c) /\ ~At(c, "commit") /\ job[c].at = "test"
      /\ UNCHANGED <<wiring, tree, scripts, bin, live>> /\ brokenTest \in BOOLEAN
  BY DiskTyped DEF GenerateTest, Busy, At, Inv
<1>2. CASE Fails(c) /\ brokenTest' \in {brokenTest, TRUE}
  BY <1>1, <1>2, DiskTyped, FailsGoes
<1>3. ASSUME NEW w \in BOOLEAN, Onwards(c, [job[c] EXCEPT !.wrote = w], "runTest"),
             brokenTest' \in BOOLEAN
      PROVE  Goes(c)
  <2> DEFINE j == [job[c] EXCEPT !.wrote = w]
  <2>1. /\ j \in Job /\ Same(job[c], j) /\ j.todo = job[c].todo /\ j.outcome = job[c].outcome
        /\ j.gated = job[c].gated /\ j.stale = job[c].stale
    BY <1>1, JobTyped DEF Job, Same
  <2>2. Onwards(c, j, "runTest")
    BY <1>3
  <2> HIDE DEF j
  <2>3. QED BY <1>1, <1>3, <2>1, <2>2, TestingGoes
<1>4. QED BY <1>1, <1>2, <1>3 DEF GenerateTest

LEMMA RunGeneratedGoes ==
  ASSUME Inv, NEW c \in Callers, RunGenerated(c), Unrecorded
  PROVE  Goes(c)
<1>1. /\ TypeOK /\ Busy(c) /\ ~At(c, "commit") /\ job[c].at = "runTest"
      /\ UNCHANGED <<wiring, tree, brokenTest, scripts, bin, live>>
      /\ UNCHANGED <<wiring, disk, bin, live>>
  BY DEF RunGenerated, Busy, At, Inv, disk
<1>2. CASE GatePasses(c, tree)
  BY <1>1, <1>2, GatePassesGoes
<1>3. CASE Fails(c)
  BY <1>1, <1>3, DiskTyped, FailsGoes
<1>4. CASE MayRegenerate(c) /\ Onwards(c, [job[c] EXCEPT !.attempt = @ + 1], "test")
  <2> DEFINE j == [job[c] EXCEPT !.attempt = @ + 1]
  <2>1. job[c].attempt + 1 \in 0..MaxRepair
    BY <1>1, <1>4, JobTyped, LocalRunnerAssumption DEF MayRegenerate
  <2>2. /\ j \in Job /\ Same(job[c], j) /\ j.todo = job[c].todo /\ j.outcome = job[c].outcome
        /\ j.gated = job[c].gated /\ j.stale = job[c].stale
    BY <1>1, <2>1, JobTyped DEF Job, Same
  <2>3. Onwards(c, j, "test")
    BY <1>4
  <2> HIDE DEF j
  <2>4. QED BY <1>1, <2>2, <2>3, DiskTyped, TestingGoes
<1>5. QED BY <1>2, <1>3, <1>4 DEF RunGenerated

-----------------------------------------------------------------------------
(* Building *)

LEMMA GenerateScriptGoes ==
  ASSUME Inv, NEW c \in Callers, GenerateScript(c), Unrecorded
  PROVE  Goes(c)
<1>1. /\ TypeOK /\ Busy(c) /\ ~At(c, "commit")
      /\ UNCHANGED <<wiring, tree, brokenTest, bin, live>>
      /\ UNCHANGED <<log, carried, tidy>> /\ scripts' \subseteq {"build", "docker"}
  BY DiskTyped DEF GenerateScript, Busy, At, Unrecorded, Inv
<1>2. CASE UNCHANGED job
  <2>1. TypeOK'
    BY <1>1, <1>2 DEF TypeOK, wiring
  <2>2. job[c].alone => JobOk(job[c])
    BY <1>1 DEF Inv, InOrder
  <2>3. job[c].alone => JobOk(job[c])'
    BY <1>1, <1>2, <2>2 DEF JobOk, Placed, Written, WasGated, WasBuilt, WasDeployed, WasRestored,
                            Wrote, Touched, AllPristine, InGit, wiring
  <2>4. QED BY <1>1, <1>2, <2>1, <2>3 DEF Goes, Busy, At
<1>3. CASE Fails(c)
  BY <1>1, <1>3, DiskTyped, FailsGoes
<1>4. QED BY <1>2, <1>3 DEF GenerateScript

\* After a script, or a build that may have kept the binary, nothing is claimed of it.
LEMMA StaleGoes ==
  ASSUME Inv, NEW c \in Callers, job[c].at = "build", Unrecorded,
         Onwards(c, [job[c] EXCEPT !.stale = TRUE], Afterwards(Opts(c), "build")),
         UNCHANGED <<wiring, tree, brokenTest, scripts, live>>, bin' \in Overlay \cup {None}
  PROVE  Goes(c)
<1> DEFINE j   == [job[c] EXCEPT !.stale = TRUE]
           pos == Afterwards(Opts(c), "build")
<1>1. TypeOK /\ Busy(c) /\ ~At(c, "commit") /\ UNCHANGED <<log, carried, tidy>>
  BY DEF Busy, At, Unrecorded, Inv
<1>2. /\ j \in Job /\ Same(job[c], j) /\ j.todo = job[c].todo /\ j.outcome = job[c].outcome
      /\ j.gated = job[c].gated /\ j.stale
  BY <1>1, JobTyped DEF Job, Same
<1>3. pos \in {"deploy", "done"}
  BY AfterwardsStage
<1>4. Onwards(c, j, pos)
  OBVIOUS
<1> HIDE DEF j, pos
<1>5. /\ job'[c].at = pos /\ Same(job[c], job'[c]) /\ job'[c].todo = job[c].todo
      /\ job'[c].outcome = IF pos = "done" THEN "ok" ELSE job[c].outcome
      /\ job'[c].gated = job[c].gated /\ job'[c].stale
  BY <1>1, <1>2, <1>3, <1>4, OnwardsTyped DEF Positions, Same
<1>6. ASSUME job[c].alone PROVE JobOk(job[c])'
  <2>1. JobOk(job[c])
    BY <1>1, <1>6 DEF Inv, InOrder
  <2>2. WasGated(job[c])' /\ WasBuilt(job[c])'
    BY <1>1, <1>3, <1>5, <2>1 DEF JobOk, WasGated, WasBuilt, Same
  <2>3. WasDeployed(job[c])'
    BY <1>3, <1>5, AfterwardsStage DEF WasDeployed, Deployed, Over, Same, pos, Opts
  <2>4. job'[c].at \in {"test", "runTest", "build", "deploy", "verify", "done"}
    BY <1>3, <1>5
  <2>5. QED BY <1>1, <1>5, <2>1, <2>2, <2>3, <2>4, Forward
<1>7. pos \in Positions \ {"idle", "commit"} /\ j.alone = job[c].alone
  BY <1>2, <1>3 DEF Positions, Same
<1>8. QED BY <1>1, <1>2, <1>4, <1>6, <1>7, DiskTyped, OnwardsGoes

LEMMA RunBuildScriptGoes ==
  ASSUME Inv, NEW c \in Callers, RunBuildScript(c), Unrecorded
  PROVE  Goes(c)
<1>1. /\ TypeOK /\ Busy(c) /\ ~At(c, "commit") /\ job[c].at = "build"
      /\ UNCHANGED <<wiring, tree, brokenTest, scripts, live>> /\ bin' \in Overlay \cup {None}
  BY DiskTyped DEF RunBuildScript, Busy, At, Inv, disk
<1>2. CASE Fails(c)
  BY <1>1, <1>2, DiskTyped, FailsGoes
<1>3. QED BY <1>1, <1>2, StaleGoes DEF RunBuildScript

LEMMA BuildGoes ==
  ASSUME Inv, NEW c \in Callers, Build(c), Unrecorded
  PROVE  Goes(c)
<1> DEFINE pos == Afterwards(Opts(c), "build")
<1>1. /\ TypeOK /\ Busy(c) /\ ~At(c, "commit")
      /\ job[c].at = "build" /\ UNCHANGED <<log, carried, tidy>>
      /\ job[c] \in Job
  BY JobTyped DEF Build, Busy, At, Unrecorded, Inv
<1>2. CASE /\ BuildDefault(c, pos) /\ bin' = (IF compiled THEN tree ELSE bin)
           /\ Onwards(c, job[c], pos)
  <2>1. /\ UNCHANGED <<wiring, tree, brokenTest, scripts, live, compiled>>
        /\ bin' = (IF compiled THEN tree ELSE bin) /\ Onwards(c, job[c], pos)
        /\ bin' \in Overlay \cup {None}
    BY <1>1, <1>2, DiskTyped DEF BuildDefault, disk, wiring
  <2>2. pos \in {"deploy", "done"} /\ (pos = "done" => ~job[c].opts.deploy)
    BY AfterwardsStage DEF Opts
  <2> HIDE DEF pos
  <2>3. /\ job'[c].at = pos /\ Same(job[c], job'[c]) /\ job'[c].todo = job[c].todo
        /\ job'[c].outcome = IF pos = "done" THEN "ok" ELSE job[c].outcome
        /\ job'[c].gated = job[c].gated /\ job'[c].stale = job[c].stale
    BY <1>1, <2>1, <2>2, OnwardsTyped DEF Positions
  <2>4. ASSUME job[c].alone PROVE JobOk(job[c])'
    <3>1. JobOk(job[c])
      BY <1>1, <2>4 DEF Inv, InOrder
    <3>2. WasGated(job[c])'
      BY <2>1, <2>2, <2>3, <3>1 DEF JobOk, WasGated, Same
    <3>3. WasBuilt(job[c])'
      BY <2>1 DEF WasBuilt
    <3>4. WasDeployed(job[c])'
      BY <2>2, <2>3 DEF WasDeployed, Deployed, Over, Same
    <3>5. job'[c].at \in {"test", "runTest", "build", "deploy", "verify", "done"}
      BY <2>2, <2>3
    <3>6. QED BY <1>1, <2>1, <2>3, <3>1, <3>2, <3>3, <3>4, <3>5, Forward
  <2>5. pos \in Positions \ {"idle", "commit"}
    BY <2>2 DEF Positions
  <2>6. QED BY <1>1, <2>1, <2>4, <2>5, DiskTyped, OnwardsGoes
<1>3. CASE StageFails(c) /\ UNCHANGED <<wiring, disk, bin, live>>
  BY <1>1, <1>3, StageFailsGoes
<1>4. CASE /\ BuildDefault(c, pos) /\ UNCHANGED bin
           /\ Onwards(c, [job[c] EXCEPT !.stale = TRUE], pos)
  <2>1. UNCHANGED <<wiring, tree, brokenTest, scripts, live>> /\ bin' \in Overlay \cup {None}
    BY <1>1, <1>4, DiskTyped DEF BuildDefault, disk
  <2>2. QED BY <1>1, <1>4, <2>1, StaleGoes
<1>5. QED BY <1>2, <1>3, <1>4 DEF Build, BuildDefault

-----------------------------------------------------------------------------
(* Deploying *)

\* What is launched is the tree, if the build stage built it.
LEMMA RestartGoes ==
  ASSUME Inv, NEW c \in Callers, Restart(c), Unrecorded
  PROVE  Goes(c)
<1>1. /\ TypeOK /\ Busy(c) /\ ~At(c, "commit")
      /\ job[c].at = "deploy" /\ UNCHANGED <<log, carried, tidy>>
      /\ UNCHANGED <<wiring, tree, brokenTest, scripts, bin, compiled>> /\ job[c] \in Job
      /\ job[c].opts.target = "local" \/ job[c].kind = "instrument"
      /\ Launch(c, "verify")
  BY JobTyped DEF Restart, Launch, Busy, At, Opts, Unrecorded, Inv, disk, wiring
<1>2. CASE Launched # None /\ live' = [live EXCEPT !.local = Launched] /\ Onwards(c, job[c], "verify")
  <2>1. /\ live' \in [local : Overlay \cup {None}, docker : Overlay \cup {None}]
        /\ live'.local = IF compiled THEN bin ELSE tree
    BY <1>1, <1>2, DiskTyped DEF Launched
  <2>2. /\ job'[c].at = "verify" /\ Same(job[c], job'[c]) /\ job'[c].todo = job[c].todo
        /\ job'[c].outcome = job[c].outcome
        /\ job'[c].gated = job[c].gated /\ job'[c].stale = job[c].stale
    BY <1>1, <1>2, OnwardsTyped DEF Positions
  <2>3. ASSUME job[c].alone PROVE JobOk(job[c])'
    <3>1. JobOk(job[c])
      BY <1>1, <2>3 DEF Inv, InOrder
    <3>2. WasGated(job[c])'
      BY <1>1, <2>2, <3>1 DEF JobOk, WasGated, Same
    <3>3. WasBuilt(job[c])'
      BY <1>1, <2>2, <3>1 DEF JobOk, WasBuilt, Releasing, Built, Over, Same
    <3>4. WasDeployed(job[c])'
      BY <1>1, <2>1, <2>2, <3>1 DEF JobOk, WasBuilt, WasDeployed, Releasing, Built, Over, Same
    <3>5. /\ job'[c].at \in {"test", "runTest", "build", "deploy", "verify", "done"}
          /\ job'[c].outcome = IF job'[c].at = "done" THEN "ok" ELSE job[c].outcome
      BY <2>2
    <3>6. QED BY <1>1, <2>2, <3>1, <3>2, <3>3, <3>4, <3>5, Forward
  <2>4. QED BY <1>1, <1>2, <2>1, <2>3, DiskTyped, OnwardsGoes DEF Positions
<1>3. CASE live' = [live EXCEPT !.local = None] /\ Fails(c)
  <2>1. live' \in [local : Overlay \cup {None}, docker : Overlay \cup {None}]
    BY <1>1, <1>3, DiskTyped
  <2>2. QED BY <1>1, <1>3, <2>1, DiskTyped, FailsGoes
<1>4. QED BY <1>1, <1>2, <1>3 DEF Launch

\* On to the smoke test: a container, or what a script shipped.
LEMMA ShippedGoes ==
  ASSUME Inv, NEW c \in Callers, job[c].at = "deploy", Onwards(c, job[c], "verify"), Unrecorded,
         UNCHANGED <<wiring, tree, brokenTest, bin>>, scripts' \subseteq {"build", "docker"},
         live' \in [local : Overlay \cup {None}, docker : Overlay \cup {None}],
         (job[c].opts.target = "docker" /\ live'.docker = tree) \/ job[c].opts.target = "script"
  PROVE  Goes(c)
<1>1. /\ TypeOK /\ Busy(c) /\ ~At(c, "commit")
      /\ UNCHANGED <<log, carried, tidy, compiled>> /\ job[c] \in Job
  BY JobTyped DEF Busy, At, Unrecorded, Inv, wiring
<1>2. /\ job'[c].at = "verify" /\ Same(job[c], job'[c]) /\ job'[c].todo = job[c].todo
      /\ job'[c].outcome = job[c].outcome
      /\ job'[c].gated = job[c].gated /\ job'[c].stale = job[c].stale
  BY <1>1, OnwardsTyped DEF Positions
<1>3. ASSUME job[c].alone PROVE JobOk(job[c])'
  <2>1. JobOk(job[c])
    BY <1>1, <1>3 DEF Inv, InOrder
  <2>2. WasGated(job[c])'
    BY <1>2, <2>1 DEF JobOk, WasGated, Same
  <2>3. WasBuilt(job[c])'
    BY <1>1, <1>2, <2>1 DEF JobOk, WasBuilt, Releasing, Built, Over, Same
  <2>4. WasDeployed(job[c])'
    BY <1>2 DEF WasDeployed, Same
  <2>5. /\ job'[c].at \in {"test", "runTest", "build", "deploy", "verify", "done"}
        /\ job'[c].outcome = IF job'[c].at = "done" THEN "ok" ELSE job[c].outcome
    BY <1>2
  <2>6. QED BY <1>1, <1>2, <2>1, <2>2, <2>3, <2>4, <2>5, Forward
<1>4. QED BY <1>1, <1>3, DiskTyped, OnwardsGoes DEF Positions

LEMMA DeployDockerGoes ==
  ASSUME Inv, NEW c \in Callers, DeployDocker(c), Unrecorded
  PROVE  Goes(c)
<1>1. /\ TypeOK /\ Busy(c) /\ ~At(c, "commit")
      /\ job[c].at = "deploy" /\ UNCHANGED <<wiring, tree, brokenTest, bin>>
      /\ job[c].opts.target = "docker" /\ scripts' \subseteq {"build", "docker"}
  BY DiskTyped DEF DeployDocker, Busy, At, Opts, Inv
<1>2. CASE Fails(c)
  <2>1. live' \in [local : Overlay \cup {None}, docker : Overlay \cup {None}]
    <3>1. CASE UNCHANGED live
      BY <1>1, <3>1, DiskTyped
    <3>2. CASE live' = [live EXCEPT !.docker = None]
      BY <1>1, <3>2, DiskTyped
    <3>3. CASE live' = [live EXCEPT !.docker = tree]
      BY <1>1, <3>3, DiskTyped
    <3>4. QED BY <3>1, <3>2, <3>3 DEF DeployDocker
  <2>2. QED BY <1>1, <1>2, <2>1, DiskTyped, FailsGoes
<1>3. CASE live' = [live EXCEPT !.docker = tree] /\ Onwards(c, job[c], "verify")
  <2>1. /\ live' \in [local : Overlay \cup {None}, docker : Overlay \cup {None}]
        /\ live'.docker = tree
    BY <1>1, <1>3, DiskTyped
  <2>2. QED BY <1>1, <1>3, <2>1, ShippedGoes
<1>4. QED BY <1>2, <1>3 DEF DeployDocker

LEMMA DeployScriptGoes ==
  ASSUME Inv, NEW c \in Callers, DeployScript(c), Unrecorded
  PROVE  Goes(c)
<1>1. /\ TypeOK /\ Busy(c) /\ ~At(c, "commit")
      /\ job[c].at = "deploy" /\ job[c].opts.target = "script"
      /\ UNCHANGED <<wiring, tree, brokenTest, scripts, bin, live>>
  BY DEF DeployScript, Busy, At, Opts, Inv, disk
<1>2. CASE Onwards(c, job[c], "verify")
  BY <1>1, <1>2, DiskTyped, ShippedGoes
<1>3. CASE Fails(c)
  BY <1>1, <1>3, DiskTyped, FailsGoes
<1>4. QED BY <1>2, <1>3 DEF DeployScript

LEMMA VerifyGoes ==
  ASSUME Inv, NEW c \in Callers, Verify(c), Unrecorded
  PROVE  Goes(c)
<1>1. /\ TypeOK /\ Busy(c) /\ ~At(c, "commit") /\ job[c].at = "verify" /\ job[c] \in Job
      /\ UNCHANGED <<wiring, tree, brokenTest, scripts, bin, live, compiled>>
      /\ UNCHANGED <<log, carried, tidy>>
  BY JobTyped DEF Verify, Busy, At, Unrecorded, Inv, disk, wiring
<1>2. CASE Onwards(c, job[c], "done")
  <2>1. /\ job'[c].at = "done" /\ Same(job[c], job'[c]) /\ job'[c].todo = job[c].todo
        /\ job'[c].outcome = "ok"
        /\ job'[c].gated = job[c].gated /\ job'[c].stale = job[c].stale
    BY <1>1, <1>2, OnwardsTyped DEF Positions
  <2>2. ASSUME job[c].alone PROVE JobOk(job[c])'
    <3>1. JobOk(job[c])
      BY <1>1, <2>2 DEF Inv, InOrder
    <3>2. WasGated(job[c])'
      BY <1>1, <2>1, <3>1 DEF JobOk, WasGated, Same
    <3>3. WasBuilt(job[c])' /\ WasDeployed(job[c])'
      BY <1>1, <2>1, <3>1 DEF JobOk, WasBuilt, WasDeployed, Releasing, Built, Deployed, Over, Same
    <3>4. /\ job'[c].at \in {"test", "runTest", "build", "deploy", "verify", "done"}
          /\ job'[c].outcome = IF job'[c].at = "done" THEN "ok" ELSE job[c].outcome
      BY <2>1
    <3>5. QED BY <1>1, <2>1, <3>1, <3>2, <3>3, <3>4, Forward
  <2>3. QED BY <1>1, <1>2, <2>2, DiskTyped, OnwardsGoes DEF Positions
<1>3. CASE Fails(c)
  BY <1>1, <1>3, DiskTyped, FailsGoes
<1>4. QED BY <1>2, <1>3 DEF Verify

-----------------------------------------------------------------------------
(* Rolling back *)

\* A call that is no release claims nothing but what a rollback restored.
LEMMA AsideGoes ==
  ASSUME Inv, NEW c \in Callers, Busy(c), UNCHANGED <<wiring, brokenTest, scripts>>, Unrecorded,
         job' \in [Callers -> Job], \A d \in Callers \ {c} : job'[d] = job[d],
         Same(job[c], job'[c]), job'[c].todo = job[c].todo,
         job[c].at \in {"restore", "rebuild", "relaunch"},
         job'[c].at \in {"rebuild", "relaunch", "done"},
         tree' \in Overlay, bin' \in Overlay \cup {None},
         live' \in [local : Overlay \cup {None}, docker : Overlay \cup {None}],
         job[c].alone /\ JobOk(job[c]) => WasRestored(job[c])'
  PROVE  Goes(c)
<1>1. TypeOK'
  BY DEF Inv, TypeOK, wiring, Unrecorded
<1>2. ASSUME job[c].alone PROVE JobOk(job[c])'
  <2>1. JobOk(job[c]) /\ ~Releasing(job[c])
    BY <1>2 DEF Inv, InOrder, JobOk, Placed, At
  <2>2. ~Releasing(job'[c])
    BY <2>1 DEF Releasing, Same
  <2>3. Placed(job[c])'
    BY <2>1, <2>2 DEF JobOk, Placed, Same, Releasing, Touched
  <2>4. Written(job[c])' /\ WasGated(job[c])' /\ WasBuilt(job[c])' /\ WasDeployed(job[c])'
    BY <2>2 DEF Written, WasGated, WasBuilt, WasDeployed, Releasing
  <2>5. QED BY <1>2, <2>1, <2>3, <2>4 DEF JobOk
<1>3. QED BY <1>1, <1>2 DEF Goes, Busy, At, Same

\* What a rolling back step changes of its call: where it is, and its outcome.
LEMMA MovedTyped ==
  ASSUME TypeOK, NEW c \in Callers, NEW pos \in Positions, NEW out \in Outcomes,
         job' = [job EXCEPT ![c].at = pos, ![c].outcome = out]
  PROVE  /\ job' \in [Callers -> Job] /\ \A d \in Callers \ {c} : job'[d] = job[d]
         /\ Same(job[c], job'[c]) /\ job'[c].todo = job[c].todo
         /\ job'[c].at = pos /\ job'[c].outcome = out /\ job'[c].stale = job[c].stale
<1> DEFINE k == [job[c] EXCEPT !.at = pos, !.outcome = out]
<1>1. k \in Job
  BY JobTyped DEF Job
<1>2. Same(job[c], k) /\ k.todo = job[c].todo /\ k.at = pos /\ k.outcome = out
      /\ k.stale = job[c].stale
  BY JobTyped DEF Job, Same
<1>3. job' = [job EXCEPT ![c] = k]
  OBVIOUS
<1> HIDE DEF k
<1>4. job'[c] = k /\ \A d \in Callers \ {c} : job'[d] = job[d]
  BY <1>3 DEF TypeOK
<1>5. QED BY <1>1, <1>2, <1>3, <1>4 DEF TypeOK

LEMMA RestoreGoes ==
  ASSUME Inv, NEW c \in Callers, Restore(c), Unrecorded
  PROVE  Goes(c)
<1>1. /\ TypeOK /\ Busy(c) /\ ~At(c, "commit") /\ job[c].at = "restore"
      /\ UNCHANGED <<wiring, brokenTest, scripts, bin, live>>
  BY DEF Restore, Busy, At, Inv
<1>2. CASE nested /\ tree' = Restored /\ job' = [job EXCEPT ![c].at = "rebuild"]
  <2> DEFINE out == job[c].outcome
  <2>1. job' = [job EXCEPT ![c].at = "rebuild", ![c].outcome = out] /\ out \in Outcomes
    BY <1>1, <1>2, JobTyped DEF TypeOK, Job
  <2> HIDE DEF out
  <2>2. /\ job' \in [Callers -> Job] /\ \A d \in Callers \ {c} : job'[d] = job[d]
        /\ Same(job[c], job'[c]) /\ job'[c].todo = job[c].todo /\ job'[c].at = "rebuild"
    BY <1>1, <2>1, MovedTyped DEF Positions
  <2>3. tree' \in Overlay /\ AllPristine'
    <3>1. index = NoPatches
      BY <1>2 DEF Inv, Unbranched
    <3>2. tree' = [f \in Files |-> IF f \in Tracked THEN Pristine ELSE tree[f]]
      BY <1>2, <3>1 DEF Restored, ResetTree, InGit, NoPatches
    <3>3. QED BY <1>1, <3>2, DiskTyped, LocalRunnerAssumption DEF Overlay, AllPristine
  <2>4. WasRestored(job[c])'
    BY <2>2, <2>3 DEF WasRestored
  <2>5. QED BY <1>1, <2>2, <2>3, <2>4, DiskTyped, AsideGoes
<1>3. CASE UNCHANGED tree /\ Fails(c)
  BY <1>1, <1>3, DiskTyped, FailsGoes
<1>4. QED BY <1>2, <1>3 DEF Restore

LEMMA RebuildGoes ==
  ASSUME Inv, NEW c \in Callers, Rebuild(c), Unrecorded
  PROVE  Goes(c)
<1>1. /\ TypeOK /\ Busy(c) /\ ~At(c, "commit") /\ job[c].at = "rebuild" /\ job[c] \in Job
      /\ UNCHANGED <<wiring, tree, brokenTest, scripts, live, compiled>>
  BY JobTyped DEF Rebuild, BuildDefault, Busy, At, Inv, disk, wiring
<1>2. ASSUME NEW j \in Job, Same(job[c], j), j.todo = job[c].todo, j.outcome = job[c].outcome,
             Onwards(c, j, "relaunch"), bin' \in Overlay \cup {None},
             j.stale \/ bin' = (IF compiled THEN tree ELSE bin)
      PROVE  Goes(c)
  <2>1. /\ job' \in [Callers -> Job] /\ \A d \in Callers \ {c} : job'[d] = job[d]
        /\ job'[c].at = "relaunch" /\ Same(job[c], job'[c]) /\ job'[c].todo = job[c].todo
        /\ job'[c].outcome = job[c].outcome /\ job'[c].stale = j.stale
    BY <1>1, <1>2, OnwardsTyped DEF Positions, Same
  <2>2. ASSUME JobOk(job[c]) PROVE WasRestored(job[c])'
    BY <1>1, <1>2, <2>1, <2>2 DEF JobOk, WasRestored, AllPristine
  <2>3. QED BY <1>1, <1>2, <2>1, <2>2, DiskTyped, AsideGoes
<1>3. CASE bin' = (IF compiled THEN tree ELSE bin) /\ Onwards(c, job[c], "relaunch")
  BY <1>1, <1>2, <1>3, DiskTyped DEF Same
<1>4. CASE UNCHANGED bin /\ Onwards(c, [job[c] EXCEPT !.stale = TRUE], "relaunch")
  <2> DEFINE j == [job[c] EXCEPT !.stale = TRUE]
  <2>1. /\ j \in Job /\ Same(job[c], j) /\ j.todo = job[c].todo
        /\ j.outcome = job[c].outcome /\ j.stale
    BY <1>1 DEF Job, Same
  <2>2. Onwards(c, j, "relaunch")
    BY <1>4
  <2> HIDE DEF j
  <2>3. QED BY <1>1, <1>2, <1>4, <2>1, <2>2, DiskTyped
<1>5. CASE /\ job' = [job EXCEPT ![c].at = "done", ![c].outcome = "failed"]
           /\ UNCHANGED <<wiring, disk, bin, live>>
  <2>1. /\ job' \in [Callers -> Job] /\ \A d \in Callers \ {c} : job'[d] = job[d]
        /\ Same(job[c], job'[c]) /\ job'[c].todo = job[c].todo
        /\ job'[c].at = "done" /\ job'[c].outcome = "failed"
    BY <1>1, <1>5, MovedTyped DEF Positions, Outcomes
  <2>2. WasRestored(job[c])' /\ UNCHANGED bin
    BY <1>5, <2>1 DEF WasRestored
  <2>3. QED BY <1>1, <2>1, <2>2, DiskTyped, AsideGoes
<1>6. QED BY <1>3, <1>4, <1>5 DEF Rebuild, BuildDefault

LEMMA RelaunchGoes ==
  ASSUME Inv, NEW c \in Callers, Relaunch(c), Unrecorded
  PROVE  Goes(c)
<1>1. /\ TypeOK /\ Busy(c) /\ ~At(c, "commit") /\ job[c].at = "relaunch"
      /\ UNCHANGED <<wiring, tree, brokenTest, scripts, bin, compiled>>
  BY DEF Relaunch, Busy, At, Inv, disk, wiring
<1>2. CASE /\ Launched # None /\ live' = [live EXCEPT !.local = Launched]
           /\ job' = [job EXCEPT ![c].at = "done",
                                 ![c].outcome = IF @ = "failed" THEN "rolledBack" ELSE "ok"]
  <2> DEFINE out == IF job[c].outcome = "failed" THEN "rolledBack" ELSE "ok"
  <2>1. job' = [job EXCEPT ![c].at = "done", ![c].outcome = out] /\ out \in Outcomes
    BY <1>1, <1>2 DEF TypeOK, Outcomes
  <2>2. out = "rolledBack" => job[c].outcome = "failed"
    OBVIOUS
  <2> HIDE DEF out
  <2>3. /\ job' \in [Callers -> Job] /\ \A d \in Callers \ {c} : job'[d] = job[d]
        /\ Same(job[c], job'[c]) /\ job'[c].todo = job[c].todo
        /\ job'[c].at = "done" /\ job'[c].outcome = out /\ job'[c].stale = job[c].stale
    BY <1>1, <2>1, MovedTyped DEF Positions
  <2>4. /\ live' \in [local : Overlay \cup {None}, docker : Overlay \cup {None}]
        /\ live'.local = IF compiled THEN bin ELSE tree
    BY <1>1, <1>2, DiskTyped DEF Launched
  <2>5. ASSUME JobOk(job[c]) PROVE WasRestored(job[c])'
    BY <1>1, <2>2, <2>3, <2>4, <2>5 DEF JobOk, WasRestored, AllPristine
  <2>6. QED BY <1>1, <2>3, <2>4, <2>5, DiskTyped, AsideGoes
<1>3. CASE /\ live' = [live EXCEPT !.local = None]
           /\ job' = [job EXCEPT ![c].at = "done", ![c].outcome = "failed"]
  <2>1. /\ job' \in [Callers -> Job] /\ \A d \in Callers \ {c} : job'[d] = job[d]
        /\ Same(job[c], job'[c]) /\ job'[c].todo = job[c].todo
        /\ job'[c].at = "done" /\ job'[c].outcome = "failed"
    BY <1>1, <1>3, MovedTyped DEF Positions, Outcomes
  <2>2. WasRestored(job[c])'
    BY <2>1 DEF WasRestored
  <2>3. live' \in [local : Overlay \cup {None}, docker : Overlay \cup {None}]
    BY <1>1, <1>3, DiskTyped
  <2>4. QED BY <1>1, <2>1, <2>2, <2>3, DiskTyped, AsideGoes
<1>4. QED BY <1>2, <1>3 DEF Relaunch

\* Every step of a call keeps it in order.
LEMMA ProceedGoes ==
  ASSUME Inv, NEW c \in Callers, Proceed(c), Unrecorded
  PROVE  Goes(c)
BY CheckoutGoes, WriteFileGoes, SkipGateGoes, RunGateGoes, GenerateTestGoes,
   RunGeneratedGoes, GenerateScriptGoes, RunBuildScriptGoes, BuildGoes, RestartGoes,
   DeployDockerGoes, DeployScriptGoes, VerifyGoes, RestoreGoes, RebuildGoes, RelaunchGoes,
   ApplyFailsGoes DEF Proceed

LEMMA ProceedKeeps ==
  ASSUME Inv, NEW c \in Callers, Proceed(c), Unrecorded
  PROVE  Inv'
BY ProceedGoes, GoesKeeps

-----------------------------------------------------------------------------
(* A call returns *)

\* The record taken of a call that leaves the tree tidy is the tree, and it is live.
LEMMA TidyFinish ==
  ASSUME Inv, NEW c \in Callers, Finish(c), tidy'
  PROVE  tree = carried' /\ Shipped(c) = tree
<1>1. /\ TypeOK /\ Busy(c) /\ ~At(c, "commit") /\ job[c].at = "done" /\ Undisturbed(c)
      /\ Tidies(c) \/ (tidy /\ Records(c))
  BY DEF Finish, Tidies, Busy, At, Inv
<1>2. JobOk(job[c])
  BY <1>1 DEF Undisturbed, Inv, InOrder
<1>3. /\ Over(job[c]) /\ Releasing(job[c]) /\ job[c].opts.apply /\ job[c].opts.build
      /\ job[c].opts.deploy
      /\ \/ job[c].opts.target = "local" /\ ~job[c].stale
         \/ job[c].opts.target = "docker"
  BY <1>1, <1>2 DEF Tidies, Records, RecordsRevert, Undisturbed, Over, Releasing, JobOk, Placed,
                    Opts
<1>4. /\ \A f \in Touched(job[c].patches) : tree[f] = job[c].patches[f]
      /\ job[c].todo = {} /\ Wrote(job[c]) = Touched(job[c].patches)
  BY <1>2, <1>3 DEF JobOk, Placed, Written, Applied, Wrote
<1>5. Shipped(c) = tree
  BY <1>2, <1>3 DEF JobOk, WasDeployed, Deployed, Shipped, Opts
<1>6. tree \in Overlay /\ job[c].patches \in Overlay /\ carried \in Overlay
  BY <1>1, JobTyped DEF TypeOK
<1>7. CASE Tidies(c)
  <2>1. RecordsRevert(c) /\ ~Records(c)
    BY <1>7 DEF Tidies, RecordsRevert, Records
  <2>2. carried' = job[c].patches
    BY <2>1 DEF Finish, Log!Revert
  <2>3. \A f \in Files : f \notin Tracked \/ index[f] # Pristine => tree[f] = job[c].patches[f]
    BY <1>7 DEF Tidies
  <2>4. \A f \in InGit \ Touched(job[c].patches) : tree[f] = index[f]
    BY <1>2, <1>3, <1>4, <2>1 DEF JobOk, Written, Applied, RecordsRevert
  <2>5. \A f \in Files : tree[f] = job[c].patches[f]
    BY <1>4, <2>3, <2>4 DEF Touched, InGit
  <2>6. tree = job[c].patches
    BY <1>6, <2>5 DEF Overlay
  <2>7. QED BY <1>5, <2>2, <2>6
<1>8. CASE tidy /\ Records(c)
  <2>1. /\ carried' = Log!Merge(carried, job[c].patches) /\ job[c].kind = "run"
    BY <1>8 DEF Finish, Records, Log!Deploy
  <2>2. \A f \in Files \ Touched(job[c].patches) : tree[f] = carried[f]
    BY <1>2, <1>4, <1>8, <2>1 DEF JobOk, Written
  <2>3. \A f \in Files : tree[f] = carried'[f]
    BY <1>4, <2>1, <2>2 DEF Touched, Log!Merge
  <2>4. tree = carried'
    BY <1>6, <2>1, <2>3 DEF Overlay, Log!Merge
  <2>5. QED BY <1>5, <2>4
<1>9. QED BY <1>1, <1>7, <1>8

LEMMA IdleTyped == Idle \in Job /\ Idle.at = "idle"
<1>1. (CHOOSE o \in Options : TRUE) \in Option
  BY LocalRunnerAssumption
<1>2. NoPatches \in Overlay
  BY DEF NoPatches, Overlay
<1>3. QED BY <1>1, <1>2, LocalRunnerAssumption DEF Idle, Job, Kinds, Positions, Outcomes

LEMMA FinishKeeps ==
  ASSUME Inv, NEW c \in Callers, Finish(c)
  PROVE  Inv'
<1>1. /\ TypeOK /\ Busy(c)
      /\ UNCHANGED <<nested, compiled, generator, index, tree, brokenTest, scripts, bin, live>>
  BY DEF Finish, Return, CommitFixes, Busy, At, Inv, wiring, disk
<1>2. /\ job' \in [Callers -> Job] /\ \A d \in Callers \ {c} : job'[d] = job[d]
      /\ job'[c] = Idle \/ (job'[c].at = "commit" /\ job'[c].alone = job[c].alone)
  <2>1. CASE Return(c)
    BY <1>1, <2>1, IdleTyped DEF Return, TypeOK
  <2>2. CASE CommitFixes(c)
    <3> DEFINE k == [job[c] EXCEPT !.at = "commit"]
    <3>1. k \in Job /\ k.at = "commit" /\ k.alone = job[c].alone
      BY <1>1, JobTyped DEF Job, Positions
    <3>2. job' = [job EXCEPT ![c] = k]
      BY <2>2 DEF CommitFixes
    <3> HIDE DEF k
    <3>3. QED BY <1>1, <3>1, <3>2 DEF TypeOK
  <2>3. QED BY <2>1, <2>2 DEF Finish
<1>3. log' \subseteq Overlay /\ carried' \in Overlay
  <2>1. log \subseteq Overlay /\ carried \in Overlay /\ job[c].patches \in Overlay
    BY <1>1, JobTyped DEF TypeOK
  <2>2. Log!Merge(carried, job[c].patches) \in Overlay
    BY <2>1 DEF Log!Merge, Overlay
  <2>3. CASE Records(c)
    BY <2>1, <2>2, <2>3 DEF Finish, Log!Deploy
  <2>4. CASE ~Records(c) /\ RecordsRevert(c)
    BY <2>1, <2>4 DEF Finish, Log!Revert
  <2>5. CASE ~Records(c) /\ ~RecordsRevert(c)
    BY <2>1, <2>5 DEF Finish
  <2>6. QED BY <2>3, <2>4, <2>5
<1>4. tidy' \in BOOLEAN
  BY DEF Finish
<1>5. TypeOK'
  BY <1>1, <1>2, <1>3, <1>4 DEF TypeOK
<1>6. /\ Busy(c)' => At(c, "commit")' /\ job'[c].alone = job[c].alone
      /\ \A d \in Callers \ {c} : Busy(d)' => Busy(d) /\ job'[d].alone = job[d].alone
  BY <1>2, IdleTyped DEF Busy, At
<1>7. Solo'
  BY <1>1, <1>6 DEF Inv, Solo
<1>8. InOrder'
  BY <1>1, <1>6 DEF Inv, Solo, InOrder
<1>9. TidyTreeIsCarried'
  BY <1>1, TidyFinish DEF Inv, TidyTreeIsCarried
<1>10. Unbranched'
  <2>1. At(c, "commit")' => ~nested
    BY <1>1, <1>2, IdleTyped DEF Finish, Return, CommitFixes, TypeOK, At
  <2>2. QED BY <1>1, <1>2, <2>1 DEF Inv, Unbranched, At
<1>11. QED BY <1>5, <1>7, <1>8, <1>9, <1>10 DEF Inv

-----------------------------------------------------------------------------
(* A call begins, or the source root changes *)

LEMMA BeginKeeps ==
  ASSUME Inv, NEW c \in Callers, NEW kind \in Kinds, NEW o \in Option, NEW patches \in Overlay,
         NEW pos, Begin(c, kind, o, patches, pos), Unrecorded,
         kind \in {"run", "instrument"} => pos = Afterwards(o, "start"),
         kind \in {"revert", "reset"} => pos = "checkout",
         kind = "revert" => o.apply /\ o.build /\ o.deploy
  PROVE  Inv'
<1> DEFINE n == NewJob(c, kind, o, patches, pos)
<1>1. /\ TypeOK /\ ~Busy(c) /\ UNCHANGED <<log, carried, tidy>>
      /\ UNCHANGED <<nested, compiled, generator, index, tree, brokenTest, scripts, bin, live>>
      /\ job' = [d \in Callers |-> IF d = c THEN n ELSE [job[d] EXCEPT !.alone = FALSE]]
  BY DEF Begin, Unrecorded, Inv, wiring, disk
<1>2. /\ pos \in {"checkout", "apply", "test", "build", "deploy", "done"}
      /\ kind \in {"run", "instrument"} => pos # "checkout" /\ (o.apply => pos = "apply")
      /\ pos \in {"deploy", "done"} => ~o.build
      /\ pos = "done" => ~o.deploy
  <2>1. CASE kind \in {"run", "instrument"}
    BY <2>1, AfterwardsStage
  <2>2. CASE kind \in {"revert", "reset"}
    BY <2>2
  <2>3. QED BY <2>1, <2>2 DEF Kinds
<1>3. /\ n \in Job /\ n.kind = kind /\ n.at = pos /\ n.opts = o /\ n.patches = patches
      /\ n.todo = Touched(patches) /\ n.outcome = (IF pos = "done" THEN "ok" ELSE "none")
      /\ n.gated = None /\ n.alone = \A d \in Callers \ {c} : ~Busy(d)
  BY <1>2, LocalRunnerAssumption DEF NewJob, Job, Positions, Outcomes, Touched
<1> HIDE DEF n
<1>4. job'[c] = n /\ \A d \in Callers \ {c} : job'[d] = [job[d] EXCEPT !.alone = FALSE]
  BY <1>1
<1>5. ASSUME NEW d \in Callers \ {c}
      PROVE  job'[d] \in Job /\ ~job'[d].alone /\ job'[d].at = job[d].at
  <2>1. job[d] \in Job /\ job'[d] = [job[d] EXCEPT !.alone = FALSE]
    BY <1>1, <1>4, JobTyped
  <2>2. QED BY <2>1 DEF Job
<1>6. TypeOK'
  <2>1. job' \in [Callers -> Job]
    BY <1>1, <1>3, <1>4, <1>5
  <2>2. QED BY <1>1, <2>1 DEF TypeOK
<1>7. Solo'
  <2>1. ASSUME NEW d \in Callers, NEW e \in Callers, Busy(d)', job'[d].alone, Busy(e)'
        PROVE  d = e
    <3>1. d = c
      BY <1>5, <2>1
    <3>2. \A g \in Callers \ {c} : ~Busy(g)'
      BY <1>3, <1>4, <1>5, <2>1, <3>1 DEF Busy, At
    <3>3. QED BY <2>1, <3>1, <3>2
  <2>2. QED BY <2>1 DEF Solo
<1>8. ASSUME n.alone PROVE JobOk(job[c])'
  <2>1. Placed(job[c])'
    BY <1>2, <1>3, <1>4 DEF Placed, Releasing, Applied, Over, Kinds
  <2>2. Wrote(job[c])' = {}
    BY <1>3, <1>4 DEF Wrote, Touched
  <2>3. tidy => tree = carried
    BY <1>1, <1>3, <1>8 DEF Inv, TidyTreeIsCarried
  <2>4. kind = "revert" => pos = "checkout"
    OBVIOUS
  <2>5. Written(job[c])'
    BY <1>1, <1>3, <1>4, <2>2, <2>3, <2>4 DEF Written, Applied, Over
  <2>6. WasGated(job[c])' /\ WasBuilt(job[c])' /\ WasDeployed(job[c])' /\ WasRestored(job[c])'
    BY <1>2, <1>3, <1>4 DEF WasGated, WasBuilt, WasDeployed, WasRestored, Built, Deployed, Over
  <2>7. QED BY <2>1, <2>5, <2>6 DEF JobOk
<1>9. InOrder'
  BY <1>4, <1>5, <1>8 DEF InOrder
<1>10. TidyTreeIsCarried'
  <2>1. Busy(c)' /\ ~At(c, "commit")'
    BY <1>2, <1>3, <1>4 DEF Busy, At
  <2>2. QED BY <2>1 DEF TidyTreeIsCarried
<1>11. Unbranched'
  BY <1>1, <1>2, <1>3, <1>4, <1>5 DEF Inv, Unbranched, At
<1>12. QED BY <1>6, <1>7, <1>9, <1>10, <1>11 DEF Inv

LEMMA CallsKeep ==
  ASSUME Inv, NEW c \in Callers, NEW o \in Options, Calls(c, o)
  PROVE  Inv'
<1>1. o \in Option /\ PatchSets \subseteq Overlay /\ Unrecorded
  BY LocalRunnerAssumption DEF Calls
<1>2. CASE \E patches \in PatchSets : Remediate(c, o, patches)
  BY <1>1, <1>2, BeginKeeps DEF Remediate, Kinds
<1>3. CASE \E patches \in PatchSets : ApplyInstrumentation(c, o, patches)
  BY <1>1, <1>3, BeginKeeps DEF ApplyInstrumentation, Kinds
<1>4. CASE Reset(c, o)
  <2>1. NoPatches \in Overlay
    BY DEF NoPatches, Overlay
  <2>2. QED BY <1>1, <1>4, <2>1, BeginKeeps DEF Reset, Kinds
<1>5. CASE BeginRevert(c, o)
  <2> DEFINE r == RevertOptions(o)
  <2>1. r \in Option /\ r.apply /\ r.build /\ r.deploy
    BY <1>1 DEF RevertOptions, Option
  <2>2. PICK target \in log : Revert(c, o, target)
    BY <1>5 DEF BeginRevert
  <2>3. target \in Overlay
    BY DEF Inv, TypeOK
  <2>4. Begin(c, "revert", r, target, "checkout")
    BY <2>2 DEF Revert
  <2> HIDE DEF r
  <2>5. QED BY <1>1, <2>1, <2>3, <2>4, BeginKeeps DEF Kinds
<1>6. QED BY <1>2, <1>3, <1>4, <1>5 DEF Calls

LEMMA RetargetKeeps ==
  ASSUME Inv, NEW binary \in BOOLEAN, NEW found \in SUBSET {"build", "docker"},
         NEW clone \in Branches, Retarget(binary, found, clone)
  PROVE  Inv'
<1>1. /\ TypeOK /\ UNCHANGED <<log, carried, live>> /\ tidy' = FALSE
      /\ nested' = FALSE /\ compiled' = binary /\ UNCHANGED generator
      /\ tree' = clone /\ index' = clone /\ brokenTest' = FALSE /\ scripts' = found
      /\ bin' = None
      /\ job' = [c \in Callers |-> [job[c] EXCEPT !.alone = FALSE]]
  BY DEF Retarget, SetSourceRoot, Inv
<1>2. \A c \in Callers : job'[c] \in Job /\ ~job'[c].alone
  BY <1>1, JobTyped DEF Job
<1>3. clone \in Overlay
  BY LocalRunnerAssumption
<1>4. TypeOK'
  BY <1>1, <1>2, <1>3 DEF TypeOK
<1>5. Solo' /\ InOrder' /\ TidyTreeIsCarried' /\ Unbranched'
  BY <1>1, <1>2 DEF Solo, InOrder, TidyTreeIsCarried, Unbranched
<1>6. QED BY <1>4, <1>5 DEF Inv

-----------------------------------------------------------------------------
(* The Git source works on the tree *)

\* A commit disturbs calls that another call overlaps, and those only: the call whose
\* fixes it commits is still in progress.
LEMMA CommitKeeps ==
  ASSUME Inv, NEW c \in Callers, Commit(c)
  PROVE  Inv'
<1>1. PICK working \in Branches, fix \in Overlay : CommitPatch(c, working, fix)
  BY DEF Commit
<1>2. /\ TypeOK /\ At(c, "commit") /\ Busy(c) /\ ~nested
      /\ UNCHANGED <<nested, compiled, generator, brokenTest, scripts, bin, live, job>>
      /\ UNCHANGED <<log, carried>> /\ tidy' = (tidy /\ tree' = tree)
  BY <1>1 DEF Commit, CommitPatch, Inv, Unbranched, Busy, At
<1>3. working \in Overlay /\ tree \in Overlay
  BY <1>2, DiskTyped, LocalRunnerAssumption
<1>4. Forced(working) \in Overlay
  BY <1>3 DEF Forced, Overlay
<1>5. \A under \in Overlay, fs \in SUBSET Files : Overlaid(under, fix, fs) \in Overlay
  BY DEF Overlaid, Overlay
<1>6. tree' \in Overlay /\ index' \in Overlay
  BY <1>1, <1>3, <1>4, <1>5 DEF CommitPatch, Touched
<1>7. TypeOK'
  BY <1>2, <1>6 DEF TypeOK
<1>8. Solo'
  BY <1>2 DEF Inv, Solo, Busy, At
<1>9. InOrder'
  BY <1>2 DEF Inv, Solo, InOrder, Busy, At
<1>10. TidyTreeIsCarried' /\ Unbranched'
  BY <1>2 DEF Inv, TidyTreeIsCarried, Unbranched, Busy, At
<1>11. QED BY <1>7, <1>8, <1>9, <1>10 DEF Inv

LEMMA EndCommitsKeeps ==
  ASSUME Inv, NEW c \in Callers, EndCommits(c)
  PROVE  Inv'
<1>1. /\ TypeOK /\ At(c, "commit") /\ job' = [job EXCEPT ![c] = Idle]
      /\ UNCHANGED <<nested, compiled, generator, index, tree, brokenTest, scripts, bin, live>>
      /\ UNCHANGED <<log, carried, tidy>>
  BY DEF EndCommits, Return, Unrecorded, Inv, wiring, disk
<1>2. /\ job' \in [Callers -> Job] /\ job'[c] = Idle
      /\ \A d \in Callers \ {c} : job'[d] = job[d]
  BY <1>1, IdleTyped DEF TypeOK
<1>3. TypeOK'
  BY <1>1, <1>2 DEF TypeOK
<1>4. ~Busy(c)' /\ ~At(c, "commit")'
  BY <1>2, IdleTyped DEF Busy, At
<1>5. \A d \in Callers : Busy(d)' => d # c /\ job'[d] = job[d] /\ Busy(d)
  BY <1>2, <1>4 DEF Busy, At
<1>6. Solo'
  BY <1>5 DEF Inv, Solo
<1>7. InOrder'
  <2>1. ASSUME NEW d \in Callers, Busy(d)', ~At(d, "commit")', job'[d].alone
        PROVE  FALSE
    BY <1>1, <1>5, <2>1 DEF Inv, Solo, Busy, At
  <2>2. QED BY <2>1 DEF InOrder
<1>8. TidyTreeIsCarried'
  <2>1. (\A d \in Callers : Busy(d)' => At(d, "commit")')
          => \A d \in Callers : Busy(d) => At(d, "commit")
    BY <1>1, <1>2 DEF Busy, At
  <2>2. QED BY <1>1, <2>1 DEF Inv, TidyTreeIsCarried
<1>9. Unbranched'
  BY <1>1, <1>2, <1>4 DEF Inv, Unbranched, At
<1>10. QED BY <1>3, <1>6, <1>7, <1>8, <1>9 DEF Inv

LEMMA SwitchKeeps ==
  ASSUME Inv, NEW branch \in Branches, Switch(branch)
  PROVE  Inv'
<1>1. /\ TypeOK /\ ~nested
      /\ UNCHANGED <<nested, compiled, generator, brokenTest, scripts, bin, live, log, carried>>
      /\ tidy' = (tidy /\ tree' = tree)
      /\ tree' = [f \in Files |-> IF index[f] = branch[f] THEN tree[f] ELSE branch[f]]
      /\ index' = branch
      /\ job' = [c \in Callers |-> [job[c] EXCEPT !.alone = FALSE]]
  BY DEF Switch, SwitchBranch, Inv
<1>2. \A c \in Callers : job'[c] \in Job /\ ~job'[c].alone /\ job'[c].at = job[c].at
  BY <1>1, JobTyped DEF Job
<1>3. branch \in Overlay /\ tree \in Overlay
  BY <1>1, DiskTyped, LocalRunnerAssumption
<1>4. tree' \in Overlay
  BY <1>1, <1>3 DEF Overlay
<1>5. TypeOK'
  BY <1>1, <1>2, <1>3, <1>4 DEF TypeOK
<1>6. Solo' /\ InOrder' /\ Unbranched'
  BY <1>1, <1>2 DEF Solo, InOrder, Unbranched
<1>7. TidyTreeIsCarried'
  BY <1>1, <1>2 DEF Inv, TidyTreeIsCarried, Busy, At
<1>8. QED BY <1>5, <1>6, <1>7 DEF Inv

-----------------------------------------------------------------------------
(* Theorems *)

LEMMA InitInv == ReleaseInit => Inv
<1> SUFFICES ASSUME ReleaseInit PROVE Inv
  OBVIOUS
<1>1. NoPatches \in Overlay /\ carried = NoPatches /\ tree = NoPatches
  BY DEF ReleaseInit, Init, Log!Init, Log!NoPatches, NoPatches, Overlay
<1>2. \A c \in Callers : job[c] = Idle /\ ~Busy(c)
  BY IdleTyped DEF ReleaseInit, Init, Busy, At
<1>3. TypeOK
  <2>1. job \in [Callers -> Job]
    BY IdleTyped DEF ReleaseInit, Init
  <2>2. /\ bin \in Overlay \cup {None}
        /\ live \in [local : Overlay \cup {None}, docker : Overlay \cup {None}]
    BY <1>1 DEF ReleaseInit, Init
  <2>3. QED BY <1>1, <2>1, <2>2 DEF TypeOK, ReleaseInit, Init, Log!Init
<1>4. Unbranched
  BY <1>2 DEF ReleaseInit, Init, Unbranched, Busy, At
<1>5. QED BY <1>1, <1>2, <1>3, <1>4 DEF Inv, Solo, InOrder, TidyTreeIsCarried

LEMMA StutterKeeps == Inv /\ UNCHANGED releaseVars => Inv'
<1> SUFFICES ASSUME Inv, UNCHANGED releaseVars PROVE Inv'
  OBVIOUS
<1>1. UNCHANGED <<nested, compiled, generator, index, tree, brokenTest, scripts, bin, live, job>>
  BY DEF releaseVars, vars, wiring, disk
<1>2. UNCHANGED <<log, carried, tidy>>
  BY DEF releaseVars
<1>3. TypeOK' /\ Solo' /\ TidyTreeIsCarried' /\ Unbranched'
  BY <1>1, <1>2 DEF Inv, TypeOK, Solo, TidyTreeIsCarried, Unbranched, Busy, At
<1>4. InOrder'
  BY <1>1, <1>2 DEF Inv, InOrder, JobOk, Placed, Written, WasGated, WasBuilt, WasDeployed,
                    WasRestored, Wrote, AllPristine, InGit, Busy, At
<1>5. QED BY <1>3, <1>4 DEF Inv

LEMMA Inductive == ReleaseSpec => []Inv
<1>1. Inv /\ [ReleaseNext]_releaseVars => Inv'
  BY ProceedKeeps, FinishKeeps, CommitKeeps, EndCommitsKeeps, CallsKeep, SwitchKeeps,
     RetargetKeeps, StutterKeeps DEF ReleaseNext
<1>2. QED BY InitInv, <1>1, PTL DEF ReleaseSpec

\* The state stays well formed: no call is ever at a stage, or has tried a repair more
\* often, than the runner of internal/democtl allows.
THEOREM TypeCorrect == ReleaseSpec => []TypeOK
<1>1. Inv => TypeOK
  BY DEF Inv
<1>2. QED BY Inductive, <1>1, PTL

\* What an undisturbed Remediate passed through its gate is what it built and what is
\* live when it reports success, every patch of its set included.
THEOREM ShippedGated == ReleaseSpec => []ShippedWasGated
<1>1. ASSUME Inv, NEW c \in Callers, At(c, "done"), job[c].kind = "run", job[c].outcome = "ok",
             Undisturbed(c), Opts(c).deploy, job[c].gated # None
      PROVE  /\ Shipped(c) = job[c].gated
             /\ \A f \in Touched(job[c].patches) : Shipped(c)[f] = job[c].patches[f]
  <2>1. JobOk(job[c]) /\ Over(job[c]) /\ Releasing(job[c])
    BY <1>1 DEF Inv, InOrder, Undisturbed, Busy, At, Over, Releasing
  <2>2. Shipped(c) = tree
    BY <1>1, <2>1 DEF JobOk, WasDeployed, Deployed, Shipped, Undisturbed, Opts
  <2>3. tree = job[c].gated
    BY <1>1, <2>1 DEF JobOk, WasGated
  <2>4. \A f \in Touched(job[c].patches) : tree[f] = job[c].patches[f]
    BY <1>1, <2>1 DEF JobOk, Placed, Written, Applied, Wrote, Undisturbed, Opts
  <2>5. QED BY <2>2, <2>3, <2>4
<1>2. Inv => ShippedWasGated
  BY <1>1 DEF ShippedWasGated
<1>3. QED BY Inductive, <1>2, PTL

\* The rollback of ApplyInstrumentation, once reported, has restored every tracked file
\* and, if its rebuild replaced the binary, has the restored source running, if no other
\* call interfered.
THEOREM RollbacksRestore == ReleaseSpec => []RollbackRestores
<1>1. Inv => RollbackRestores
  BY DEF Inv, InOrder, JobOk, WasRestored, AllPristine, RollbackRestores, Busy, At
<1>2. QED BY Inductive, <1>1, PTL

\* The version record and the tree of the local runner agree whenever no call is at a
\* stage, as long as every change of the tree was recorded: the commits of pipelineRun
\* and of the engine, switched branches, a re-pointed source, resets, instrumentation
\* and what failed half-way are what ends this, and the next exact revert restores it.
THEOREM TidyCarried == ReleaseSpec => []TidyTreeIsCarried
<1>1. Inv => TidyTreeIsCarried
  BY DEF Inv
<1>2. QED BY Inductive, <1>1, PTL

\* And what a deploy or a revert records then is what it left running.
THEOREM TidyLive == ReleaseSpec => TidyVersionIsLive
<1>1. Inv => [\A c \in Callers : Finish(c) /\ tidy' => Shipped(c) = carried']_releaseVars
  BY TidyFinish
<1>2. QED BY Inductive, <1>1, PTL DEF TidyVersionIsLive

\* A revert that nobody interfered with has every file its version patched as that
\* version has it, and every other file git knows as the checked out branch has it.
THEOREM RevertsRestoreTracked == ReleaseSpec => []RevertRestoresTracked
<1>1. ASSUME Inv, NEW c \in Callers, At(c, "done"), RecordsRevert(c), Undisturbed(c)
      PROVE  /\ \A f \in Touched(job[c].patches) : tree[f] = job[c].patches[f]
             /\ \A f \in InGit \ Touched(job[c].patches) : tree[f] = index[f]
  <2>1. JobOk(job[c])
    BY <1>1 DEF Inv, InOrder, Undisturbed, Busy, At
  <2>2. /\ Releasing(job[c]) /\ Over(job[c]) /\ job[c].opts.apply
        /\ job[c].kind = "revert"
    BY <1>1 DEF RecordsRevert, Undisturbed, At, Over, Releasing, Opts
  <2>3. Wrote(job[c]) = Touched(job[c].patches)
    BY <2>1, <2>2 DEF JobOk, Placed, Applied, Wrote
  <2>4. QED BY <2>1, <2>2, <2>3 DEF JobOk, Written, Applied
<1>2. Inv => RevertRestoresTracked
  BY <1>1 DEF RevertRestoresTracked
<1>3. QED BY Inductive, <1>2, PTL

\* So a revert is exact, as the comment of versionRevert promises, where both of what
\* breaks the promise are absent: files git does not know, and a fix branch checked out.
THEOREM RevertsExact ==
  ASSUME Files \subseteq Tracked
  PROVE  ReleaseSpec => [](index = NoPatches => RevertIsExact)
<1>1. ASSUME TypeOK, RevertRestoresTracked, index = NoPatches,
             NEW c \in Callers, At(c, "done"), RecordsRevert(c), Undisturbed(c)
      PROVE  tree = job[c].patches
  <2>1. tree \in Overlay /\ job[c].patches \in Overlay
    BY <1>1, JobTyped, DiskTyped
  <2>2. ASSUME NEW f \in Files PROVE tree[f] = job[c].patches[f]
    BY <1>1, <2>2 DEF RevertRestoresTracked, InGit, Touched, NoPatches
  <2>3. QED BY <2>1, <2>2 DEF Overlay
<1>2. TypeOK /\ RevertRestoresTracked => (index = NoPatches => RevertIsExact)
  BY <1>1 DEF RevertIsExact
<1>3. QED BY TypeCorrect, RevertsRestoreTracked, <1>2, PTL

-----------------------------------------------------------------------------
(* The releases keep to the log *)

\* A revert in progress is to a version the store has.
TargetsRecorded ==
  \A c \in Callers : Busy(c) /\ job[c].kind = "revert" => job[c].patches \in log

\* A call stays what it is, and a revert keeps its version: only an instrumentation is
\* repaired.
LEMMA TargetKept ==
  ASSUME TypeOK, NEW c \in Callers, Proceed(c), NEW d \in Callers
  PROVE  /\ job'[d].kind = job[d].kind
         /\ job[d].kind = "revert" => job'[d].patches = job[d].patches
<1> DEFINE Kept == /\ job'[d].kind = job[d].kind
                   /\ job[d].kind = "revert" => job'[d].patches = job[d].patches
<1> SUFFICES Kept
  OBVIOUS
<1>1. job \in [Callers -> Job] /\ job[c] \in Job
  BY DEF TypeOK
<1>2. ASSUME Fails(c) PROVE Kept
  BY <1>1, <1>2 DEF Fails, Job
<1>3. ASSUME NEW j, j \in Job, j.kind = job[c].kind, j.patches = job[c].patches, NEW pos,
             Onwards(c, j, pos)
      PROVE  Kept
  BY <1>1, <1>3 DEF Onwards, Job
<1>4. ASSUME NEW pos, Onwards(c, job[c], pos) PROVE Kept
  BY <1>1, <1>3, <1>4
<1>5. ASSUME NEW fixed, Repair(c, fixed) PROVE Kept
  BY <1>1, <1>5 DEF Repair, Job
<1>6. ASSUME StageFails(c) PROVE Kept
  BY <1>2, <1>5, <1>6 DEF StageFails
<1>7. ASSUME NEW seen \in Overlay \cup {None}, GatePasses(c, seen) PROVE Kept
  <2> DEFINE j == [job[c] EXCEPT !.gated = seen]
  <2>1. j \in Job /\ j.kind = job[c].kind /\ j.patches = job[c].patches
    BY <1>1 DEF Job
  <2>2. Onwards(c, j, Afterwards(Opts(c), "test"))
    BY <1>7 DEF GatePasses
  <2> HIDE DEF j
  <2>3. QED BY <1>3, <2>1, <2>2
<1>8. ASSUME NEW pos, Launch(c, pos) PROVE Kept
  BY <1>2, <1>4, <1>8 DEF Launch
<1>9. CASE Checkout(c)
  BY <1>2, <1>4, <1>9 DEF Checkout
<1>10. CASE \E f \in Files : WriteFile(c, f)
  <2>1. PICK f \in Files : WriteFile(c, f)
    BY <1>10
  <2> DEFINE rest == job[c].todo \ {f}
             j    == [job[c] EXCEPT !.todo = rest]
  <2>2. j \in Job /\ j.kind = job[c].kind /\ j.patches = job[c].patches
    BY <1>1 DEF Job
  <2>3. \E pos : Onwards(c, j, pos)
    BY <2>1 DEF WriteFile
  <2> HIDE DEF j
  <2>4. QED BY <1>3, <2>2, <2>3
<1>11. CASE ApplyFails(c) \/ SkipGate(c) \/ RunGate(c)
  BY <1>2, <1>6, <1>7, <1>11 DEF ApplyFails, SkipGate, RunGate, TypeOK
<1>12. CASE GenerateTest(c)
  <2>1. ASSUME NEW wrote \in BOOLEAN, Onwards(c, [job[c] EXCEPT !.wrote = wrote], "runTest")
        PROVE  Kept
    <3> DEFINE j == [job[c] EXCEPT !.wrote = wrote]
    <3>1. j \in Job /\ j.kind = job[c].kind /\ j.patches = job[c].patches
      BY <1>1 DEF Job
    <3> HIDE DEF j
    <3>2. QED BY <1>3, <2>1, <3>1 DEF j
  <2>2. QED BY <1>2, <1>12, <2>1 DEF GenerateTest
<1>13. CASE RunGenerated(c)
  <2>1. ASSUME MayRegenerate(c), Onwards(c, [job[c] EXCEPT !.attempt = @ + 1], "test")
        PROVE  Kept
    <3> DEFINE j == [job[c] EXCEPT !.attempt = @ + 1]
    <3>1. j \in Job /\ j.kind = job[c].kind /\ j.patches = job[c].patches
      BY <1>1, <2>1, LocalRunnerAssumption DEF MayRegenerate, Job
    <3> HIDE DEF j
    <3>2. QED BY <1>3, <2>1, <3>1 DEF j
  <2>2. QED BY <1>2, <1>7, <1>13, <2>1 DEF RunGenerated, TypeOK
<1>14. CASE GenerateScript(c) \/ DeployDocker(c) \/ DeployScript(c) \/ Verify(c) \/ Restart(c)
  BY <1>2, <1>4, <1>8, <1>14 DEF GenerateScript, DeployDocker, DeployScript, Verify, Restart
<1>15. ASSUME NEW pos, Onwards(c, [job[c] EXCEPT !.stale = TRUE], pos) PROVE Kept
  <2> DEFINE j == [job[c] EXCEPT !.stale = TRUE]
  <2>1. j \in Job /\ j.kind = job[c].kind /\ j.patches = job[c].patches
    BY <1>1 DEF Job
  <2>2. Onwards(c, j, pos)
    BY <1>15
  <2> HIDE DEF j
  <2>3. QED BY <1>3, <2>1, <2>2
<1>16. CASE RunBuildScript(c) \/ Build(c)
  BY <1>2, <1>4, <1>6, <1>15, <1>16 DEF RunBuildScript, Build, BuildDefault
<1>17. ASSUME NEW pos, NEW outcome, \/ job' = [job EXCEPT ![c].at = pos]
                                    \/ job' = [job EXCEPT ![c].at = pos, ![c].outcome = outcome]
       PROVE  Kept
  BY <1>1, <1>17 DEF Job
<1>18. CASE Restore(c) \/ Rebuild(c) \/ Relaunch(c)
  BY <1>2, <1>4, <1>8, <1>15, <1>17, <1>18 DEF Restore, Rebuild, Relaunch, BuildDefault
<1>19. QED
  BY <1>9, <1>10, <1>11, <1>12, <1>13, <1>14, <1>16, <1>18 DEF Proceed

\* A version that a revert took from the store is there as long as it is restored.
LEMMA TargetsStep ==
  ASSUME Inv, TargetsRecorded, [ReleaseNext]_releaseVars
  PROVE  TargetsRecorded'
<1> USE DEF TargetsRecorded, Busy, At
<1>1. TypeOK
  BY DEF Inv
<1>2. CASE \E c \in Callers : Proceed(c) /\ Unrecorded
  <2>1. PICK c \in Callers : Proceed(c) /\ Unrecorded
    BY <1>2
  <2>2. \A d \in Callers : /\ job'[d].kind = job[d].kind
                           /\ job[d].kind = "revert" => job'[d].patches = job[d].patches
    BY <1>1, <2>1, TargetKept
  <2>3. Goes(c)
    BY <2>1, ProceedGoes
  <2>4. \A d \in Callers : Busy(d)' => Busy(d)
    BY <2>3 DEF Goes
  <2>5. QED BY <2>1, <2>2, <2>4 DEF Unrecorded
<1>3. CASE \E c \in Callers : Finish(c) \/ Commit(c) \/ EndCommits(c)
  <2>1. PICK c \in Callers : Finish(c) \/ Commit(c) \/ EndCommits(c)
    BY <1>3
  <2>2. log \subseteq log'
    BY <2>1 DEF Finish, Commit, EndCommits, Unrecorded, Log!Deploy, Log!Revert
  <2>3. CASE Return(c)
    <3>1. job'[c] = Idle /\ \A d \in Callers \ {c} : job'[d] = job[d]
      BY <1>1, <2>3 DEF Return, TypeOK
    <3>2. QED BY <2>2, <3>1, IdleTyped
  <2>4. CASE CommitFixes(c)
    <3>1. job'[c].kind = "run" /\ \A d \in Callers \ {c} : job'[d] = job[d]
      BY <1>1, <2>4, JobTyped DEF CommitFixes, TypeOK, Job
    <3>2. QED BY <2>2, <3>1
  <2>5. CASE Commit(c)
    BY <2>2, <2>5 DEF Commit, CommitPatch
  <2>6. QED BY <2>1, <2>3, <2>4, <2>5 DEF Finish, EndCommits
<1>4. CASE \E c \in Callers, o \in Options : Calls(c, o)
  <2>1. PICK c \in Callers, o \in Options : Calls(c, o)
    BY <1>4
  <2>2. ASSUME NEW kind, NEW opts, NEW patches, NEW pos, Begin(c, kind, opts, patches, pos),
               kind = "revert" => patches \in log, UNCHANGED log
        PROVE  TargetsRecorded'
    <3>1. job'[c].kind = kind /\ job'[c].patches = patches
      BY <2>2 DEF Begin, NewJob
    <3>2. ASSUME NEW d \in Callers \ {c}
          PROVE  job'[d].at = job[d].at /\ job'[d].kind = job[d].kind
                   /\ job'[d].patches = job[d].patches
      <4>1. job'[d] = [job[d] EXCEPT !.alone = FALSE]
        BY <2>2 DEF Begin
      <4>2. QED BY <1>1, <4>1, JobTyped DEF Job
    <3>3. QED BY <2>2, <3>1, <3>2
  <2>3. log' = log
    BY <2>1 DEF Calls, Unrecorded
  <2>4. CASE \E patches \in PatchSets : Remediate(c, o, patches)
    BY <2>2, <2>3, <2>4 DEF Remediate
  <2>5. CASE \E patches \in PatchSets : ApplyInstrumentation(c, o, patches)
    BY <2>2, <2>3, <2>5 DEF ApplyInstrumentation
  <2>6. CASE Reset(c, o)
    BY <2>2, <2>3, <2>6 DEF Reset
  <2>7. CASE BeginRevert(c, o)
    BY <2>2, <2>3, <2>7 DEF BeginRevert, Revert
  <2>8. QED BY <2>1, <2>4, <2>5, <2>6, <2>7 DEF Calls
<1>5. CASE \/ \E branch \in Branches : Switch(branch)
           \/ \E binary \in BOOLEAN, found \in SUBSET {"build", "docker"}, clone \in Branches :
                Retarget(binary, found, clone)
  <2>1. /\ log' = log
        /\ job' = [c \in Callers |-> [job[c] EXCEPT !.alone = FALSE]]
    BY <1>5 DEF Retarget, SetSourceRoot, Switch, SwitchBranch
  <2>2. ASSUME NEW c \in Callers
        PROVE  job'[c].at = job[c].at /\ job'[c].kind = job[c].kind
                 /\ job'[c].patches = job[c].patches
    BY <1>1, <2>1, JobTyped DEF Job
  <2>3. QED BY <2>1, <2>2
<1>6. CASE UNCHANGED releaseVars
  BY <1>6 DEF releaseVars, vars
<1>7. QED BY <1>2, <1>3, <1>4, <1>5, <1>6 DEF ReleaseNext

\* Only calls that return reach the log.
LEMMA LogStep ==
  ASSUME Inv, TargetsRecorded, [ReleaseNext]_releaseVars
  PROVE  [Log!Next]_<<log, carried>>
<1>1. CASE \E c \in Callers : Finish(c)
  <2>1. PICK c \in Callers : Finish(c)
    BY <1>1
  <2>2. TypeOK /\ Busy(c) /\ ~At(c, "commit") /\ job[c].patches \in Overlay
    BY <2>1, JobTyped DEF Inv, Finish, Busy, At
  <2>3. job[c].patches \in Log!Overlay
    BY <2>2 DEF Overlay, Log!Overlay
  <2>4. CASE Records(c)
    BY <2>1, <2>3, <2>4 DEF Finish, Log!Next
  <2>5. CASE ~Records(c) /\ RecordsRevert(c)
    BY <2>1, <2>2, <2>5 DEF Finish, RecordsRevert, TargetsRecorded, Log!Next
  <2>6. CASE ~Records(c) /\ ~RecordsRevert(c)
    BY <2>1, <2>6 DEF Finish
  <2>7. QED BY <2>4, <2>5, <2>6
<1>2. CASE ~\E c \in Callers : Finish(c)
  BY <1>2 DEF ReleaseNext, Calls, Unrecorded, Commit, EndCommits, Switch, Retarget, releaseVars
<1>3. QED BY <1>1, <1>2

\* However the calls of the local runner interleave, what their handlers record is a
\* log of overlays: deploys on top of what is carried, reverts to what was recorded.
THEOREM ReleasesKeepLog == ReleaseSpec => Log!Spec
<1>1. ReleaseInit => TargetsRecorded /\ Log!Init
  <2>1. ReleaseInit => \A c \in Callers : ~Busy(c)
    BY IdleTyped DEF ReleaseInit, Init, Busy, At
  <2>2. QED BY <2>1 DEF ReleaseInit, TargetsRecorded
<1>2. Inv /\ TargetsRecorded /\ [ReleaseNext]_releaseVars =>
        TargetsRecorded' /\ [Log!Next]_<<log, carried>>
  BY TargetsStep, LogStep
<1>3. QED BY <1>1, <1>2, Inductive, PTL DEF ReleaseSpec, Log!Spec

\* What the deployed source is taken to carry is always something that was recorded:
\* no call overlapping another leaves the next deploy on top of anything else.
THEOREM CarriedIsRecorded == ReleaseSpec => [](carried \in log \cup {NoPatches})
<1> DEFINE Recorded == carried \in log \cup {NoPatches}
<1>1. Log!Init => Recorded
  BY DEF Log!Init, Log!NoPatches, NoPatches
<1>2. Recorded /\ [Log!Next]_<<log, carried>> => Recorded'
  BY DEF Log!Next, Log!Deploy, Log!Revert, Log!Resume, Log!NoPatches, NoPatches
<1>3. QED BY <1>1, <1>2, ReleasesKeepLog, PTL DEF Log!Spec
=============================================================================
