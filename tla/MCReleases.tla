------------------------------ MODULE MCReleases ------------------------------
(***************************************************************************)
(* Releases on small instances: the number of calls in a behaviour is      *)
(* capped, and so are the steps of the Git source (a clone connected, a    *)
(* branch switched, a fix committed), which meet one runner call at most   *)
(* and cost one together.                                                  *)
(***************************************************************************)
EXTENDS Releases, TLC

CONSTANTS MaxCalls, MaxGit, f1, f2, fix

VARIABLES calls, git, setting   \* setting: the pipeline settings, as stored

Only(f) == [NoPatches EXCEPT ![f] = fix]

Full == [apply |-> TRUE, test |-> TRUE, build |-> TRUE, deploy |-> TRUE, tests |-> "auto",
         scenario |-> "seeded", builds |-> "default", target |-> "local"]
Docker == [Full EXCEPT !.scenario = "other", !.builds = "script", !.target = "docker"]
Script == [Full EXCEPT !.tests = "skip", !.target = "script"]

MCOptions == {Full, Docker, Script}

MCBranches == {NoPatches, Only(f1)}

MCPatchSets == {Only(f1), [Only(f1) EXCEPT ![f2] = fix]}

\* The nested Go demo; a Go clone with a build script, deployed in a container; a
\* Python project; a Go clone whose deploy script ships it untested.
Layouts == {<<TRUE, TRUE, {}, Full>>, <<FALSE, TRUE, {"build"}, Docker>>,
            <<TRUE, FALSE, {}, Full>>, <<FALSE, TRUE, {}, Script>>}

MCInit ==
  /\ ReleaseInit /\ generator /\ setting \in Options
  /\ <<nested, compiled, scripts, setting>> \in Layouts
  /\ calls = 0 /\ git = 0

\* How many calls the runner has in progress.
Running == Cardinality({c \in Callers : Busy(c) /\ ~At(c, "commit")})

\* Only in the first call does a build find its file in use.
FileInUseOnce == calls > 1 => \A c \in Callers : job'[c].stale => job[c].stale

Free == UNCHANGED <<calls, git, setting>>

MCNext ==
  \/ (\E c \in Callers : Checkout(c)) /\ Unrecorded /\ Free
  \/ (\E c \in Callers, f \in Files : WriteFile(c, f)) /\ Unrecorded /\ Free
  \/ (\E c \in Callers : ApplyFails(c)) /\ Unrecorded /\ Free
  \/ (\E c \in Callers : SkipGate(c)) /\ Unrecorded /\ Free
  \/ (\E c \in Callers : RunGate(c)) /\ Unrecorded /\ Free
  \/ (\E c \in Callers : GenerateTest(c)) /\ Unrecorded /\ Free
  \/ (\E c \in Callers : RunGenerated(c)) /\ Unrecorded /\ Free
  \/ (\E c \in Callers : GenerateScript(c)) /\ Unrecorded /\ Free
  \/ (\E c \in Callers : RunBuildScript(c)) /\ Unrecorded /\ Free
  \/ (\E c \in Callers : Build(c)) /\ Unrecorded /\ Free /\ FileInUseOnce
  \/ (\E c \in Callers : Restart(c)) /\ Unrecorded /\ Free
  \/ (\E c \in Callers : DeployDocker(c)) /\ Unrecorded /\ Free
  \/ (\E c \in Callers : DeployScript(c)) /\ Unrecorded /\ Free
  \/ (\E c \in Callers : Verify(c)) /\ Unrecorded /\ Free
  \/ (\E c \in Callers : Restore(c)) /\ Unrecorded /\ Free
  \/ (\E c \in Callers : Rebuild(c)) /\ Unrecorded /\ Free /\ FileInUseOnce
  \/ (\E c \in Callers : Relaunch(c)) /\ Unrecorded /\ Free
  \/ (\E c \in Callers : Finish(c)) /\ Free
  \/ (\E c \in Callers : EndCommits(c)) /\ Free
  \/ /\ IF git = 0 THEN calls < MaxCalls ELSE calls + 1 < MaxCalls /\ Running = 0
     /\ calls' = calls + 1 /\ UNCHANGED <<git, setting>>
     /\ \E c \in Callers : Calls(c, setting)
  \/ /\ git < MaxGit /\ Running < 2 /\ calls < MaxCalls
     /\ git' = git + 1 /\ UNCHANGED <<calls, setting>>
     /\ \/ \E c \in Callers : Commit(c)
        \/ \E branch \in Branches : Switch(branch)
        \/ Retarget(TRUE, {}, NoPatches)

MCSpec == MCInit /\ [][MCNext]_<<releaseVars, calls, git, setting>>
=============================================================================
