--------------------------------- MODULE Fixes ---------------------------------
(***************************************************************************)
(* Where fixes wait: the patch store (internal/tools/patch.go) with the    *)
(* latest proposal, the proposal of each problem and the batch, and the    *)
(* artifact store (internal/artifact), the status of each problem, with    *)
(* the handlers of cmd/server that work on both.  Each call of a store     *)
(* takes its lock once, so an action is one such call, and handlers        *)
(* interleave between them.  The stores are mirrored to disk under the     *)
(* same lock; a restart loses what is not.                                 *)
(***************************************************************************)
EXTENDS Naturals, Sequences

CONSTANTS
  Problems,    \* what may be investigated
  Files,       \* what a patch may be of
  Callers,     \* who may have a request in progress
  None         \* no proposal

\* A proposal is of one file (its whole content); by, for the properties only, is the
\* problem whose investigation made it.
Proposal == [file : Files, by : Problems]
Overalls == {"none", "blank", "investigated", "staged", "running", "deployed", "failed",
             "confirmed"}

ASSUME FixesAssumption == None \notin Proposal

VARIABLES
  latest,      \* PatchStore.latest
  proposed,    \* PatchStore.proposed
  kept,        \* its mirror on disk
  staged,      \* PatchStore.staged, oldest first
  overall,     \* of each problem's artifact; "none" if there is no artifact
  keptOverall, \* its mirror on disk
  job,         \* the request of each caller
  lost         \* history: problems whose run a restart cut short

patchStore == <<latest, proposed, kept, staged>>
artifacts  == <<overall, keptOverall>>
vars       == <<patchStore, artifacts, job, lost>>

Staging == [problem : Problems, prop : Proposal]
Positions == {"idle", "agent", "record", "recordFailed", "setProposed", "recordStaged", "branch",
              "forApply", "recordRunning", "remediate", "recordRun", "artsReset"}

Jobs == [at : Positions,
        ids : SUBSET Problems,          \* the problems the request is for
         patches : SUBSET Proposal,      \* opts.Patches, or what Investigate returned
         own : Proposal \cup {None},     \* the last proposal of this investigation
         alone : BOOLEAN,                \* no other investigation overlaps this one
         ok : BOOLEAN]                   \* the result of the run

Idle == [at |-> "idle", ids |-> {}, patches |-> {}, own |-> None, alone |-> FALSE, ok |-> FALSE]

At(c, pos) == job[c].at = pos
Moves(c, pos) == job' = [job EXCEPT ![c].at = pos]
Returns(c) == job' = [job EXCEPT ![c] = Idle]
Starts(c, pos, ids, patches) ==
  job' = [job EXCEPT ![c] = [Idle EXCEPT !.at = pos, !.ids = ids, !.patches = patches]]

Optional(prop) == IF prop = None THEN {} ELSE {prop}

-----------------------------------------------------------------------------
(* The artifact store: get, the recorders, stamp *)

\* Every recorder stamps, and so persists, the artifacts it changes.
Mark(ids, status) ==
  /\ overall' = [p \in Problems |-> IF p \in ids THEN status ELSE overall[p]]
  /\ keptOverall' = [p \in Problems |-> IF p \in ids THEN status ELSE keptOverall[p]]

\* AppendStep and RecordFixBranch leave the status, but get makes a missing artifact.
MarkKnown(ids) == Mark({p \in ids : overall[p] = "none"}, "blank")

-----------------------------------------------------------------------------
(* investigate, investigateStream, ask, the engine's investigations *)

Investigates(c) == job[c].at \in {"agent", "record", "recordFailed", "setProposed"}

Investigate(c, p) ==
  /\ At(c, "idle")
  /\ job' = [d \in Callers |->
               IF d = c THEN [Idle EXCEPT !.at = "agent", !.ids = {p},
                                          !.alone = \A e \in Callers : ~Investigates(e)]
               ELSE IF Investigates(d) THEN [job[d] EXCEPT !.alone = FALSE] ELSE job[d]]
  /\ UNCHANGED <<patchStore, artifacts, lost>>

\* Slip: a pending proposal is not replaced by a later one.
Proposes_KeepsFirst(c, prop) ==
  /\ At(c, "agent") /\ prop.by \in job[c].ids
  /\ latest' = IF latest = None THEN prop ELSE latest
  /\ job' = [job EXCEPT ![c].own = prop]
  /\ UNCHANGED <<proposed, kept, staged, artifacts, lost>>

\* The propose_patch tool: the agent may call it several times, or never.
Proposes(c, prop) ==
  /\ At(c, "agent") /\ prop.by \in job[c].ids
  /\ latest' = prop
  /\ job' = [job EXCEPT ![c].own = prop]
  /\ UNCHANGED <<proposed, kept, staged, artifacts, lost>>

\* Investigate returns the store's latest proposal, whoever made it.  An error, an
\* answer that does not parse and a mere question record nothing, but the engine
\* records that it gave up.
AgentEnds(c) ==
  /\ At(c, "agent")
  /\ \/ job' = [job EXCEPT ![c].at = "record", ![c].patches = Optional(latest)]
     \/ Returns(c)
     \/ Moves(c, "recordFailed")
  /\ UNCHANGED <<patchStore, artifacts, lost>>

\* A handler keeps the proposal for staging.  The engine does not: it drops it, or
\* runs it (here as a batch of one).
RecordInvestigation(c) ==
  /\ \/ /\ At(c, "record") /\ Mark(job[c].ids, "investigated")
        /\ \/ Moves(c, "setProposed") \/ Returns(c)
           \/ job[c].patches # {} /\ Starts(c, "recordRunning", job[c].ids, job[c].patches)
     \/ At(c, "recordFailed") /\ Mark(job[c].ids, "failed") /\ Returns(c)
  /\ UNCHANGED <<patchStore, lost>>

SetProposed(c) ==
  /\ At(c, "setProposed")
  /\ \E recorded \in [Problems -> Proposal \cup {None}] :
       /\ \A p \in Problems :
            IF p \in job[c].ids /\ job[c].patches # {} THEN recorded[p] \in job[c].patches
                                                       ELSE recorded[p] = proposed[p]
       /\ proposed' = recorded
  /\ kept' = [p \in Problems |-> IF p \in job[c].ids THEN proposed'[p] ELSE kept[p]]
  /\ Returns(c)
  /\ UNCHANGED <<latest, staged, artifacts, lost>>

-----------------------------------------------------------------------------
(* The batch: stagePatch, unstagePatch, clearPatches *)

\* Slip: a patch staged again joins the one it replaces.
Without_Nothing(p) == staged

Without(p) ==
  LET at == {i \in DOMAIN staged : staged[i].problem = p}
      i  == CHOOSE i \in at : TRUE
  IN  IF at = {} THEN staged
      ELSE SubSeq(staged, 1, i - 1) \o SubSeq(staged, i + 1, Len(staged))

Stage(c, p) ==
  /\ At(c, "idle") /\ proposed[p] # None
  /\ staged' = Append(Without(p), [problem |-> p, prop |-> proposed[p]])
  /\ Starts(c, "recordStaged", {p}, {})
  /\ UNCHANGED <<latest, proposed, kept, artifacts, lost>>

RecordStaged(c) ==
  /\ At(c, "recordStaged")
  /\ Mark(job[c].ids, "staged")
  /\ Moves(c, "branch")
  /\ UNCHANGED <<patchStore, lost>>

\* maybeCreateFixBranch, commitFixes: the branch, if one is made, is recorded.
RecordFixBranch(c) ==
  /\ At(c, "branch")
  /\ MarkKnown(job[c].ids) \/ UNCHANGED artifacts
  /\ Returns(c)
  /\ UNCHANGED <<patchStore, lost>>

Unstage(p) ==
  /\ staged' = Without(p)
  /\ UNCHANGED <<latest, proposed, kept, artifacts, job, lost>>

ClearStaged ==
  /\ staged' = <<>>
  /\ UNCHANGED <<latest, proposed, kept, artifacts, job, lost>>

-----------------------------------------------------------------------------
(* pipelineRun, remediate, the engine's remediate *)

\* StagedForApply: of two patches of a file, the later staged.
StagedForApply ==
  {staged[i].prop : i \in {i \in 1..Len(staged) :
     \A j \in 1..Len(staged) : j > i => staged[j].prop.file # staged[i].prop.file}}

\* The batch is read once for whom it fixes ...
PipelineRun(c) ==
  /\ At(c, "idle") /\ staged # <<>>
  /\ Starts(c, "forApply", {staged[i].problem : i \in 1..Len(staged)}, {})
  /\ UNCHANGED <<patchStore, artifacts, lost>>

\* ... and once more for what to apply.
ReadPatches(c) ==
  /\ At(c, "forApply")
  /\ job' = [job EXCEPT ![c].at = "recordRunning", ![c].patches = StagedForApply]
  /\ UNCHANGED <<patchStore, artifacts, lost>>

RemediateOne(c, p) ==
  /\ At(c, "idle")
  /\ Starts(c, "recordRunning", {p}, Optional(latest))
  /\ UNCHANGED <<patchStore, artifacts, lost>>

RecordRunning(c) ==
  /\ At(c, "recordRunning")
  /\ Mark(job[c].ids, "running")
  /\ Moves(c, "remediate")
  /\ lost' = lost \ job[c].ids
  /\ UNCHANGED patchStore

AppendStep(c) ==
  /\ At(c, "remediate") \/ At(c, "recordRun")
  /\ MarkKnown(job[c].ids)
  /\ UNCHANGED <<patchStore, job, lost>>

\* Remediate falls back to the latest proposal, and fails to apply nothing.
Remediate(c) ==
  /\ At(c, "remediate")
  /\ LET given == IF job[c].patches = {} THEN Optional(latest) ELSE job[c].patches IN
       \E ok \in BOOLEAN :
         /\ ok => given # {}
         /\ job' = [job EXCEPT ![c].at = "recordRun", ![c].patches = given, ![c].ok = ok]
  /\ UNCHANGED <<patchStore, artifacts, lost>>

\* Slip: only a run that succeeded is attributed to its problems.
RecordRun_SuccessOnly(c) ==
  /\ At(c, "recordRun")
  /\ Mark(IF job[c].ok THEN job[c].ids ELSE {}, "deployed")
  /\ IF job[c].ok THEN Moves(c, "branch") ELSE Returns(c)
  /\ UNCHANGED <<patchStore, lost>>

RecordRun(c) ==
  /\ At(c, "recordRun")
  /\ Mark(job[c].ids, IF job[c].ok THEN "deployed" ELSE "failed")
  /\ IF job[c].ok THEN Moves(c, "branch") ELSE Returns(c)
  /\ UNCHANGED <<patchStore, lost>>

-----------------------------------------------------------------------------
(* The git source, the resets, a restart *)

\* ConfirmFix merges a fix branch: RecordConfirmed.
RecordConfirmed(p) ==
  /\ overall[p] # "none"
  /\ Mark({p}, "confirmed")
  /\ UNCHANGED <<patchStore, job, lost>>

\* Slip: the files of the proposals stay.
ResetPatches_KeepsDisk ==
  latest' = None /\ proposed' = [p \in Problems |-> None] /\ staged' = <<>> /\ UNCHANGED kept

\* PatchStore.Reset
ResetPatches ==
  /\ latest' = None /\ staged' = <<>>
  /\ proposed' = [p \in Problems |-> None] /\ kept' = proposed'

\* gitSourceConfigSet, when the repository or its branch changes.
ChangeTarget == ResetPatches /\ UNCHANGED <<artifacts, job, lost>>

\* ResetSource discards the pending proposal: testReset, isolate.
ClearLatest == latest' = None /\ UNCHANGED <<proposed, kept, staged, artifacts, job, lost>>

DemoReset(c) ==
  /\ At(c, "idle") /\ ResetPatches
  /\ Starts(c, "artsReset", {}, {})
  /\ UNCHANGED <<artifacts, lost>>

ResetArtifacts(c) ==
  /\ At(c, "artsReset")
  /\ overall' = [p \in Problems |-> "none"] /\ keptOverall' = overall'
  /\ lost' = {}
  /\ Returns(c)
  /\ UNCHANGED patchStore

\* NewPatchStore and artifact.New read back what is on disk.
Load == latest' = None /\ staged' = <<>> /\ proposed' = kept' /\ overall' = keptOverall'

\* clear: CLEAR_ISSUES_ON_START, with which main empties PATCH_OUTPUT_DIR, where both
\* stores are mirrored, before it opens them.
Restart(clear) ==
  /\ kept' = IF clear THEN [p \in Problems |-> None] ELSE kept
  /\ keptOverall' = IF clear THEN [p \in Problems |-> "none"] ELSE keptOverall
  /\ Load
  /\ job' = [c \in Callers |-> Idle]
  /\ lost' = {p \in Problems : overall'[p] = "running"}

-----------------------------------------------------------------------------
Init ==
  /\ latest = None /\ staged = <<>>
  /\ proposed = [p \in Problems |-> None] /\ kept = proposed
  /\ overall = [p \in Problems |-> "none"] /\ keptOverall = overall
  /\ job = [c \in Callers |-> Idle]
  /\ lost = {}

Requests(c) ==
  \/ \E p \in Problems : Investigate(c, p) \/ Stage(c, p) \/ RemediateOne(c, p)
  \/ PipelineRun(c)
  \/ DemoReset(c)

Proceed(c) ==
  \/ AgentEnds(c) \/ RecordInvestigation(c) \/ SetProposed(c)
  \/ RecordStaged(c) \/ RecordFixBranch(c)
  \/ ReadPatches(c) \/ RecordRunning(c) \/ Remediate(c) \/ RecordRun(c)
  \/ ResetArtifacts(c)

Next ==
  \/ \E c \in Callers : Requests(c)
  \/ \E c \in Callers : Proceed(c)
  \/ \E c \in Callers, prop \in Proposal : Proposes(c, prop)
  \/ \E c \in Callers : AppendStep(c)
  \/ \E p \in Problems : Unstage(p) \/ RecordConfirmed(p)
  \/ ClearStaged
  \/ ChangeTarget
  \/ ClearLatest
  \/ \E clear \in BOOLEAN : Restart(clear)

Spec == Init /\ [][Next]_vars

\* Every request that has begun goes on: the server runs each in a goroutine, and
\* every call the agent, a build or git makes ends at its timeout.
Fairness == \A c \in Callers : WF_vars(Proceed(c))

-----------------------------------------------------------------------------
(* Properties *)

TypeOK ==
  /\ latest \in Proposal \cup {None}
  /\ proposed \in [Problems -> Proposal \cup {None}]
  /\ kept \in [Problems -> Proposal \cup {None}]
  /\ staged \in Seq(Staging)
  /\ \A i, j \in DOMAIN staged : staged[i].problem = staged[j].problem => i = j
  /\ overall \in [Problems -> Overalls] /\ keptOverall \in [Problems -> Overalls]
  /\ job \in [Callers -> Jobs]
  /\ lost \subseteq Problems

\* An investigation that no other overlaps, and that proposed something, takes its own
\* last proposal to its problem, or none if a reset discarded it: never what an earlier
\* investigation left behind.
OwnProposal ==
  \A c \in Callers :
    job[c].at \in {"record", "setProposed"} /\ job[c].alone /\ job[c].own # None
    => job[c].patches \subseteq {job[c].own}

\* A restart that is not told to clear neither loses what could be staged nor brings back
\* what was discarded ("otherwise they rehydrate on restart").
RestartKeepsProposals == [][Restart(FALSE) => proposed' = proposed]_vars

\* A problem is shown as running only while a run of it is in progress, whatever runs,
\* resets and investigations come and go meanwhile; a restart is the one exception.
RunningHasARun ==
  \A p \in Problems :
    overall[p] = "running" =>
      \/ p \in lost
      \/ \E c \in Callers : p \in job[c].ids /\ job[c].at \in {"remediate", "recordRun"}

\* And it does not stay so.
RunsEnd == \A p \in Problems : overall[p] = "running" ~> overall[p] # "running" \/ p \in lost

\* SetProposed "records the proposal produced when investigating a specific problem".
ProposalIsOwn == \A p \in Problems : proposed[p] # None => proposed[p].by = p
=============================================================================
