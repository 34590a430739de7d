------------------------------ MODULE FixesProofs ------------------------------
(***************************************************************************)
(* Proofs about the patch and the artifact store, for every set of         *)
(* problems, files and callers: the state is well formed, `running' is     *)
(* shown of runs in progress only, a restart keeps the proposals, an       *)
(* investigation nobody overlaps brings home its own proposal, and a run   *)
(* applies one patch of a file, the one staged last.                       *)
(***************************************************************************)
EXTENDS Fixes, SequenceTheorems, WellFoundedInduction, TLAPS

-----------------------------------------------------------------------------
(* The batch *)

OnePerProblem(s) == \A i, j \in DOMAIN s : s[i].problem = s[j].problem => i = j

\* Taking one element out of a sequence keeps the others, in order.
LEMMA Removed ==
  ASSUME NEW S, NEW s \in Seq(S), NEW k \in 1..Len(s)
  PROVE  LET r == SubSeq(s, 1, k - 1) \o SubSeq(s, k + 1, Len(s))
         IN  /\ r \in Seq(S) /\ Len(r) = Len(s) - 1
             /\ \A i \in 1..(Len(s) - 1) : r[i] = IF i < k THEN s[i] ELSE s[i + 1]
<1> DEFINE front == SubSeq(s, 1, k - 1)
           back  == SubSeq(s, k + 1, Len(s))
           r     == front \o back
<1>1. Len(s) \in Nat /\ k \in Nat
  OBVIOUS
<1>2. /\ front \in Seq(S) /\ Len(front) = k - 1
      /\ \A i \in 1..(k - 1) : front[i] = s[i]
  BY <1>1
<1>3. /\ back \in Seq(S) /\ Len(back) = Len(s) - k
      /\ \A i \in 1..(Len(s) - k) : back[i] = s[i + k]
  BY <1>1
<1> HIDE DEF front, back
<1>4. /\ r \in Seq(S) /\ Len(r) = Len(front) + Len(back)
      /\ \A i \in 1..(Len(front) + Len(back)) :
           r[i] = IF i <= Len(front) THEN front[i] ELSE back[i - Len(front)]
  <2>1. front \in Seq(S) /\ back \in Seq(S)
    BY <1>2, <1>3
  <2>2. QED BY <2>1, ConcatProperties
<1>5. Len(r) = Len(s) - 1
  BY <1>1, <1>2, <1>3, <1>4
<1> HIDE DEF r
<1>6. ASSUME NEW i \in 1..(Len(s) - 1)
      PROVE  r[i] = IF i < k THEN s[i] ELSE s[i + 1]
  <2>1. Len(front) = k - 1 /\ Len(back) = Len(s) - k /\ i \in 1..(Len(front) + Len(back))
    BY <1>1, <1>2, <1>3
  <2>2. CASE i < k
    <3>1. i \in 1..(k - 1) /\ i <= Len(front)
      BY <1>1, <2>1, <2>2
    <3>2. QED BY <1>2, <1>4, <2>1, <2>2, <3>1
  <2>3. CASE ~(i < k)
    <3>1. /\ i - (k - 1) \in 1..(Len(s) - k) /\ (i - (k - 1)) + k = i + 1
          /\ ~(i <= Len(front))
      BY <1>1, <2>1, <2>3
    <3>2. r[i] = back[i - (k - 1)]
      BY <1>4, <2>1, <3>1
    <3>3. QED BY <1>3, <2>3, <3>1, <3>2
  <2>4. QED BY <2>2, <2>3
<1>7. QED BY <1>4, <1>5, <1>6 DEF r, front, back

\* A problem's patch taken out of the batch leaves one patch of every other at most.
LEMMA WithoutTyped ==
  ASSUME TypeOK, NEW p \in Problems
  PROVE  /\ Without(p) \in Seq(Staging) /\ OnePerProblem(Without(p))
         /\ \A i \in DOMAIN Without(p) : Without(p)[i].problem # p
<1> DEFINE at == {i \in DOMAIN staged : staged[i].problem = p}
           k  == CHOOSE i \in at : TRUE
<1>1. /\ staged \in Seq(Staging) /\ OnePerProblem(staged)
      /\ DOMAIN staged = 1..Len(staged) /\ Len(staged) \in Nat
  BY DEF TypeOK, OnePerProblem
<1>2. CASE at = {}
  BY <1>1, <1>2 DEF Without
<1>3. CASE at # {}
  <2>1. k \in at
    BY <1>3
  <2> HIDE DEF k
  <2>2. k \in 1..Len(staged) /\ staged[k].problem = p
    BY <2>1, <1>1
  <2>3. Without(p) = SubSeq(staged, 1, k - 1) \o SubSeq(staged, k + 1, Len(staged))
    BY <1>3 DEF Without, k
  <2> DEFINE r == Without(p)
  <2>4. /\ r \in Seq(Staging) /\ Len(r) = Len(staged) - 1
        /\ \A i \in 1..Len(r) : r[i] = IF i < k THEN staged[i] ELSE staged[i + 1]
    BY Removed, <1>1, <2>2, <2>3
  <2>5. DOMAIN r = 1..Len(r)
    BY <2>4
  <2> HIDE DEF r, at
  <2>6. ASSUME NEW i \in 1..Len(r)
        PROVE  \E n \in 1..Len(staged) :
                 /\ n # k /\ r[i] = staged[n]
                 /\ n = IF i < k THEN i ELSE i + 1
    BY <1>1, <2>2, <2>4
  <2>7. \A i \in 1..Len(r) : r[i].problem # p
    BY <1>1, <2>2, <2>6 DEF OnePerProblem
  <2>8. OnePerProblem(r)
    <3> SUFFICES ASSUME NEW i \in 1..Len(r), NEW j \in 1..Len(r), r[i].problem = r[j].problem
                 PROVE  i = j
      BY <2>5 DEF OnePerProblem
    <3>1. PICK n \in 1..Len(staged) : r[i] = staged[n] /\ n = IF i < k THEN i ELSE i + 1
      BY <2>6
    <3>2. PICK m \in 1..Len(staged) : r[j] = staged[m] /\ m = IF j < k THEN j ELSE j + 1
      BY <2>6
    <3>3. n = m
      BY <1>1, <3>1, <3>2 DEF OnePerProblem
    <3>4. QED BY <1>1, <2>2, <2>4, <3>1, <3>2, <3>3
  <2>9. QED BY <2>4, <2>5, <2>7, <2>8 DEF r
<1>4. QED BY <1>2, <1>3

-----------------------------------------------------------------------------
(* The state is well formed *)

\* A request is in a position, for problems, with proposals.
LEMMA JobTyped ==
  ASSUME TypeOK, NEW c \in Callers
  PROVE  /\ job[c] \in Jobs
         /\ job[c].at \in Positions /\ job[c].ids \subseteq Problems
         /\ job[c].patches \subseteq Proposal /\ job[c].own \in Proposal \cup {None}
         /\ job[c].alone \in BOOLEAN /\ job[c].ok \in BOOLEAN
BY DEF TypeOK, Jobs

\* Moving on, returning and starting leave every request well formed.
LEMMA MovesTyped ==
  ASSUME TypeOK, NEW c \in Callers, NEW pos \in Positions, Moves(c, pos)
  PROVE  job' \in [Callers -> Jobs]
BY DEF TypeOK, Moves, Jobs

LEMMA IdleTyped == Idle \in Jobs
BY DEF Idle, Jobs, Positions

LEMMA ReturnsTyped ==
  ASSUME TypeOK, NEW c \in Callers, Returns(c)
  PROVE  job' \in [Callers -> Jobs]
BY IdleTyped DEF TypeOK, Returns

LEMMA StartsTyped ==
  ASSUME TypeOK, NEW c \in Callers, NEW pos \in Positions, NEW ids \in SUBSET Problems,
         NEW patches \in SUBSET Proposal, Starts(c, pos, ids, patches)
  PROVE  job' \in [Callers -> Jobs]
<1>1. [Idle EXCEPT !.at = pos, !.ids = ids, !.patches = patches] \in Jobs
  BY DEF Idle, Jobs
<1>2. QED BY <1>1 DEF TypeOK, Starts

\* The recorders of the artifact store set statuses.
LEMMA MarkTyped ==
  ASSUME TypeOK, NEW ids, NEW status \in Overalls, Mark(ids, status)
  PROVE  overall' \in [Problems -> Overalls] /\ keptOverall' \in [Problems -> Overalls]
BY DEF TypeOK, Mark

LEMMA MarkKnownTyped ==
  ASSUME TypeOK, NEW ids, MarkKnown(ids)
  PROVE  overall' \in [Problems -> Overalls] /\ keptOverall' \in [Problems -> Overalls]
<1>1. "blank" \in Overalls
  BY DEF Overalls
<1>2. QED BY <1>1, MarkTyped DEF MarkKnown

\* The part of TypeOK about the batch is undisturbed by a call that leaves it alone.
LEMMA StagedKept ==
  ASSUME TypeOK, UNCHANGED staged
  PROVE  /\ staged' \in Seq(Staging)
         /\ \A i, j \in DOMAIN staged' : staged'[i].problem = staged'[j].problem => i = j
BY DEF TypeOK

\* What StagedForApply gives are proposals.
LEMMA ForApplyTyped ==
  ASSUME TypeOK
  PROVE  /\ StagedForApply \subseteq Proposal
         /\ {staged[i].problem : i \in 1..Len(staged)} \subseteq Problems
<1>1. \A i \in 1..Len(staged) : staged[i] \in Staging
  BY DEF TypeOK
<1>2. \A i \in 1..Len(staged) : staged[i].prop \in Proposal /\ staged[i].problem \in Problems
  BY <1>1 DEF Staging
<1>3. QED BY <1>2 DEF StagedForApply

LEMMA OptionalTyped ==
  ASSUME NEW prop \in Proposal \cup {None}
  PROVE  Optional(prop) \subseteq Proposal /\ Optional(prop) \subseteq {prop}
BY DEF Optional

LEMMA TypeInit == Init => TypeOK
<1> SUFFICES ASSUME Init PROVE TypeOK
  OBVIOUS
<1>1. staged \in Seq(Staging) /\ DOMAIN staged = {}
  BY DEF Init
<1>2. "none" \in Overalls
  BY DEF Overalls
<1>3. job \in [Callers -> Jobs]
  BY IdleTyped DEF Init
<1>4. QED BY <1>1, <1>2, <1>3 DEF Init, TypeOK

\* Every action keeps the state well formed.
LEMMA TypeStep == TypeOK /\ [Next]_vars => TypeOK'
<1> SUFFICES ASSUME TypeOK, [Next]_vars PROVE TypeOK'
  OBVIOUS
<1> USE DEF patchStore, artifacts
<1>1. ASSUME NEW c \in Callers, Requests(c)
      PROVE  TypeOK'
  <2>1. ASSUME NEW p \in Problems, Investigate(c, p)
        PROVE  TypeOK'
    <3>1. /\ [Idle EXCEPT !.at = "agent", !.ids = {p},
                          !.alone = \A e \in Callers : ~Investigates(e)] \in Jobs
          /\ \A d \in Callers : job[d] \in Jobs /\ [job[d] EXCEPT !.alone = FALSE] \in Jobs
      BY JobTyped DEF Idle, Jobs, Positions
    <3>2. job' \in [Callers -> Jobs]
      BY <2>1, <3>1 DEF Investigate
    <3>3. QED BY <2>1, <3>2 DEF TypeOK, Investigate
  <2>2. ASSUME NEW p \in Problems, Stage(c, p)
        PROVE  TypeOK'
    <3>1. job' \in [Callers -> Jobs]
      <4>1. Starts(c, "recordStaged", {p}, {}) /\ "recordStaged" \in Positions
        BY <2>2 DEF Stage, Positions
      <4>2. {p} \in SUBSET Problems /\ {} \in SUBSET Proposal
        OBVIOUS
      <4>3. QED BY <4>1, <4>2, StartsTyped
    <3>2. [problem |-> p, prop |-> proposed[p]] \in Staging
      BY <2>2 DEF Stage, Staging, TypeOK
    <3> DEFINE s == Without(p)
               e == [problem |-> p, prop |-> proposed[p]]
    <3>3. /\ s \in Seq(Staging) /\ OnePerProblem(s)
          /\ \A i \in DOMAIN s : s[i].problem # p
      BY WithoutTyped
    <3>4. staged' = Append(s, e) /\ e \in Staging /\ e.problem = p
      BY <2>2, <3>2 DEF Stage
    <3> HIDE DEF s, e
    <3>5. /\ staged' \in Seq(Staging) /\ DOMAIN staged' = 1..(Len(s) + 1)
          /\ DOMAIN s = 1..Len(s) /\ Len(s) \in Nat
          /\ staged'[Len(s) + 1] = e /\ \A i \in 1..Len(s) : staged'[i] = s[i]
      BY <3>3, <3>4
    <3>6. ASSUME NEW i \in DOMAIN staged', NEW j \in DOMAIN staged',
                 staged'[i].problem = staged'[j].problem
          PROVE  i = j
      <4>1. CASE i \in 1..Len(s) /\ j \in 1..Len(s)
        BY <3>3, <3>5, <3>6, <4>1 DEF OnePerProblem
      <4>2. CASE i \in 1..Len(s) /\ j = Len(s) + 1
        BY <3>3, <3>4, <3>5, <3>6, <4>2
      <4>3. CASE i = Len(s) + 1 /\ j \in 1..Len(s)
        BY <3>3, <3>4, <3>5, <3>6, <4>3
      <4>4. CASE i = Len(s) + 1 /\ j = Len(s) + 1
        BY <4>4
      <4>5. QED BY <3>5, <4>1, <4>2, <4>3, <4>4
    <3>7. QED BY <2>2, <3>1, <3>5, <3>6 DEF TypeOK, Stage
  <2>3. ASSUME NEW p \in Problems, RemediateOne(c, p)
        PROVE  TypeOK'
    <3>1. {p} \in SUBSET Problems /\ Optional(latest) \in SUBSET Proposal
      BY OptionalTyped DEF TypeOK
    <3>2. job' \in [Callers -> Jobs]
      BY <2>3, <3>1, StartsTyped DEF RemediateOne, Positions
    <3>3. QED BY <2>3, <3>2, StagedKept DEF TypeOK, RemediateOne
  <2>4. ASSUME PipelineRun(c)
        PROVE  TypeOK'
    <3>1. {staged[i].problem : i \in 1..Len(staged)} \in SUBSET Problems /\ {} \in SUBSET Proposal
      BY ForApplyTyped
    <3>2. job' \in [Callers -> Jobs]
      BY <2>4, <3>1, StartsTyped DEF PipelineRun, Positions
    <3>3. QED BY <2>4, <3>2, StagedKept DEF TypeOK, PipelineRun
  <2>5. ASSUME DemoReset(c)
        PROVE  TypeOK'
    <3>1. job' \in [Callers -> Jobs]
      BY <2>5, StartsTyped DEF DemoReset, Positions
    <3>2. staged' \in Seq(Staging) /\ DOMAIN staged' = {}
      BY <2>5 DEF DemoReset, ResetPatches
    <3>3. QED BY <2>5, <3>1, <3>2 DEF TypeOK, DemoReset, ResetPatches
  <2>6. QED BY <1>1, <2>1, <2>2, <2>3, <2>4, <2>5 DEF Requests
<1>2. ASSUME NEW c \in Callers, Proceed(c)
      PROVE  TypeOK'
  <2>1. CASE AgentEnds(c)
    <3>1. Optional(latest) \subseteq Proposal
      BY OptionalTyped DEF TypeOK
    <3>2. CASE job' = [job EXCEPT ![c].at = "record", ![c].patches = Optional(latest)]
      <4>1. job' \in [Callers -> Jobs]
        BY <3>1, <3>2, JobTyped DEF TypeOK, Jobs, Positions
      <4>2. QED BY <2>1, <4>1 DEF TypeOK, AgentEnds
    <3>3. CASE Returns(c) \/ Moves(c, "recordFailed")
      <4>1. job' \in [Callers -> Jobs]
        BY <3>3, ReturnsTyped, MovesTyped DEF Positions
      <4>2. QED BY <2>1, <4>1 DEF TypeOK, AgentEnds
    <3>4. QED BY <2>1, <3>2, <3>3 DEF AgentEnds
  <2>2. CASE RecordInvestigation(c)
    <3>1. overall' \in [Problems -> Overalls] /\ keptOverall' \in [Problems -> Overalls]
      BY <2>2, MarkTyped DEF RecordInvestigation, Overalls
    <3>2. job' \in [Callers -> Jobs]
      BY <2>2, JobTyped, MovesTyped, ReturnsTyped, StartsTyped DEF RecordInvestigation, Positions
    <3>3. QED BY <2>2, <3>1, <3>2, StagedKept DEF TypeOK, RecordInvestigation
  <2>3. CASE SetProposed(c)
    <3>1. PICK recorded \in [Problems -> Proposal \cup {None}] : proposed' = recorded
      BY <2>3 DEF SetProposed
    <3>2. job' \in [Callers -> Jobs]
      BY <2>3, ReturnsTyped DEF SetProposed
    <3>3. kept' \in [Problems -> Proposal \cup {None}]
      BY <2>3, <3>1 DEF SetProposed, TypeOK
    <3>4. QED BY <2>3, <3>1, <3>2, <3>3 DEF TypeOK, SetProposed
  <2>4. CASE RecordStaged(c)
    <3>1. overall' \in [Problems -> Overalls] /\ keptOverall' \in [Problems -> Overalls]
      BY <2>4, MarkTyped DEF RecordStaged, Overalls
    <3>2. job' \in [Callers -> Jobs]
      BY <2>4, MovesTyped DEF RecordStaged, Positions
    <3>3. QED BY <2>4, <3>1, <3>2, StagedKept DEF TypeOK, RecordStaged
  <2>5. CASE RecordFixBranch(c)
    <3>1. overall' \in [Problems -> Overalls] /\ keptOverall' \in [Problems -> Overalls]
      BY <2>5, MarkKnownTyped DEF RecordFixBranch, TypeOK
    <3>2. job' \in [Callers -> Jobs]
      BY <2>5, ReturnsTyped DEF RecordFixBranch
    <3>3. QED BY <2>5, <3>1, <3>2, StagedKept DEF TypeOK, RecordFixBranch
  <2>6. CASE ReadPatches(c)
    <3>1. job' \in [Callers -> Jobs]
      <4> DEFINE j == [job[c] EXCEPT !.at = "recordRunning", !.patches = StagedForApply]
      <4>1. j \in Jobs
        BY ForApplyTyped, JobTyped DEF Jobs, Positions
      <4>2. job' = [job EXCEPT ![c] = j]
        BY <2>6 DEF ReadPatches
      <4> HIDE DEF j
      <4>3. QED BY <4>1, <4>2 DEF TypeOK
    <3>2. QED BY <2>6, <3>1, StagedKept DEF TypeOK, ReadPatches
  <2>7. CASE RecordRunning(c)
    <3>1. overall' \in [Problems -> Overalls] /\ keptOverall' \in [Problems -> Overalls]
      BY <2>7, MarkTyped DEF RecordRunning, Overalls
    <3>2. job' \in [Callers -> Jobs]
      BY <2>7, MovesTyped DEF RecordRunning, Positions
    <3>3. lost' \subseteq Problems
      BY <2>7 DEF RecordRunning, TypeOK
    <3>4. QED BY <2>7, <3>1, <3>2, <3>3, StagedKept DEF TypeOK, RecordRunning
  <2>8. CASE Remediate(c)
    <3> DEFINE given == IF job[c].patches = {} THEN Optional(latest) ELSE job[c].patches
    <3>1. given \subseteq Proposal
      BY JobTyped, OptionalTyped DEF TypeOK
    <3>2. PICK ok \in BOOLEAN :
            job' = [job EXCEPT ![c].at = "recordRun", ![c].patches = given, ![c].ok = ok]
      BY <2>8 DEF Remediate
    <3> HIDE DEF given
    <3>3. job' \in [Callers -> Jobs]
      <4> DEFINE j == [job[c] EXCEPT !.at = "recordRun", !.patches = given, !.ok = ok]
      <4>1. j \in Jobs
        BY <3>1, JobTyped DEF Jobs, Positions
      <4>2. job' = [job EXCEPT ![c] = j]
        BY <3>2
      <4> HIDE DEF j
      <4>3. QED BY <4>1, <4>2 DEF TypeOK
    <3>4. QED BY <2>8, <3>3, StagedKept DEF TypeOK, Remediate
  <2>9. CASE RecordRun(c)
    <3>1. overall' \in [Problems -> Overalls] /\ keptOverall' \in [Problems -> Overalls]
      BY <2>9, MarkTyped DEF RecordRun, Overalls
    <3>2. job' \in [Callers -> Jobs]
      BY <2>9, MovesTyped, ReturnsTyped DEF RecordRun, Positions
    <3>3. QED BY <2>9, <3>1, <3>2, StagedKept DEF TypeOK, RecordRun
  <2>10. CASE ResetArtifacts(c)
    <3>1. job' \in [Callers -> Jobs]
      BY <2>10, ReturnsTyped DEF ResetArtifacts
    <3>2. QED BY <2>10, <3>1, StagedKept DEF TypeOK, ResetArtifacts, Overalls
  <2>11. QED BY <1>2, <2>1, <2>2, <2>3, <2>4, <2>5, <2>6, <2>7, <2>8, <2>9, <2>10 DEF Proceed
<1>3. ASSUME NEW c \in Callers, NEW prop \in Proposal, Proposes(c, prop)
      PROVE  TypeOK'
  <2>1. job' \in [Callers -> Jobs]
    BY <1>3, JobTyped DEF TypeOK, Proposes, Jobs
  <2>2. QED BY <1>3, <2>1, StagedKept DEF TypeOK, Proposes
<1>4. ASSUME NEW c \in Callers, AppendStep(c)
      PROVE  TypeOK'
  <2>1. overall' \in [Problems -> Overalls] /\ keptOverall' \in [Problems -> Overalls]
    BY <1>4, MarkKnownTyped DEF AppendStep
  <2>2. QED BY <1>4, <2>1, StagedKept DEF TypeOK, AppendStep
<1>5. ASSUME NEW p \in Problems, Unstage(p)
      PROVE  TypeOK'
  BY <1>5, WithoutTyped DEF TypeOK, Unstage, OnePerProblem
<1>6. ASSUME NEW p \in Problems, RecordConfirmed(p)
      PROVE  TypeOK'
  <2>1. overall' \in [Problems -> Overalls] /\ keptOverall' \in [Problems -> Overalls]
    BY <1>6, MarkTyped DEF RecordConfirmed, Overalls
  <2>2. QED BY <1>6, <2>1, StagedKept DEF TypeOK, RecordConfirmed
<1>7. CASE ClearStaged
  BY <1>7 DEF TypeOK, ClearStaged
<1>8. CASE ChangeTarget
  BY <1>8 DEF TypeOK, ChangeTarget, ResetPatches
<1>9. CASE ClearLatest
  BY <1>9, StagedKept DEF TypeOK, ClearLatest
<1>10. ASSUME NEW clear \in BOOLEAN, Restart(clear)
       PROVE  TypeOK'
  <2>1. job' \in [Callers -> Jobs]
    BY <1>10, IdleTyped DEF Restart, Load
  <2>2. staged' \in Seq(Staging) /\ DOMAIN staged' = {}
    BY <1>10 DEF Restart, Load
  <2>3. overall' \in [Problems -> Overalls]
    BY <1>10 DEF Restart, Load, TypeOK, Overalls
  <2>4. QED BY <1>10, <2>1, <2>2, <2>3 DEF TypeOK, Restart, Load
<1>11. CASE UNCHANGED vars
  BY <1>11 DEF TypeOK, vars
<1>12. QED BY <1>1, <1>2, <1>3, <1>4, <1>5, <1>6, <1>7, <1>8, <1>9, <1>10, <1>11 DEF Next

\* The patch store, the artifact store and every request stay well formed: one patch of a
\* problem is staged at most, and what is persisted can be read back.
THEOREM TypeCorrect == Spec => []TypeOK
BY TypeInit, TypeStep, PTL DEF Spec

-----------------------------------------------------------------------------
(* Running means a run *)

Runs(c) == job[c].at \in {"remediate", "recordRun"}

\* What may happen besides a run and leaves every run in progress in progress.
RunsGoOn == \A c \in Callers : Runs(c) => Runs(c)' /\ job'[c].ids = job[c].ids

\* No status but "running" itself makes a problem shown as running.
LEMMA NotMarkedRunning ==
  ASSUME NEW ids, NEW status, status # "running", Mark(ids, status)
  PROVE  \A p \in Problems : overall'[p] = "running" => overall[p] = "running" /\ p \notin ids
BY DEF Mark

LEMMA NotMarkedKnown ==
  ASSUME NEW ids, MarkKnown(ids) \/ UNCHANGED artifacts
  PROVE  \A p \in Problems : overall'[p] = "running" => overall[p] = "running"
BY NotMarkedRunning DEF MarkKnown, artifacts

LEMMA StillRuns ==
  ASSUME RunningHasARun, RunsGoOn, UNCHANGED lost,
         \A p \in Problems : overall'[p] = "running" => overall[p] = "running"
  PROVE  RunningHasARun'
BY DEF RunningHasARun, RunsGoOn, Runs

\* A request that is not a run goes where it goes without disturbing one.
LEMMA OthersGoOn ==
  ASSUME TypeOK, NEW c \in Callers, ~Runs(c), NEW j, job' = [job EXCEPT ![c] = j]
  PROVE  RunsGoOn
BY DEF RunsGoOn, Runs, TypeOK

LEMMA RunningStep == TypeOK /\ RunningHasARun /\ [Next]_vars => RunningHasARun'
<1> SUFFICES ASSUME TypeOK, RunningHasARun, [Next]_vars PROVE RunningHasARun'
  OBVIOUS
<1> USE DEF patchStore, artifacts
<1> DEFINE NoneNew == \A p \in Problems : overall'[p] = "running" => overall[p] = "running"
<1>1. ASSUME NEW c \in Callers, Requests(c)
      PROVE  RunningHasARun'
  <2>1. NoneNew /\ UNCHANGED lost
    BY <1>1 DEF Requests, Investigate, Stage, RemediateOne, PipelineRun, DemoReset
  <2>2. RunsGoOn
    <3>1. CASE \E p \in Problems : Investigate(c, p)
      <4>1. \A d \in Callers : Runs(d) => d # c /\ ~Investigates(d)
        BY <3>1 DEF Investigate, Runs, At, Investigates
      <4>2. QED BY <3>1, <4>1 DEF RunsGoOn, Runs, Investigate, TypeOK
    <3>2. CASE ~\E p \in Problems : Investigate(c, p)
      <4>1. ~Runs(c)
        BY <1>1, <3>2 DEF Requests, Stage, RemediateOne, PipelineRun, DemoReset, At, Runs
      <4>2. \E j : job' = [job EXCEPT ![c] = j]
        BY <1>1, <3>2 DEF Requests, Stage, RemediateOne, PipelineRun, DemoReset, Starts
      <4>3. QED BY <4>1, <4>2, OthersGoOn
    <3>3. QED BY <3>1, <3>2
  <2>3. QED BY <2>1, <2>2, StillRuns
<1>2. ASSUME NEW c \in Callers, Proceed(c)
      PROVE  RunningHasARun'
  <2>1. CASE AgentEnds(c) \/ RecordInvestigation(c) \/ SetProposed(c) \/ RecordStaged(c)
             \/ RecordFixBranch(c) \/ ReadPatches(c)
    <3>1. NoneNew /\ UNCHANGED lost
      BY <2>1, NotMarkedRunning, NotMarkedKnown
         DEF AgentEnds, RecordInvestigation, SetProposed, RecordStaged, RecordFixBranch, ReadPatches
    <3>2. ~Runs(c)
      BY <2>1 DEF AgentEnds, RecordInvestigation, SetProposed, RecordStaged, RecordFixBranch,
                  ReadPatches, At, Runs
    <3>3. RunsGoOn
      BY <2>1, <3>2 DEF AgentEnds, RecordInvestigation, SetProposed, RecordStaged, RecordFixBranch,
                        ReadPatches, Moves, Returns, Starts, RunsGoOn, Runs, TypeOK
    <3>4. QED BY <3>1, <3>3, StillRuns
  <2>2. CASE RecordRunning(c)
    <3>1. /\ Runs(c)' /\ job'[c].ids = job[c].ids
          /\ \A d \in Callers \ {c} : job'[d] = job[d]
          /\ ~Runs(c)
      BY <2>2, JobTyped DEF RecordRunning, Moves, Runs, At, TypeOK, Jobs
    <3>2. /\ lost' = lost \ job[c].ids
          /\ \A p \in Problems : p \notin job[c].ids => overall'[p] = overall[p]
      BY <2>2 DEF RecordRunning, Mark
    <3> SUFFICES ASSUME NEW p \in Problems, overall'[p] = "running"
                 PROVE  p \in lost' \/ \E d \in Callers : p \in job'[d].ids /\ Runs(d)'
      BY DEF RunningHasARun, Runs
    <3>3. CASE p \in job[c].ids
      BY <3>1, <3>3
    <3>4. CASE p \notin job[c].ids /\ p \in lost
      BY <3>2, <3>4
    <3>5. CASE p \notin job[c].ids /\ p \notin lost
      <4>1. PICK d \in Callers : p \in job[d].ids /\ Runs(d)
        BY <3>2, <3>5 DEF RunningHasARun, Runs
      <4>2. QED BY <3>1, <3>5, <4>1 DEF Runs
    <3>6. QED BY <3>3, <3>4, <3>5
  <2>3. CASE Remediate(c)
    <3>1. NoneNew /\ UNCHANGED lost
      BY <2>3 DEF Remediate
    <3>2. job'[c].ids = job[c].ids /\ Runs(c)' /\ \A d \in Callers \ {c} : job'[d] = job[d]
      <4> DEFINE given == IF job[c].patches = {} THEN Optional(latest) ELSE job[c].patches
      <4>1. PICK ok \in BOOLEAN :
              job' = [job EXCEPT ![c].at = "recordRun", ![c].patches = given, ![c].ok = ok]
        BY <2>3 DEF Remediate
      <4> HIDE DEF given
      <4>2. job'[c] = [job[c] EXCEPT !.at = "recordRun", !.patches = given, !.ok = ok]
        BY <4>1 DEF TypeOK
      <4>3. job'[c].at = "recordRun" /\ job'[c].ids = job[c].ids
        BY <4>2, JobTyped DEF Jobs
      <4>4. QED BY <4>1, <4>3 DEF Runs, TypeOK
    <3>3. RunsGoOn
      BY <3>2 DEF RunsGoOn, Runs
    <3>4. QED BY <3>1, <3>3, StillRuns
  <2>4. CASE RecordRun(c)
    <3>1. \A p \in Problems : overall'[p] = "running" => overall[p] = "running" /\ p \notin job[c].ids
      BY <2>4, NotMarkedRunning DEF RecordRun
    <3>2. UNCHANGED lost /\ \A d \in Callers \ {c} : job'[d] = job[d]
      BY <2>4 DEF RecordRun, Moves, Returns, TypeOK
    <3>3. QED BY <3>1, <3>2 DEF RunningHasARun
  <2>5. CASE ResetArtifacts(c)
    BY <2>5 DEF ResetArtifacts, RunningHasARun
  <2>6. QED BY <1>2, <2>1, <2>2, <2>3, <2>4, <2>5 DEF Proceed
<1>3. ASSUME NEW c \in Callers, NEW prop \in Proposal, Proposes(c, prop)
      PROVE  RunningHasARun'
  <2>1. ~Runs(c) /\ \E j : job' = [job EXCEPT ![c] = j]
    BY <1>3 DEF Proposes, At, Runs
  <2>2. RunsGoOn
    BY <2>1, OthersGoOn
  <2>3. QED BY <1>3, <2>2, StillRuns DEF Proposes
<1>4. ASSUME NEW c \in Callers, AppendStep(c)
      PROVE  RunningHasARun'
  <2>1. RunsGoOn /\ UNCHANGED lost
    BY <1>4 DEF AppendStep, RunsGoOn, Runs
  <2>2. QED BY <1>4, <2>1, NotMarkedKnown, StillRuns DEF AppendStep
<1>5. ASSUME NEW p \in Problems, Unstage(p) \/ RecordConfirmed(p)
      PROVE  RunningHasARun'
  <2>1. RunsGoOn /\ UNCHANGED lost
    BY <1>5 DEF Unstage, RecordConfirmed, RunsGoOn, Runs
  <2>2. NoneNew
    BY <1>5, NotMarkedRunning DEF Unstage, RecordConfirmed
  <2>3. QED BY <2>1, <2>2, StillRuns
<1>6. CASE ClearStaged \/ ChangeTarget \/ ClearLatest \/ UNCHANGED vars
  BY <1>6 DEF ClearStaged, ChangeTarget, ClearLatest, vars, RunningHasARun
<1>7. ASSUME NEW clear \in BOOLEAN, Restart(clear)
      PROVE  RunningHasARun'
  BY <1>7 DEF Restart, Load, RunningHasARun
<1>8. QED BY <1>1, <1>2, <1>3, <1>4, <1>5, <1>6, <1>7 DEF Next

\* No problem is shown as running that nothing runs for, unless the server was restarted
\* in mid-run.
THEOREM RunningShown == Spec => []RunningHasARun
<1>1. Init => RunningHasARun
  BY DEF Init, RunningHasARun
<1>2. QED BY <1>1, TypeInit, TypeStep, RunningStep, PTL DEF Spec

-----------------------------------------------------------------------------
(* Memory and disk *)

Mirrored == kept = proposed

\* Every call that changes the proposals changes their files with them.
LEMMA MirroredStep == TypeOK /\ Mirrored /\ [Next]_vars => Mirrored'
<1> SUFFICES ASSUME TypeOK, Mirrored, [Next]_vars PROVE Mirrored'
  OBVIOUS
<1> USE DEF patchStore, artifacts
<1>1. ASSUME NEW c \in Callers, Requests(c)
      PROVE  Mirrored'
  BY <1>1 DEF Mirrored, Requests, Investigate, Stage, RemediateOne, PipelineRun, DemoReset,
              ResetPatches
<1>2. ASSUME NEW c \in Callers, SetProposed(c)
      PROVE  Mirrored'
  <2>1. PICK recorded \in [Problems -> Proposal \cup {None}] :
          /\ proposed' = recorded
          /\ \A p \in Problems : p \notin job[c].ids => recorded[p] = proposed[p]
    BY <1>2 DEF SetProposed
  <2>2. /\ kept' \in [Problems -> Proposal \cup {None}]
        /\ \A p \in Problems : kept'[p] = recorded[p]
    BY <1>2, <2>1 DEF SetProposed, Mirrored, TypeOK
  <2>3. QED BY <2>1, <2>2 DEF Mirrored
<1>3. ASSUME NEW c \in Callers, Proceed(c), ~SetProposed(c)
      PROVE  Mirrored'
  BY <1>3 DEF Mirrored, Proceed, AgentEnds, RecordInvestigation, RecordStaged, RecordFixBranch,
              ReadPatches, RecordRunning, Remediate, RecordRun, ResetArtifacts
<1>4. CASE \E c \in Callers, prop \in Proposal : Proposes(c, prop)
  BY <1>4 DEF Mirrored, Proposes
<1>5. CASE \E c \in Callers : AppendStep(c)
  BY <1>5 DEF Mirrored, AppendStep
<1>6. CASE \E p \in Problems : Unstage(p) \/ RecordConfirmed(p)
  BY <1>6 DEF Mirrored, Unstage, RecordConfirmed
<1>7. CASE ClearStaged \/ ChangeTarget \/ ClearLatest \/ UNCHANGED vars
  BY <1>7 DEF Mirrored, ClearStaged, ChangeTarget, ClearLatest, ResetPatches, vars
<1>8. CASE \E clear \in BOOLEAN : Restart(clear)
  BY <1>8 DEF Mirrored, Restart, Load
<1>9. QED BY <1>1, <1>2, <1>3, <1>4, <1>5, <1>6, <1>7, <1>8 DEF Next

\* A restart that is not told to clear finds the proposals as they were: none is lost, none
\* that a reset or a change of repository discarded comes back.
THEOREM RestartsKeep == Spec => RestartKeepsProposals
<1>1. Init => Mirrored
  BY DEF Init, Mirrored
<1>2. ASSUME Mirrored
      PROVE  Restart(FALSE) => proposed' = proposed
  BY <1>2 DEF Mirrored, Restart, Load
<1>3. Mirrored /\ [Next]_vars
      => [Restart(FALSE) => proposed' = proposed]_vars
  BY <1>2
<1>4. QED BY <1>1, <1>3, TypeInit, TypeStep, MirroredStep, PTL DEF Spec, RestartKeepsProposals

-----------------------------------------------------------------------------
(* Whose proposal an investigation returns *)

\* An investigation nobody overlaps is the only one, and while its agent works the
\* latest proposal is its own, or a reset has discarded it.
AloneIsAlone ==
  \A c, d \in Callers : Investigates(c) /\ job[c].alone /\ Investigates(d) => c = d

LatestIsOwn ==
  \A c \in Callers :
    At(c, "agent") /\ job[c].alone /\ job[c].own # None => latest \in {job[c].own, None}

Unmixed == AloneIsAlone /\ LatestIsOwn /\ OwnProposal

\* A step that changes the request of c alone, and the latest proposal only as c's agent
\* or to discard it, mixes nothing up, provided c's own part is in order.
LEMMA UnmixedBy ==
  ASSUME TypeOK, Unmixed, NEW c \in Callers, NEW j, j = job'[c],
         \A d \in Callers \ {c} : job'[d] = job[d],
         latest' \in {latest, None} \/ Investigates(c),
         Investigates(c)' => Investigates(c) /\ j.alone = job[c].alone,
         j.at = "agent" /\ j.alone /\ j.own # None => latest' \in {j.own, None},
         j.at \in {"record", "setProposed"} /\ j.alone /\ j.own # None => j.patches \subseteq {j.own}
  PROVE  Unmixed'
<1>1. job'[c] = j /\ \A d \in Callers \ {c} : job'[d] = job[d]
  OBVIOUS
<1>2. AloneIsAlone'
  BY <1>1 DEF Unmixed, AloneIsAlone, Investigates
<1>3. ASSUME NEW d \in Callers, At(d, "agent")', job'[d].alone, job'[d].own # None
      PROVE  latest' \in {job'[d].own, None}
  <2>1. CASE d = c
    BY <1>1, <1>3, <2>1 DEF At
  <2>2. CASE d # c
    <3>1. job'[d] = job[d] /\ At(d, "agent") /\ job[d].alone /\ Investigates(d)
      BY <1>1, <1>3, <2>2 DEF At, Investigates
    <3>2. ~Investigates(c)
      BY <2>2, <3>1 DEF Unmixed, AloneIsAlone
    <3>3. latest \in {job[d].own, None}
      BY <1>3, <3>1 DEF Unmixed, LatestIsOwn
    <3>4. QED BY <3>1, <3>2, <3>3
  <2>3. QED BY <2>1, <2>2
<1>4. OwnProposal'
  BY <1>1 DEF Unmixed, OwnProposal
<1>5. QED BY <1>2, <1>3, <1>4 DEF Unmixed, LatestIsOwn

\* A step that leaves the requests alone can only discard the latest proposal.
LEMMA UnmixedStays ==
  ASSUME Unmixed, UNCHANGED job, latest' \in {latest, None}
  PROVE  Unmixed'
BY DEF Unmixed, AloneIsAlone, LatestIsOwn, OwnProposal, At, Investigates

LEMMA UnmixedStep == TypeOK /\ Unmixed /\ [Next]_vars => Unmixed'
<1> SUFFICES ASSUME TypeOK, Unmixed, [Next]_vars PROVE Unmixed'
  OBVIOUS
<1> USE DEF patchStore, artifacts
<1>1. ASSUME NEW c \in Callers, NEW p \in Problems, Investigate(c, p)
      PROVE  Unmixed'
  <2> DEFINE quiet == \A e \in Callers : ~Investigates(e)
  <2>1. /\ job'[c].at = "agent" /\ job'[c].alone = quiet /\ job'[c].own = None
        /\ \A d \in Callers \ {c} :
             IF Investigates(d) THEN job'[d] = [job[d] EXCEPT !.alone = FALSE]
                                ELSE job'[d] = job[d]
        /\ UNCHANGED latest
    BY <1>1 DEF Investigate, Idle
  <2>2. ASSUME NEW d \in Callers \ {c}, Investigates(d)'
        PROVE  Investigates(d) /\ ~job'[d].alone /\ ~quiet
    <3>1. Investigates(d)
      <4>1. CASE Investigates(d)
        BY <4>1
      <4>2. CASE ~Investigates(d)
        BY <2>1, <2>2, <4>2 DEF Investigates
      <4>3. QED BY <4>1, <4>2
    <3>2. job'[d] = [job[d] EXCEPT !.alone = FALSE]
      BY <2>1, <3>1
    <3>3. job[d] \in Jobs
      BY JobTyped
    <3>4. QED BY <3>1, <3>2, <3>3 DEF Jobs
  <2>3. AloneIsAlone'
    BY <2>1, <2>2 DEF AloneIsAlone
  <2>4. LatestIsOwn'
    BY <2>1, <2>2 DEF LatestIsOwn, At, Investigates
  <2>5. OwnProposal'
    BY <2>1, <2>2 DEF OwnProposal, Investigates
  <2>6. QED BY <2>3, <2>4, <2>5 DEF Unmixed
<1>2. ASSUME NEW c \in Callers,
             \/ \E p \in Problems : Stage(c, p) \/ RemediateOne(c, p)
             \/ PipelineRun(c) \/ DemoReset(c)
      PROVE  Unmixed'
  <2>1. /\ \A d \in Callers \ {c} : job'[d] = job[d]
        /\ job'[c].at \in {"recordStaged", "recordRunning", "forApply", "artsReset"}
    BY <1>2 DEF Stage, RemediateOne, PipelineRun, DemoReset, Starts, Idle, TypeOK
  <2>2. latest' \in {latest, None}
    BY <1>2 DEF Stage, RemediateOne, PipelineRun, DemoReset, ResetPatches
  <2>3. ~Investigates(c)'
    BY <2>1 DEF Investigates
  <2>4. QED BY <2>1, <2>2, <2>3, UnmixedBy
<1>3. ASSUME NEW c \in Callers, Proceed(c)
      PROVE  Unmixed'
  <2>1. CASE AgentEnds(c)
    <3>1. UNCHANGED latest /\ At(c, "agent") /\ Investigates(c)
      BY <2>1 DEF AgentEnds, At, Investigates
    <3>2. CASE job' = [job EXCEPT ![c].at = "record", ![c].patches = Optional(latest)]
      <4> DEFINE j == [job[c] EXCEPT !.at = "record", !.patches = Optional(latest)]
      <4>1. /\ j.at = "record" /\ j.alone = job[c].alone /\ j.own = job[c].own
            /\ j.patches = Optional(latest)
        BY JobTyped DEF Jobs
      <4>2. job'[c] = j /\ \A d \in Callers \ {c} : job'[d] = job[d]
        BY <3>2 DEF TypeOK
      <4> HIDE DEF j
      <4>3. j.alone /\ j.own # None => j.patches \subseteq {j.own}
        <5> SUFFICES ASSUME j.alone, j.own # None PROVE j.patches \subseteq {j.own}
          OBVIOUS
        <5>1. latest \in {job[c].own, None}
          BY <3>1, <4>1 DEF Unmixed, LatestIsOwn
        <5>2. QED BY <4>1, <5>1 DEF Optional
      <4>4. QED BY <3>1, <4>1, <4>2, <4>3, UnmixedBy
    <3>3. CASE Returns(c) \/ Moves(c, "recordFailed")
      <4>1. /\ \A d \in Callers \ {c} : job'[d] = job[d]
            /\ job'[c].at \in {"idle", "recordFailed"}
            /\ job'[c].at = "recordFailed" => job'[c].alone = job[c].alone
        BY <3>3, JobTyped DEF Returns, Moves, Idle, Jobs, TypeOK
      <4>2. Investigates(c)' => job'[c].alone = job[c].alone
        BY <4>1 DEF Investigates
      <4>3. QED BY <3>1, <4>1, <4>2, UnmixedBy
    <3>4. QED BY <2>1, <3>2, <3>3 DEF AgentEnds
  <2>2. CASE RecordInvestigation(c)
    <3>1. UNCHANGED latest /\ Investigates(c)
      BY <2>2 DEF RecordInvestigation, At, Investigates
    <3>2. CASE At(c, "record") /\ Moves(c, "setProposed")
      <4> DEFINE j == [job[c] EXCEPT !.at = "setProposed"]
      <4>1. /\ j.at = "setProposed" /\ j.alone = job[c].alone /\ j.own = job[c].own
            /\ j.patches = job[c].patches
        BY JobTyped DEF Jobs
      <4>2. job'[c] = j /\ \A d \in Callers \ {c} : job'[d] = job[d]
        BY <3>2 DEF Moves, TypeOK
      <4> HIDE DEF j
      <4>3. j.alone /\ j.own # None => j.patches \subseteq {j.own}
        BY <3>2, <4>1 DEF Unmixed, OwnProposal, At
      <4>4. QED BY <3>1, <4>1, <4>2, <4>3, UnmixedBy
    <3>3. CASE Returns(c) \/ Starts(c, "recordRunning", job[c].ids, job[c].patches)
      <4>1. /\ \A d \in Callers \ {c} : job'[d] = job[d]
            /\ job'[c].at \in {"idle", "recordRunning"}
        <5>1. CASE Returns(c)
          BY <5>1 DEF Returns, Idle, TypeOK
        <5>2. CASE Starts(c, "recordRunning", job[c].ids, job[c].patches)
          BY <5>2 DEF Starts, Idle, TypeOK
        <5>3. QED BY <3>3, <5>1, <5>2
      <4>2. ~Investigates(c)'
        BY <4>1 DEF Investigates
      <4>3. QED BY <3>1, <4>1, <4>2, UnmixedBy
    <3>4. QED BY <2>2, <3>2, <3>3 DEF RecordInvestigation
  <2>3. CASE \/ SetProposed(c) \/ RecordStaged(c) \/ RecordFixBranch(c) \/ ReadPatches(c)
             \/ RecordRunning(c) \/ Remediate(c) \/ RecordRun(c) \/ ResetArtifacts(c)
    <3>1. /\ \A d \in Callers \ {c} : job'[d] = job[d]
          /\ job'[c].at \in {"idle", "branch", "recordRunning", "remediate", "recordRun"}
      <4>1. CASE Remediate(c)
        BY <4>1, JobTyped DEF Remediate, Jobs, TypeOK
      <4>2. CASE ReadPatches(c)
        BY <4>2, JobTyped DEF ReadPatches, Jobs, TypeOK
      <4>3. CASE ~Remediate(c) /\ ~ReadPatches(c)
        BY <2>3, <4>3, JobTyped
           DEF SetProposed, RecordStaged, RecordFixBranch, RecordRunning,
               RecordRun, ResetArtifacts, Returns, Moves, Idle, Jobs, TypeOK
      <4>4. QED BY <4>1, <4>2, <4>3
    <3>2. UNCHANGED latest
      BY <2>3 DEF SetProposed, RecordStaged, RecordFixBranch, ReadPatches, RecordRunning,
                  Remediate, RecordRun, ResetArtifacts
    <3>3. ~Investigates(c)'
      BY <3>1 DEF Investigates
    <3>4. QED BY <3>1, <3>2, <3>3, UnmixedBy
  <2>4. QED BY <1>3, <2>1, <2>2, <2>3 DEF Proceed
<1>4. ASSUME NEW c \in Callers, NEW prop \in Proposal, Proposes(c, prop)
      PROVE  Unmixed'
  <2> DEFINE j == [job[c] EXCEPT !.own = prop]
  <2>1. j.at = "agent" /\ j.alone = job[c].alone /\ j.own = prop
    BY <1>4, JobTyped DEF Proposes, At, Jobs
  <2>2. job'[c] = j /\ \A d \in Callers \ {c} : job'[d] = job[d]
    BY <1>4 DEF Proposes, TypeOK
  <2>3. latest' = prop /\ Investigates(c)
    BY <1>4 DEF Proposes, At, Investigates
  <2> HIDE DEF j
  <2>4. QED BY <2>1, <2>2, <2>3, UnmixedBy
<1>5. CASE \E c \in Callers : AppendStep(c)
  BY <1>5, UnmixedStays DEF AppendStep
<1>6. CASE \E p \in Problems : Unstage(p) \/ RecordConfirmed(p)
  BY <1>6, UnmixedStays DEF Unstage, RecordConfirmed
<1>7. CASE ClearStaged \/ ChangeTarget \/ ClearLatest \/ UNCHANGED vars
  BY <1>7, UnmixedStays DEF ClearStaged, ChangeTarget, ClearLatest, ResetPatches, vars
<1>8. CASE \E clear \in BOOLEAN : Restart(clear)
  BY <1>8 DEF Restart, Load, Idle, Unmixed, AloneIsAlone, LatestIsOwn, OwnProposal, Investigates, At
<1>9. QED BY <1>1, <1>2, <1>3, <1>4, <1>5, <1>6, <1>7, <1>8 DEF Next, Requests

\* An investigation that nobody overlaps takes its own last proposal to its problem, and
\* never what an earlier one left behind.
THEOREM OwnProposals == Spec => []OwnProposal
<1>1. Init => Unmixed
  BY DEF Init, Idle, Unmixed, AloneIsAlone, LatestIsOwn, OwnProposal, Investigates, At
<1>2. Unmixed => OwnProposal
  BY DEF Unmixed
<1>3. QED BY <1>1, <1>2, TypeInit, TypeStep, UnmixedStep, PTL DEF Spec

-----------------------------------------------------------------------------
(* When the proposal kept for a problem is the one made for it *)

\* Whoever takes a proposal to its problem has worked alone, and has made one.
Apart ==
  \A c \in Callers :
    job[c].at \in {"record", "setProposed"} => job[c].alone /\ job[c].own # None

\* An investigation is of one problem, and proposes for it.
ForOne ==
  \A c \in Callers :
    Investigates(c) => \E p \in Problems : /\ job[c].ids = {p}
                                           /\ job[c].own # None => job[c].own.by = p

\* An investigation in progress has just begun, or is what it was, or has just made a
\* proposal for its problem.
LEMMA InvestigationsGoOn ==
  ASSUME TypeOK, [Next]_vars, NEW c \in Callers, Investigates(c)'
  PROVE  \/ \E p \in Problems : job'[c].ids = {p} /\ job'[c].own = None
         \/ /\ Investigates(c) /\ job'[c].ids = job[c].ids
            /\ \/ job'[c].own = job[c].own
               \/ job'[c].own \in Proposal /\ job'[c].own.by \in job[c].ids
<1> DEFINE AsItWas == Investigates(c) /\ job'[c].ids = job[c].ids /\ job'[c].own = job[c].own
<1>1. job \in [Callers -> Jobs] /\ job[c] \in Jobs
  BY JobTyped DEF TypeOK
<1>2. CASE UNCHANGED job
  BY <1>2 DEF Investigates
<1>3. ASSUME NEW d \in Callers, NEW p \in Problems, Investigate(d, p)
      PROVE  (job'[c].ids = {p} /\ job'[c].own = None) \/ AsItWas
  <2>1. CASE c = d
    BY <1>1, <1>3, <2>1 DEF Investigate, Idle
  <2>2. CASE c # d /\ Investigates(c)
    <3>1. job'[c] = [job[c] EXCEPT !.alone = FALSE]
      BY <1>3, <2>2 DEF Investigate
    <3>2. QED BY <1>1, <2>2, <3>1 DEF Jobs
  <2>3. CASE c # d /\ ~Investigates(c)
    <3>1. job'[c] = job[c]
      BY <1>3, <2>3 DEF Investigate
    <3>2. QED BY <2>3, <3>1 DEF Investigates
  <2>4. QED BY <2>1, <2>2, <2>3
<1>4. ASSUME NEW d \in Callers, c # d,
             \/ \E p \in Problems : Stage(d, p) \/ RemediateOne(d, p)
             \/ PipelineRun(d) \/ DemoReset(d) \/ Proceed(d) \/ AppendStep(d)
             \/ \E prop \in Proposal : Proposes(d, prop)
      PROVE  AsItWas
  <2>1. job'[c] = job[c]
    BY <1>1, <1>4
       DEF Stage, RemediateOne, PipelineRun, DemoReset, Proceed, AppendStep, Proposes, AgentEnds,
           RecordInvestigation, SetProposed, RecordStaged, RecordFixBranch, ReadPatches,
           RecordRunning, Remediate, RecordRun, ResetArtifacts, Starts, Returns, Moves
  <2>2. QED BY <2>1 DEF Investigates
<1>5. ASSUME \/ \E p \in Problems : Stage(c, p) \/ RemediateOne(c, p)
             \/ PipelineRun(c) \/ DemoReset(c)
      PROVE  FALSE
  <2>1. job'[c].at \in {"recordStaged", "recordRunning", "forApply", "artsReset"}
    BY <1>1, <1>5 DEF Stage, RemediateOne, PipelineRun, DemoReset, Starts, Idle
  <2>2. QED BY <2>1 DEF Investigates
<1>6. CASE \E prop \in Proposal : Proposes(c, prop)
  <2>1. PICK prop \in Proposal : Proposes(c, prop)
    BY <1>6
  <2>2. /\ Investigates(c) /\ job'[c] = [job[c] EXCEPT !.own = prop]
        /\ prop.by \in job[c].ids
    BY <1>1, <2>1 DEF Proposes, Investigates, At
  <2>3. job'[c].own = prop /\ job'[c].ids = job[c].ids
    BY <1>1, <2>2 DEF Jobs
  <2>4. QED BY <2>2, <2>3
<1>7. CASE Proceed(c)
  <2>1. CASE AgentEnds(c)
    <3>1. Investigates(c)
      BY <2>1 DEF AgentEnds, At, Investigates
    <3>2. CASE job' = [job EXCEPT ![c].at = "record", ![c].patches = Optional(latest)]
      <4>1. job'[c] = [job[c] EXCEPT !.at = "record", !.patches = Optional(latest)]
        BY <1>1, <3>2
      <4>2. QED BY <1>1, <3>1, <4>1 DEF Jobs
    <3>3. CASE Moves(c, "recordFailed")
      BY <1>1, <3>1, <3>3 DEF Moves, Jobs
    <3>4. CASE Returns(c)
      BY <1>1, <3>4 DEF Returns, Idle, Investigates
    <3>5. QED BY <2>1, <3>2, <3>3, <3>4 DEF AgentEnds
  <2>2. CASE RecordInvestigation(c)
    <3>1. Investigates(c)
      BY <2>2 DEF RecordInvestigation, At, Investigates
    <3>2. CASE Moves(c, "setProposed")
      BY <1>1, <3>1, <3>2 DEF Moves, Jobs
    <3>3. ~Returns(c)
      BY <1>1 DEF Returns, Idle, Investigates
    <3>4. ~Starts(c, "recordRunning", job[c].ids, job[c].patches)
      BY <1>1 DEF Starts, Idle, Investigates
    <3>5. QED BY <2>2, <3>2, <3>3, <3>4 DEF RecordInvestigation
  <2>3. CASE \/ SetProposed(c) \/ RecordStaged(c) \/ RecordFixBranch(c) \/ ReadPatches(c)
             \/ RecordRunning(c) \/ Remediate(c) \/ RecordRun(c) \/ ResetArtifacts(c)
    <3>1. job'[c].at \in {"idle", "branch", "recordRunning", "remediate", "recordRun"}
      <4>1. CASE Remediate(c)
        BY <1>1, <4>1 DEF Remediate, Jobs
      <4>2. CASE ReadPatches(c)
        BY <1>1, <4>2 DEF ReadPatches, Jobs
      <4>3. CASE ~Remediate(c) /\ ~ReadPatches(c)
        BY <1>1, <2>3, <4>3
           DEF SetProposed, RecordStaged, RecordFixBranch, RecordRunning,
               RecordRun, ResetArtifacts, Returns, Moves, Idle, Jobs
      <4>4. QED BY <4>1, <4>2, <4>3
    <3>2. QED BY <3>1 DEF Investigates
  <2>4. QED BY <1>7, <2>1, <2>2, <2>3 DEF Proceed
<1>8. CASE \E clear \in BOOLEAN : Restart(clear)
  BY <1>8 DEF Restart, Load, Idle, Investigates
<1>9. CASE \E d \in Callers : Requests(d)
  <2>1. PICK d \in Callers : Requests(d)
    BY <1>9
  <2>2. CASE \E p \in Problems : Investigate(d, p)
    BY <1>3, <2>2
  <2>3. CASE ~\E p \in Problems : Investigate(d, p)
    BY <1>4, <1>5, <2>1, <2>3 DEF Requests
  <2>4. QED BY <2>2, <2>3
<1>10. CASE \E d \in Callers : \/ Proceed(d) \/ AppendStep(d)
                               \/ \E prop \in Proposal : Proposes(d, prop)
  <2>1. PICK d \in Callers : \/ Proceed(d) \/ AppendStep(d)
                             \/ \E prop \in Proposal : Proposes(d, prop)
    BY <1>10
  <2>2. AppendStep(d) => UNCHANGED job
    BY DEF AppendStep
  <2>3. QED BY <1>2, <1>4, <1>6, <1>7, <2>1, <2>2
<1>11. CASE \/ \E p \in Problems : Unstage(p) \/ RecordConfirmed(p)
            \/ ClearStaged \/ ChangeTarget \/ ClearLatest \/ UNCHANGED vars
  BY <1>2, <1>11
     DEF Unstage, RecordConfirmed, ClearStaged, ChangeTarget, ClearLatest, vars
<1>12. QED BY <1>8, <1>9, <1>10, <1>11 DEF Next

\* So every investigation is of one problem, and what it proposes is for that one.
LEMMA ForOneStep == TypeOK /\ ForOne /\ [Next]_vars => ForOne'
<1> SUFFICES ASSUME TypeOK, ForOne, [Next]_vars, NEW c \in Callers, Investigates(c)'
             PROVE  \E p \in Problems : /\ job'[c].ids = {p}
                                        /\ job'[c].own # None => job'[c].own.by = p
  BY DEF ForOne
<1>1. CASE \E p \in Problems : job'[c].ids = {p} /\ job'[c].own = None
  BY <1>1
<1>2. CASE /\ Investigates(c) /\ job'[c].ids = job[c].ids
           /\ \/ job'[c].own = job[c].own
              \/ job'[c].own \in Proposal /\ job'[c].own.by \in job[c].ids
  <2>1. PICK p \in Problems : /\ job[c].ids = {p}
                              /\ job[c].own # None => job[c].own.by = p
    BY <1>2 DEF ForOne
  <2>2. QED BY <1>2, <2>1
<1>3. QED BY <1>1, <1>2, InvestigationsGoOn

\* Only SetProposed adds to the proposals kept.
LEMMA ProposedKept ==
  ASSUME Mirrored, [Next]_vars
  PROVE  \/ \E c \in Callers : SetProposed(c)
         \/ proposed' \in {proposed, [p \in Problems |-> None]}
BY DEF Mirrored, Next, Requests, Investigate, Stage, RemediateOne, PipelineRun, DemoReset,
       ResetPatches, Proceed, AgentEnds, RecordInvestigation, RecordStaged, RecordFixBranch,
       ReadPatches, RecordRunning, Remediate, RecordRun, ResetArtifacts, Proposes, AppendStep,
       Unstage, RecordConfirmed, ClearStaged, ChangeTarget, ClearLatest, Restart, Load, vars,
       patchStore

\* SetProposed records "the proposal produced when investigating a specific problem" as
\* long as no two investigations overlap and each that answers has made a proposal of its
\* own, whatever resets, batches and restarts come between.
THEOREM ProposalsOwn == Spec /\ []Apart => []ProposalIsOwn
<1>1. Init => Unmixed /\ Mirrored /\ ForOne /\ ProposalIsOwn
  BY DEF Init, Idle, Unmixed, AloneIsAlone, LatestIsOwn, OwnProposal, Investigates, At, Mirrored,
         ForOne, ProposalIsOwn
<1>2. TypeOK /\ Unmixed /\ Mirrored /\ ForOne /\ Apart /\ ProposalIsOwn /\ [Next]_vars
      => ProposalIsOwn'
  <2> SUFFICES ASSUME TypeOK, Unmixed, Mirrored, ForOne, Apart, ProposalIsOwn, [Next]_vars
               PROVE  ProposalIsOwn'
    OBVIOUS
  <2>1. CASE \E c \in Callers : SetProposed(c)
    <3>1. PICK c \in Callers : SetProposed(c)
      BY <2>1
    <3>2. PICK recorded \in [Problems -> Proposal \cup {None}] :
            /\ proposed' = recorded
            /\ \A p \in Problems :
                 IF p \in job[c].ids /\ job[c].patches # {} THEN recorded[p] \in job[c].patches
                                                            ELSE recorded[p] = proposed[p]
      BY <3>1 DEF SetProposed
    <3>3. At(c, "setProposed") /\ Investigates(c) /\ job[c].at = "setProposed"
      BY <3>1 DEF SetProposed, At, Investigates
    <3>4. job[c].own # None /\ job[c].patches \subseteq {job[c].own}
      BY <3>3 DEF Apart, Unmixed, OwnProposal
    <3>5. PICK q \in Problems : job[c].ids = {q} /\ job[c].own.by = q
      BY <3>3, <3>4 DEF ForOne
    <3>6. ASSUME NEW p \in Problems, proposed'[p] # None
          PROVE  proposed'[p].by = p
      <4>1. CASE p \in job[c].ids /\ job[c].patches # {}
        BY <3>2, <3>4, <3>5, <4>1
      <4>2. CASE ~(p \in job[c].ids /\ job[c].patches # {})
        BY <3>2, <3>6, <4>2 DEF ProposalIsOwn
      <4>3. QED BY <4>1, <4>2
    <3>7. QED BY <3>6 DEF ProposalIsOwn
  <2>2. CASE proposed' \in {proposed, [p \in Problems |-> None]}
    BY <2>2 DEF ProposalIsOwn
  <2>3. QED BY <2>1, <2>2, ProposedKept
<1>3. QED BY <1>1, <1>2, TypeInit, TypeStep, UnmixedStep, MirroredStep, ForOneStep, PTL DEF Spec

-----------------------------------------------------------------------------
(* What a run applies *)

OneOfEach(patches) == \A x, y \in patches : x.file = y.file => x = y

Before == {pair \in Nat \X Nat : pair[1] < pair[2]}

\* A set of numbers has a least one ...
LEMMA Least ==
  ASSUME NEW T, T \subseteq Nat, T # {}
  PROVE  \E n \in T : \A m \in T : n <= m
<1>1. IsWellFoundedOn(Before, Nat)
  BY NatLessThanWellFounded DEF OpToRel, Before
<1>2. PICK n \in T : \A m \in T : <<m, n>> \notin Before
  BY <1>1, WFMin
<1>3. ASSUME NEW m \in T
      PROVE  n <= m
  <2>1. n \in Nat /\ m \in Nat
    OBVIOUS
  <2>2. ~(m < n)
    BY <1>2, <2>1 DEF Before
  <2>3. QED BY <2>1, <2>2
<1>4. QED BY <1>3

\* ... and, if it is bounded, a greatest.
LEMMA Greatest ==
  ASSUME NEW k \in Nat, NEW T, T \subseteq 1..k, T # {}
  PROVE  \E n \in T : \A m \in T : m <= n
<1> DEFINE U == {i \in Nat : k - i \in T}
<1>1. U \subseteq Nat /\ U # {}
  <2>1. PICK n \in T : n \in 1..k
    OBVIOUS
  <2>2. k - n \in Nat /\ k - (k - n) = n
    BY <2>1
  <2>3. QED BY <2>2
<1>2. PICK i \in U : \A j \in U : i <= j
  BY <1>1, Least
<1>3. ASSUME NEW m \in T
      PROVE  m <= k - i
  <2>1. m \in 1..k /\ k - m \in Nat /\ k - (k - m) = m
    OBVIOUS
  <2>2. i <= k - m
    BY <1>2, <2>1
  <2>3. QED BY <2>1, <2>2
<1>4. QED BY <1>3

\* StagedForApply holds one patch of a file, and of each file in the batch the one that
\* was staged last.
LEMMA ForApplyExact ==
  ASSUME TypeOK
  PROVE  /\ OneOfEach(StagedForApply)
         /\ \A i \in 1..Len(staged) : \E j \in 1..Len(staged) :
              /\ staged[j].prop.file = staged[i].prop.file /\ j >= i
              /\ staged[j].prop \in StagedForApply
<1>1. Len(staged) \in Nat
  BY DEF TypeOK
<1>2. OneOfEach(StagedForApply)
  <2> SUFFICES ASSUME NEW x \in StagedForApply, NEW y \in StagedForApply, x.file = y.file
               PROVE  x = y
    BY DEF OneOfEach
  <2>1. PICK i \in 1..Len(staged) :
          /\ x = staged[i].prop
          /\ \A k \in 1..Len(staged) : k > i => staged[k].prop.file # staged[i].prop.file
    BY DEF StagedForApply
  <2>2. PICK j \in 1..Len(staged) :
          /\ y = staged[j].prop
          /\ \A k \in 1..Len(staged) : k > j => staged[k].prop.file # staged[j].prop.file
    BY DEF StagedForApply
  <2>3. ~(j > i) /\ ~(i > j)
    BY <2>1, <2>2
  <2>4. i = j
    BY <1>1, <2>3
  <2>5. QED BY <2>1, <2>2, <2>4
<1>3. ASSUME NEW i \in 1..Len(staged)
      PROVE  \E j \in 1..Len(staged) :
               /\ staged[j].prop.file = staged[i].prop.file /\ j >= i
               /\ staged[j].prop \in StagedForApply
  <2> DEFINE same == {k \in 1..Len(staged) : staged[k].prop.file = staged[i].prop.file}
  <2>1. PICK j \in same : \A k \in same : k <= j
    <3>1. same \subseteq 1..Len(staged) /\ same # {}
      OBVIOUS
    <3> HIDE DEF same
    <3>2. QED BY <1>1, <3>1, Greatest
  <2>2. j \in 1..Len(staged) /\ staged[j].prop.file = staged[i].prop.file /\ j >= i
    BY <1>1, <2>1
  <2>3. \A k \in 1..Len(staged) : k > j => staged[k].prop.file # staged[j].prop.file
    BY <1>1, <2>1, <2>2
  <2>4. staged[j].prop \in StagedForApply
    BY <2>2, <2>3 DEF StagedForApply
  <2>5. QED BY <2>2, <2>4
<1>4. QED BY <1>2, <1>3

\* What a request holds to apply is what it held, the latest proposal or the batch.
LEMMA PatchesComeFrom ==
  ASSUME TypeOK, [Next]_vars, NEW c \in Callers
  PROVE  job'[c].patches \in {job[c].patches, {}, Optional(latest), StagedForApply}
<1>1. job \in [Callers -> Jobs] /\ job[c] \in Jobs
  BY JobTyped DEF TypeOK
<1>2. CASE UNCHANGED job
  BY <1>2
<1>3. ASSUME NEW d \in Callers, c # d, ~\E p \in Problems : Investigate(d, p),
             Requests(d) \/ Proceed(d) \/ \E prop \in Proposal : Proposes(d, prop)
      PROVE  job'[c] = job[c]
  BY <1>1, <1>3
     DEF Requests, Stage, RemediateOne, PipelineRun, DemoReset, Proceed, Proposes, AgentEnds,
         RecordInvestigation, SetProposed, RecordStaged, RecordFixBranch, ReadPatches,
         RecordRunning, Remediate, RecordRun, ResetArtifacts, Starts, Returns, Moves
<1>4. ASSUME NEW d \in Callers, NEW p \in Problems, Investigate(d, p)
      PROVE  job'[c].patches \in {job[c].patches, {}}
  <2>1. CASE c = d
    BY <1>1, <1>4, <2>1 DEF Investigate, Idle
  <2>2. CASE c # d
    <3>1. job'[c] = [job[c] EXCEPT !.alone = FALSE] \/ job'[c] = job[c]
      BY <1>4, <2>2 DEF Investigate
    <3>2. QED BY <1>1, <3>1 DEF Jobs
  <2>3. QED BY <2>1, <2>2
<1>5. CASE \/ \E p \in Problems : Stage(c, p) \/ RemediateOne(c, p)
           \/ PipelineRun(c) \/ DemoReset(c)
  BY <1>1, <1>5 DEF Stage, RemediateOne, PipelineRun, DemoReset, Starts, Idle
<1>6. CASE Proceed(c)
  <2>1. CASE AgentEnds(c)
    BY <1>1, <2>1 DEF AgentEnds, Returns, Moves, Idle, Jobs
  <2>2. CASE RecordInvestigation(c)
    <3>1. CASE Moves(c, "setProposed")
      BY <1>1, <3>1 DEF Moves, Jobs
    <3>2. CASE Returns(c)
      BY <1>1, <3>2 DEF Returns, Idle
    <3>3. CASE Starts(c, "recordRunning", job[c].ids, job[c].patches)
      BY <1>1, <3>3 DEF Starts, Idle
    <3>4. QED BY <2>2, <3>1, <3>2, <3>3 DEF RecordInvestigation
  <2>3. CASE Remediate(c)
    <3> DEFINE given == IF job[c].patches = {} THEN Optional(latest) ELSE job[c].patches
    <3>1. PICK success \in BOOLEAN :
            job' = [job EXCEPT ![c].at = "recordRun", ![c].patches = given, ![c].ok = success]
      BY <2>3 DEF Remediate
    <3>2. given \in {job[c].patches, Optional(latest)}
      OBVIOUS
    <3> HIDE DEF given
    <3>3. job'[c].patches = given
      BY <1>1, <3>1 DEF Jobs
    <3>4. QED BY <3>2, <3>3
  <2>4. CASE ReadPatches(c)
    BY <1>1, <2>4 DEF ReadPatches, Jobs
  <2>5. CASE SetProposed(c) \/ RecordFixBranch(c) \/ ResetArtifacts(c)
    BY <1>1, <2>5 DEF SetProposed, RecordFixBranch, ResetArtifacts, Returns, Idle
  <2>6. CASE RecordStaged(c) \/ RecordRunning(c) \/ RecordRun(c)
    <3>1. (\E pos : Moves(c, pos)) \/ Returns(c)
      BY <2>6 DEF RecordStaged, RecordRunning, RecordRun
    <3>2. QED BY <1>1, <3>1 DEF Moves, Returns, Idle, Jobs
  <2>7. QED BY <1>6, <2>1, <2>2, <2>3, <2>4, <2>5, <2>6 DEF Proceed
<1>7. CASE \E prop \in Proposal : Proposes(c, prop)
  BY <1>1, <1>7 DEF Proposes, Jobs
<1>8. CASE \E clear \in BOOLEAN : Restart(clear)
  BY <1>8 DEF Restart, Load, Idle
<1>9. CASE \E d \in Callers : \/ Requests(d) \/ Proceed(d)
                              \/ \E prop \in Proposal : Proposes(d, prop)
  <2>1. PICK d \in Callers : \/ Requests(d) \/ Proceed(d)
                             \/ \E prop \in Proposal : Proposes(d, prop)
    BY <1>9
  <2>2. CASE \E p \in Problems : Investigate(d, p)
    BY <1>4, <2>2
  <2>3. CASE c # d /\ ~\E p \in Problems : Investigate(d, p)
    BY <1>3, <2>1, <2>3
  <2>4. CASE c = d /\ ~\E p \in Problems : Investigate(d, p)
    BY <1>5, <1>6, <1>7, <2>1, <2>4 DEF Requests
  <2>5. QED BY <2>2, <2>3, <2>4
<1>10. CASE \/ (\E d \in Callers : AppendStep(d))
            \/ \E p \in Problems : Unstage(p) \/ RecordConfirmed(p)
            \/ ClearStaged \/ ChangeTarget \/ ClearLatest \/ UNCHANGED vars
  BY <1>2, <1>10
     DEF AppendStep, Unstage, RecordConfirmed, ClearStaged, ChangeTarget, ClearLatest, vars
<1>11. QED BY <1>8, <1>9, <1>10 DEF Next

AppliesOnePerFile == \A c \in Callers : OneOfEach(job[c].patches)

LatestOfBatch ==
  \A i \in 1..Len(staged) : \E j \in i..Len(staged) :
    staged[j].prop.file = staged[i].prop.file /\ staged[j].prop \in StagedForApply

\* No run ever holds two patches of one file, whose whole contents would overwrite each
\* other in an order nobody chose; and of each file that the batch patches, what a run
\* would apply now is the patch staged last ("the most recently staged one wins"): no
\* file of the batch is left out.
THEOREM OnePatchPerFile == Spec => [](AppliesOnePerFile /\ LatestOfBatch)
<1>1. Init => AppliesOnePerFile
  BY DEF Init, AppliesOnePerFile, OneOfEach, Idle
<1>2. TypeOK /\ AppliesOnePerFile /\ [Next]_vars => AppliesOnePerFile'
  <2> SUFFICES ASSUME TypeOK, AppliesOnePerFile, [Next]_vars, NEW c \in Callers
               PROVE  OneOfEach(job'[c].patches)
    BY DEF AppliesOnePerFile, OneOfEach
  <2>1. OneOfEach(StagedForApply)
    BY ForApplyExact
  <2>2. OneOfEach({}) /\ OneOfEach(Optional(latest)) /\ OneOfEach(job[c].patches)
    BY DEF OneOfEach, Optional, AppliesOnePerFile
  <2>3. QED BY <2>1, <2>2, PatchesComeFrom
<1>3. TypeOK => LatestOfBatch
  <2> SUFFICES ASSUME TypeOK, NEW i \in 1..Len(staged)
               PROVE  \E j \in i..Len(staged) :
                        /\ staged[j].prop.file = staged[i].prop.file
                        /\ staged[j].prop \in StagedForApply
    BY DEF LatestOfBatch
  <2>1. PICK j \in 1..Len(staged) : /\ staged[j].prop.file = staged[i].prop.file /\ j >= i
                                    /\ staged[j].prop \in StagedForApply
    BY ForApplyExact
  <2>2. j \in i..Len(staged)
    BY <2>1 DEF TypeOK
  <2>3. QED BY <2>1, <2>2
<1>4. QED BY <1>1, <1>2, <1>3, TypeInit, TypeStep, PTL DEF Spec
=============================================================================
