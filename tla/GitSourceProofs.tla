--------------------------- MODULE GitSourceProofs ---------------------------
(***************************************************************************)
(* Proofs about the Git source manager, for every set of problems and      *)
(* fixes: the state is well formed, and only what a human asked to merge   *)
(* is ever in the working branch.                                          *)
(***************************************************************************)
EXTENDS GitSource, SequenceTheorems, TLAPS

CommitType == [history : SUBSET Nat, content : SUBSET Fixes, branch : Branches]

-----------------------------------------------------------------------------
(* Commits and contents *)

\* A commit that exists has a content and a history.
LEMMA CommitTyped ==
  ASSUME TypeOK
  PROVE  /\ Len(commits) \in Nat
         /\ \A c \in 1..Len(commits) : commits[c] \in CommitType
         /\ \A c \in 1..Len(commits) : Content(c) \in SUBSET Fixes
         /\ \A c \in 0..Len(commits) : History(c) \in SUBSET Nat
<1>1. commits \in Seq(CommitType)
  BY DEF TypeOK, CommitType
<1>2. /\ Len(commits) \in Nat
      /\ \A c \in 1..Len(commits) : commits[c] \in CommitType
  BY <1>1
<1>3. QED BY <1>2 DEF CommitType, Content, History, NoCommit

\* Appending a commit leaves the others as they are.
LEMMA CommitAppended ==
  ASSUME TypeOK, NEW ancestors \in SUBSET Nat, NEW content \in SUBSET Fixes,
         NEW branch \in Branches,
         commits' = Append(commits, Commit(ancestors, content, branch))
  PROVE  /\ commits' \in Seq(CommitType)
         /\ Len(commits') = Len(commits) + 1 /\ Len(commits) \in Nat
         /\ \A c \in 1..Len(commits) : commits'[c] = commits[c]
         /\ commits'[Len(commits) + 1] = Commit(ancestors, content, branch)
<1> DEFINE new == Commit(ancestors, content, branch)
<1>1. commits \in Seq(CommitType) /\ Len(commits) \in Nat
  BY DEF TypeOK, CommitType
<1> DEFINE past == ancestors \cup {Len(commits) + 1}
<1>a. past \in SUBSET Nat
  <2>1. Len(commits) + 1 \in Nat
    BY <1>1
  <2>2. QED BY <2>1
<1>b. new = [history |-> past, content |-> content, branch |-> branch]
  BY DEF Commit
<1> HIDE DEF past, new
<1>2. new \in CommitType
  BY <1>a, <1>b DEF CommitType
<1>3. QED BY <1>1, <1>2 DEF new

\* What a checkout and a merge leave in the file is made of fixes.
LEMMA FileTyped ==
  ASSUME TypeOK
  PROVE  /\ \A b \in Branches : local[b] # NoCommit => Content(local[b]) \in SUBSET Fixes
         /\ \A b \in Branches : local[b] # NoCommit => TreeOn(b) \in SUBSET Fixes
         /\ \A p \in Problems : (local[p] # NoCommit /\ Cloned) => MergedFile(p) \in SUBSET Fixes
<1>1. \A b \in Branches : local[b] # NoCommit => Content(local[b]) \in SUBSET Fixes
  <2> SUFFICES ASSUME NEW b \in Branches, local[b] # NoCommit
               PROVE  Content(local[b]) \in SUBSET Fixes
    OBVIOUS
  <2>1. local[b] \in 0..Len(commits) /\ Len(commits) \in Nat
    BY CommitTyped DEF TypeOK
  <2>2. local[b] \in 1..Len(commits)
    BY <2>1 DEF NoCommit
  <2>3. QED BY <2>2, CommitTyped
<1>2. \A b \in Branches : local[b] # NoCommit => TreeOn(b) \in SUBSET Fixes
  BY <1>1 DEF TreeOn, TypeOK
<1>3. \A p \in Problems : (local[p] # NoCommit /\ Cloned) => MergedFile(p) \in SUBSET Fixes
  BY <1>1 DEF MergedFile, Blend, Cloned, Branches
<1>4. QED BY <1>1, <1>2, <1>3

-----------------------------------------------------------------------------
(* Types *)

\* The state starts well formed: no clone, one commit on origin.
LEMMA InitType == Init => TypeOK
<1> SUFFICES ASSUME Init PROVE TypeOK
  OBVIOUS
<1> DEFINE root == [history |-> {1}, content |-> {}, branch |-> Working]
<1>1. root \in CommitType
  BY DEF CommitType, Branches
<1>2. commits = <<root>>
  BY DEF Init
<1> HIDE DEF root
<1>3. commits \in Seq(CommitType) /\ Len(commits) = 1
  BY <1>1, <1>2
<1>4. /\ Absent \in [Branches -> 0..1] /\ Unknown \in [Problems -> 0..1]
      /\ [Absent EXCEPT ![Working] = 1] \in [Branches -> 0..1]
  <2>1. 0 \in 0..1 /\ 1 \in 0..1
    OBVIOUS
  <2>2. Absent \in [Branches -> 0..1] /\ Unknown \in [Problems -> 0..1]
    BY <2>1 DEF Absent, Unknown, NoCommit
  <2>3. QED BY <2>1, <2>2
<1>5. patch \in [Problems -> [known : BOOLEAN, content : SUBSET Fixes]]
  BY DEF Init, Unread
<1>6. local[Working] = NoCommit
  BY DEF Init, Absent, Branches
<1>7. /\ local \in [Branches -> 0..Len(commits)] /\ remote \in [Branches -> 0..Len(commits)]
      /\ tracking \in [Problems -> 0..Len(commits)] /\ Len(commits) >= 1
  BY <1>3, <1>4 DEF Init
<1>8. ~Cloned /\ Working \in Branches
  BY <1>6 DEF Cloned, Branches
<1>9. QED BY <1>3, <1>5, <1>7, <1>8 DEF Init, TypeOK, CommitType

\* A merge leaves a well-formed log, file and head, and the tip it gives the
\* working branch exists.
LEMMA MergeType ==
  ASSUME TypeOK, NEW p \in Problems, Merge(p)
  PROVE  /\ commits' \in Seq(CommitType) /\ Len(commits') \in Nat
         /\ Len(commits) \in Nat /\ Len(commits) <= Len(commits')
         /\ MergedTip(p) \in 1..Len(commits')
         /\ head' = Working /\ tree' \in SUBSET Fixes
         /\ connected /\ Cloned
<1>1. connected /\ Cloned /\ local[p] # NoCommit /\ head' = Working
  BY DEF Merge, CanMerge, TypeOK
<1>2. /\ Working \in Branches /\ p \in Branches
      /\ local[p] \in 0..Len(commits) /\ local[Working] \in 0..Len(commits)
      /\ Len(commits) \in Nat /\ commits \in Seq(CommitType)
  BY CommitTyped DEF TypeOK, Branches, CommitType
<1>3. TreeOn(Working) \in SUBSET Fixes /\ MergedFile(p) \in SUBSET Fixes
  BY <1>1, <1>2, FileTyped DEF Cloned
<1>4. CASE UpToDate(p)
  BY <1>1, <1>2, <1>3, <1>4 DEF Merge, MergedTip, Cloned, NoCommit
<1>5. CASE ~UpToDate(p)
  <2>1. commits' = Append(commits, Commit(History(local[Working]) \cup History(local[p]),
                                          MergedFile(p), Working))
    BY <1>5 DEF Merge
  <2>2. History(local[Working]) \cup History(local[p]) \in SUBSET Nat
    BY <1>2, CommitTyped
  <2>3. commits' \in Seq(CommitType) /\ Len(commits') = Len(commits) + 1
    BY <1>2, <1>3, <2>1, <2>2, CommitAppended
  <2>4. tree' \in SUBSET Fixes
    BY <1>3, <1>5 DEF Merge, TypeOK
  <2>5. MergedTip(p) = Len(commits) + 1
    BY <1>5 DEF MergedTip
  <2>6. QED BY <1>1, <1>2, <2>3, <2>4, <2>5
<1>6. QED BY <1>4, <1>5

\* Every operation leaves the state well formed.
LEMMA TypeStep == TypeOK /\ [Next]_vars => TypeOK'
<1> SUFFICES ASSUME TypeOK, [Next]_vars PROVE TypeOK'
  OBVIOUS
<1> USE DEF config, manager, artifact, clone, repos
<1>1. /\ commits \in Seq(CommitType) /\ Len(commits) \in Nat
      /\ Working \in Branches /\ Problems \subseteq Branches
      /\ local \in [Branches -> 0..Len(commits)]
      /\ remote \in [Branches -> 0..Len(commits)]
  BY CommitTyped DEF TypeOK, CommitType, Branches
<1>2. ASSUME NEW p \in Problems, NEW f \in Fixes, Propose(p, f) PROVE TypeOK'
  <2>1. [known |-> TRUE, content |-> tree \cup {f}] \in [known : BOOLEAN, content : SUBSET Fixes]
    BY DEF TypeOK
  <2>2. patch' \in [Problems -> [known : BOOLEAN, content : SUBSET Fixes]]
    BY <1>2, <2>1 DEF TypeOK, Propose
  <2>3. QED BY <1>2, <2>2 DEF TypeOK, Propose, Cloned
<1>3. ASSUME NEW p \in Problems, Apply(p) PROVE TypeOK'
  BY <1>3 DEF TypeOK, Apply, Cloned
<1>4. ASSUME ResetTree PROVE TypeOK'
  <2>1. tree' \in SUBSET Fixes
    BY <1>4, FileTyped DEF ResetTree, TypeOK
  <2>2. QED BY <1>4, <2>1 DEF TypeOK, ResetTree, Cloned
<1>5. ASSUME NEW pushEnabled \in BOOLEAN, NEW autoMerge \in BOOLEAN,
             SetConfig(pushEnabled, autoMerge)
      PROVE  TypeOK'
  BY <1>5 DEF TypeOK, SetConfig, Cloned
<1>6. ASSUME Clone PROVE TypeOK'
  <2> DEFINE tip == IF remote[Working] # NoCommit THEN remote[Working] ELSE 1
  <2>1. tip \in 1..Len(commits)
    BY <1>1 DEF TypeOK, NoCommit
  <2>2. tree' \in SUBSET Fixes
    BY <1>6, <2>1, CommitTyped DEF Clone
  <2>3. local' \in [Branches -> 0..Len(commits)] /\ local'[Working] = tip
    BY <1>1, <1>6, <2>1 DEF Clone, Absent, NoCommit
  <2>4. QED BY <1>1, <1>6, <2>1, <2>2, <2>3 DEF TypeOK, Clone, Cloned, Rehydrated, NoCommit
<1>7. ASSUME Fetch PROVE TypeOK'
  <2>1. tree' \in SUBSET Fixes
    <3>1. TreeOn(Working) \in SUBSET Fixes
      BY <1>1, <1>7, FileTyped DEF Fetch, Cloned
    <3>2. remote[Working] # NoCommit => Content(remote[Working]) \in SUBSET Fixes
      BY <1>1, CommitTyped DEF NoCommit
    <3>3. QED BY <1>7, <3>1, <3>2 DEF Fetch
  <2>2. local' \in [Branches -> 0..Len(commits)] /\ local'[Working] # NoCommit
    BY <1>1, <1>7 DEF Fetch, Cloned
  <2>3. QED BY <1>1, <1>7, <2>1, <2>2 DEF TypeOK, Fetch, Cloned, Rehydrated
<1>8. ASSUME FetchBlocked PROVE TypeOK'
  BY <1>1, <1>8 DEF TypeOK, FetchBlocked, Cloned
<1>9. ASSUME ConnectFails PROVE TypeOK'
  BY <1>9 DEF TypeOK, ConnectFails, Cloned
<1>10. ASSUME DemoReset PROVE TypeOK'
  BY <1>10 DEF TypeOK, DemoReset, Cloned, Unread
<1>11. ASSUME LoseClone, UNCHANGED commits
       PROVE  /\ local' \in [Branches -> 0..Len(commits')]
              /\ tracking' \in [Problems -> 0..Len(commits')] /\ upstream' \subseteq Problems
              /\ head' \in Branches /\ tree' \subseteq Fixes /\ ~Cloned'
  BY <1>1, <1>11 DEF LoseClone, Absent, Unknown, NoCommit, Cloned
<1>12. ASSUME ResetWorkspace PROVE TypeOK'
  BY <1>11, <1>12 DEF TypeOK, ResetWorkspace
<1>13. ASSUME NEW clear \in BOOLEAN, NEW keepsClone \in BOOLEAN, Restart(clear, keepsClone)
       PROVE  TypeOK'
  <2>1. /\ branched' \subseteq Problems /\ confirmed' \subseteq Problems /\ listed' \subseteq Problems
        /\ patch' \in [Problems -> [known : BOOLEAN, content : SUBSET Fixes]]
        /\ connected' = FALSE /\ resetting' = FALSE /\ UNCHANGED <<config, commits, remote>>
    <3>1. CASE clear
      <4>1. Unread \in [known : BOOLEAN, content : SUBSET Fixes]
        BY DEF Unread
      <4>2. patch' \in [Problems -> [known : BOOLEAN, content : SUBSET Fixes]]
        BY <1>13, <3>1, <4>1 DEF Restart
      <4>3. QED BY <1>13, <3>1, <4>2 DEF Restart
    <3>2. CASE ~clear
      BY <1>13, <3>2 DEF TypeOK, Restart, Recovered, artifact
    <3>3. QED BY <3>1, <3>2
  <2>2. CASE keepsClone
    BY <1>13, <2>1, <2>2 DEF TypeOK, Restart, Cloned, clone, config
  <2>3. CASE ~keepsClone
    BY <1>11, <1>13, <2>1, <2>3 DEF TypeOK, Restart, config
  <2>4. QED BY <2>2, <2>3
<1>14. ASSUME OthersPush PROVE TypeOK'
  <2>1. remote[Working] \in 1..Len(commits)
    BY <1>1, <1>14 DEF OthersPush, NoCommit
  <2>2. /\ History(remote[Working]) \in SUBSET Nat
        /\ Content(remote[Working]) \in SUBSET Fixes
    BY <2>1, CommitTyped
  <2>3. commits' \in Seq(CommitType) /\ Len(commits') = Len(commits) + 1
    BY <1>1, <1>14, <2>2, CommitAppended DEF OthersPush
  <2>4. remote' \in [Branches -> 0..Len(commits')]
    BY <1>1, <1>14, <2>3 DEF OthersPush
  <2>5. /\ local' \in [Branches -> 0..Len(commits')]
        /\ tracking' \in [Problems -> 0..Len(commits')]
    BY <1>1, <1>14, <2>3 DEF OthersPush, TypeOK
  <2>6. QED BY <1>1, <1>14, <2>3, <2>4, <2>5 DEF TypeOK, OthersPush, CommitType, Cloned
<1>15. ASSUME NEW p \in Problems, CreateFixBranch(p) PROVE TypeOK'
  <2>1. /\ local' \in [Branches -> 0..Len(commits)]
        /\ local'[p] # NoCommit /\ local'[Working] # NoCommit
    BY <1>1, <1>15, GitSourceAssumption DEF CreateFixBranch, TypeOK, Cloned
  <2>2. Content(local'[p]) \in SUBSET Fixes
    BY <1>1, <2>1, CommitTyped DEF NoCommit
  <2>3. TreeOn(Working) \in SUBSET Fixes
    BY <1>1, <1>15, FileTyped DEF CreateFixBranch, TypeOK, Cloned
  <2>4. head' \in {p, Working} /\ tree' \in SUBSET Fixes
    BY <1>15, <2>2, <2>3 DEF CreateFixBranch, Checkout, TypeOK
  <2>5. QED BY <1>1, <1>15, <2>1, <2>4 DEF TypeOK, CreateFixBranch, Cloned
<1>16. ASSUME NEW p \in Problems, connected,
              local' = [local EXCEPT ![p] = Start(p)], UNCHANGED commits
       PROVE  /\ local' \in [Branches -> 0..Len(commits')] /\ Cloned'
              /\ local'[p] # NoCommit /\ Content(Start(p)) \in SUBSET Fixes
  BY <1>1, <1>16, FileTyped, GitSourceAssumption DEF Start, TypeOK, Cloned
<1>17. ASSUME NEW p \in Problems, CommitNothing(p) PROVE TypeOK'
  BY <1>1, <1>16, <1>17 DEF TypeOK, CommitNothing
<1>18. ASSUME NEW p \in Problems, CommitFails(p) PROVE TypeOK'
  BY <1>1, <1>16, <1>18 DEF TypeOK, CommitFails
<1>19. ASSUME NEW p \in Problems, NEW reached \in BOOLEAN, CommitPatch(p, reached)
       PROVE  TypeOK'
  <2> DEFINE tip == Len(commits) + 1
  <2>1. Start(p) \in 0..Len(commits) /\ patch[p].content \in SUBSET Fixes /\ p \in Branches
    BY <1>1 DEF Start, TypeOK
  <2>2. commits' \in Seq(CommitType) /\ Len(commits') = tip
    BY <1>19, <2>1, CommitTyped, CommitAppended DEF CommitPatch
  <2>3. tip \in 1..Len(commits') /\ tip # NoCommit
    BY <1>1, <2>2 DEF NoCommit
  <2>4. /\ local' = [local EXCEPT ![p] = tip]
        /\ remote' = remote \/ remote' = [remote EXCEPT ![p] = tip]
        /\ tracking' = tracking \/ tracking' = [tracking EXCEPT ![p] = tip]
        /\ upstream' \subseteq Problems /\ branched' \subseteq Problems
    BY <1>19 DEF CommitPatch, TypeOK
  <2>5. /\ local' \in [Branches -> 0..Len(commits')] /\ local'[p] = tip
        /\ local'[Working] = local[Working]
    BY <1>1, <2>1, <2>2, <2>3, <2>4, GitSourceAssumption
  <2>6. remote' \in [Branches -> 0..Len(commits')]
    BY <1>1, <2>1, <2>2, <2>3, <2>4
  <2>7. tracking' \in [Problems -> 0..Len(commits')]
    <3>1. tracking \in [Problems -> 0..Len(commits)]
      BY DEF TypeOK
    <3>2. tracking \in [Problems -> 0..Len(commits')]
      BY <1>1, <2>2, <3>1
    <3>3. QED BY <2>3, <2>4, <3>2
  <2>8. /\ push' \in BOOLEAN /\ auto' \in BOOLEAN /\ resetting' \in BOOLEAN
        /\ listed' \subseteq Problems /\ confirmed' \subseteq Problems /\ UNCHANGED patch
        /\ connected' = TRUE /\ connected /\ head' = p /\ tree' = patch[p].content
    BY <1>19 DEF TypeOK, CommitPatch, config
  <2> HIDE DEF tip
  <2>9. Cloned' /\ local'[head'] # NoCommit
    BY <2>3, <2>5, <2>8 DEF TypeOK, Cloned
  <2>10. /\ commits' \in Seq([history : SUBSET Nat, content : SUBSET Fixes, branch : Branches])
         /\ Len(commits') >= 1
    BY <2>2, <2>3 DEF CommitType
  <2>11. /\ patch' \in [Problems -> [known : BOOLEAN, content : SUBSET Fixes]]
         /\ tree' \subseteq Fixes /\ head' \in Branches /\ connected' \in BOOLEAN
    BY <2>1, <2>8 DEF TypeOK
  <2>12. QED BY <2>4, <2>5, <2>6, <2>7, <2>8, <2>9, <2>10, <2>11 DEF TypeOK
<1>20. ASSUME NEW p \in Problems, MergeAborted(p) PROVE TypeOK'
  <2>1. TreeOn(Working) \in SUBSET Fixes /\ Cloned
    BY <1>1, <1>20, FileTyped DEF MergeAborted, CanMerge, TypeOK, Cloned
  <2>2. QED BY <1>1, <1>20, <2>1 DEF TypeOK, MergeAborted, Checkout, Cloned
<1>21. ASSUME NEW p \in Problems, ConfirmUnpushed(p) PROVE TypeOK'
  <2>1. Merge(p)
    BY <1>21 DEF ConfirmUnpushed
  <2>2. /\ commits' \in Seq(CommitType) /\ Len(commits') \in Nat /\ Len(commits) <= Len(commits')
        /\ MergedTip(p) \in 1..Len(commits') /\ head' = Working /\ tree' \in SUBSET Fixes
    BY <2>1, MergeType
  <2>3. /\ local' \in [Branches -> 0..Len(commits')] /\ local'[Working] # NoCommit
        /\ remote' \in [Branches -> 0..Len(commits')]
        /\ tracking' \in [Problems -> 0..Len(commits')]
    BY <1>1, <1>21, <2>2 DEF ConfirmUnpushed, TypeOK, NoCommit
  <2>4. UNCHANGED <<config, manager, artifact, patch, resetting, upstream>>
    BY <1>21 DEF ConfirmUnpushed
  <2>5. Len(commits') >= 1 /\ local'[head'] # NoCommit /\ Cloned'
    BY <1>1, <2>2, <2>3 DEF TypeOK, Cloned
  <2>6. QED BY <1>1, <2>2, <2>3, <2>4, <2>5 DEF TypeOK, CommitType
<1>22. ASSUME NEW p \in Problems, Merge(p),
              NEW ps \in SUBSET Problems, NEW gone,
              DeleteBranches(ps, gone, [local EXCEPT ![Working] = MergedTip(p)],
                IF push THEN [remote EXCEPT ![Working] = MergedTip(p)] ELSE remote,
                Working, History(local[Working]) \cup History(local[p]))
       PROVE  /\ commits' \in Seq(CommitType) /\ Len(commits') >= 1
              /\ local' \in [Branches -> 0..Len(commits')]
              /\ remote' \in [Branches -> 0..Len(commits')]
              /\ tracking' \in [Problems -> 0..Len(commits')] /\ upstream' \subseteq Problems
              /\ head' \in Branches /\ tree' \subseteq Fixes
              /\ Cloned' /\ local'[head'] # NoCommit
  <2> DEFINE refs   == [local EXCEPT ![Working] = MergedTip(p)]
             origin == IF push THEN [remote EXCEPT ![Working] = MergedTip(p)] ELSE remote
             past   == History(local[Working]) \cup History(local[p])
  <2>1. /\ commits' \in Seq(CommitType) /\ Len(commits') \in Nat /\ Len(commits) <= Len(commits')
        /\ MergedTip(p) \in 1..Len(commits') /\ head' = Working /\ tree' \in SUBSET Fixes
    BY <1>22, MergeType
  <2>2. /\ refs \in [Branches -> 0..Len(commits')] /\ refs[Working] # NoCommit
        /\ origin \in [Branches -> 0..Len(commits')]
        /\ tracking \in [Problems -> 0..Len(commits')]
    BY <1>1, <2>1 DEF TypeOK, NoCommit
  <2> HIDE DEF refs, origin, past
  <2>3. DeleteBranches(ps, gone, refs, origin, Working, past)
    BY <1>22 DEF refs, origin, past
  <2>4. /\ local' \in [Branches -> 0..Len(commits')]
        /\ remote' \in [Branches -> 0..Len(commits')]
        /\ tracking' \in [Problems -> 0..Len(commits')] /\ upstream' \subseteq Problems
        /\ local'[Working] = refs[Working]
    <3>1. upstream \subseteq Problems
      BY DEF TypeOK
    <3>2. QED BY <1>1, <2>1, <2>2, <2>3, <3>1, GitSourceAssumption DEF DeleteBranches, NoCommit
  <2>5. Len(commits') >= 1
    BY <1>1, <2>1 DEF TypeOK
  <2>6. QED BY <1>1, <2>1, <2>2, <2>4, <2>5 DEF Cloned
<1>23. ASSUME NEW p \in Problems, NEW gone \in SUBSET Problems, ConfirmFix(p, gone)
       PROVE  TypeOK'
  <2> DEFINE ps == IF auto THEN {p} ELSE {}
  <2>1. ps \in SUBSET Problems
    OBVIOUS
  <2>2. /\ Merge(p)
        /\ DeleteBranches(ps, IF auto THEN gone ELSE {}, [local EXCEPT ![Working] = MergedTip(p)],
             IF push THEN [remote EXCEPT ![Working] = MergedTip(p)] ELSE remote,
             Working, History(local[Working]) \cup History(local[p]))
        /\ listed' \subseteq Problems /\ confirmed' \subseteq Problems
        /\ UNCHANGED <<config, connected, branched, patch, resetting>>
    BY <1>23 DEF ConfirmFix, TypeOK
  <2> HIDE DEF ps
  <2>3. /\ commits' \in Seq(CommitType) /\ Len(commits') >= 1
        /\ local' \in [Branches -> 0..Len(commits')]
        /\ remote' \in [Branches -> 0..Len(commits')]
        /\ tracking' \in [Problems -> 0..Len(commits')] /\ upstream' \subseteq Problems
        /\ head' \in Branches /\ tree' \subseteq Fixes
        /\ Cloned' /\ local'[head'] # NoCommit
    BY <1>22, <2>1, <2>2
  <2>4. QED BY <2>2, <2>3 DEF TypeOK, CommitType
<1>24. ASSUME NEW p \in Problems, NEW deleted \in BOOLEAN, NEW gone \in SUBSET Problems,
              ConfirmDies(p, deleted, gone)
       PROVE  TypeOK'
  <2> DEFINE ps == IF deleted THEN {p} ELSE {}
  <2>1. ps \in SUBSET Problems
    OBVIOUS
  <2>2. /\ Merge(p)
        /\ DeleteBranches(ps, gone, [local EXCEPT ![Working] = MergedTip(p)],
             IF push THEN [remote EXCEPT ![Working] = MergedTip(p)] ELSE remote,
             Working, History(local[Working]) \cup History(local[p]))
        /\ listed' \subseteq Problems /\ connected' = FALSE /\ resetting' = FALSE
        /\ UNCHANGED <<config, artifact, patch>>
    BY <1>24 DEF ConfirmDies, Recovered, TypeOK
  <2> HIDE DEF ps
  <2>3. /\ commits' \in Seq(CommitType) /\ Len(commits') >= 1
        /\ local' \in [Branches -> 0..Len(commits')]
        /\ remote' \in [Branches -> 0..Len(commits')]
        /\ tracking' \in [Problems -> 0..Len(commits')] /\ upstream' \subseteq Problems
        /\ head' \in Branches /\ tree' \subseteq Fixes
        /\ Cloned' /\ local'[head'] # NoCommit
    BY <1>22, <2>1, <2>2
  <2>4. QED BY <2>2, <2>3 DEF TypeOK, CommitType
<1>25. ASSUME NEW gone \in SUBSET Problems, CleanupConfirmed(gone) PROVE TypeOK'
  <2> DEFINE done == {p \in Problems : Disposable(p) /\ local[p] # NoCommit}
             on   == IF CanCheckout(Working) THEN Working ELSE head
  <2>1. done \in SUBSET Problems /\ on \in Branches /\ local[on] # NoCommit /\ Cloned
    BY <1>1, <1>25 DEF CleanupConfirmed, TypeOK, Cloned
  <2>2. head' = on /\ tree' \in SUBSET Fixes
    BY <1>1, <1>25, <2>1, FileTyped DEF CleanupConfirmed, Checkout, TypeOK, Cloned
  <2>3. /\ DeleteBranches(done, gone, local, remote, on, History(local[on]))
        /\ listed' \subseteq Problems
        /\ UNCHANGED <<config, connected, artifact, patch, resetting, commits>>
    BY <1>25 DEF CleanupConfirmed, TypeOK
  <2> HIDE DEF done, on
  <2>4. /\ local' \in [Branches -> 0..Len(commits)] /\ remote' \in [Branches -> 0..Len(commits)]
        /\ tracking' \in [Problems -> 0..Len(commits)] /\ upstream' \subseteq Problems
        /\ local'[Working] = local[Working] /\ local'[on] = local[on]
    <3>1. upstream \subseteq Problems /\ tracking \in [Problems -> 0..Len(commits)]
      BY DEF TypeOK
    <3>2. \A p \in done : p = on => ~Deletable(p, on, History(local[on]))
      BY DEF Deletable
    <3>3. QED BY <1>1, <2>1, <2>3, <3>1, <3>2, GitSourceAssumption DEF DeleteBranches, NoCommit
  <2>5. QED BY <1>1, <2>1, <2>2, <2>3, <2>4 DEF TypeOK, CommitType, Cloned
<1>26. CASE UNCHANGED vars
  BY <1>26 DEF TypeOK, vars, Cloned
<1>27. QED
  BY <1>2, <1>3, <1>4, <1>5, <1>6, <1>7, <1>8, <1>9, <1>10, <1>12, <1>13, <1>14, <1>15,
     <1>17, <1>18, <1>19, <1>20, <1>21, <1>23, <1>24, <1>25, <1>26 DEF Next

\* The state is well formed in every behaviour: a connected manager has a clone,
\* and the branch checked out in it exists.
THEOREM TypeCorrect == Spec => []TypeOK
<1>1. QED BY InitType, TypeStep, PTL DEF Spec

-----------------------------------------------------------------------------
(* The merge gate *)

\* In a log with some tips approved: the commits of S that were made on a fix
\* branch are approved.
Vetted(log, ok, S) == \A c \in S : log[c].branch \in Problems => c \in ok

\* What may be the tip of the working branch, and of a fix branch: no commit
\* that was not approved, but for the fix branch's own last one.
Past(log, c)       == IF c = NoCommit THEN {} ELSE log[c].history
Good(log, ok, c)   == Vetted(log, ok, Past(log, c))
Nearly(log, ok, c) == Vetted(log, ok, Past(log, c) \ {c})

\* The log is closed: histories name commits that exist, the first one is nobody's.
Closed(log) ==
  /\ \A c \in 1..Len(log) : log[c].history \subseteq 1..Len(log)
  /\ log[1].history = {1} /\ log[1].branch = Working

Gate ==
  /\ Closed(commits)
  /\ Good(commits, approved, local[Working]) /\ Good(commits, approved, remote[Working])
  /\ \A p \in Problems : Nearly(commits, approved, local[p])

\* The log grows, stays closed, and approvals are kept.
Grows ==
  /\ Closed(commits')
  /\ \A c \in 1..Len(commits) : commits'[c] = commits[c]
  /\ approved \subseteq approved'

\* What is good stays good while the log grows; the root and no commit are good.
LEMMA GoodStays ==
  ASSUME TypeOK, Gate, Grows
  PROVE  \A c \in 0..Len(commits) :
           /\ Good(commits, approved, c) => Good(commits', approved', c)
           /\ Nearly(commits, approved, c) => Nearly(commits', approved', c)
           /\ Good(commits, approved, c) => Nearly(commits', approved', c)
           /\ c \in {0, 1} => Good(commits, approved, c)
<1> SUFFICES ASSUME NEW c \in 0..Len(commits)
             PROVE  /\ Good(commits, approved, c) => Good(commits', approved', c)
                    /\ Nearly(commits, approved, c) => Nearly(commits', approved', c)
                    /\ Good(commits, approved, c) => Nearly(commits', approved', c)
                    /\ c \in {0, 1} => Good(commits, approved, c)
  OBVIOUS
<1>1. Len(commits) \in Nat /\ Len(commits) >= 1
  BY CommitTyped DEF TypeOK
<1>2. CASE c = 0
  BY <1>2 DEF Good, Nearly, Vetted, Past, NoCommit
<1>3. CASE c \in 1..Len(commits)
  <2>1. /\ Past(commits, c) \subseteq 1..Len(commits)
        /\ Past(commits', c) = Past(commits, c)
    BY <1>1, <1>3 DEF Gate, Closed, Grows, Past, NoCommit
  <2>2. \A d \in Past(commits, c) : commits'[d] = commits[d]
    BY <2>1 DEF Grows
  <2>3. c = 1 => Good(commits, approved, c)
    BY <1>1, GitSourceAssumption DEF Gate, Closed, Good, Vetted, Past, NoCommit
  <2>4. QED BY <1>1, <1>3, <2>1, <2>2, <2>3 DEF Good, Nearly, Vetted, Grows
<1>4. QED BY <1>1, <1>2, <1>3

\* A step that moves the refs only to commits that are good for them keeps the
\* gate.
LEMMA RefsMove ==
  ASSUME TypeOK, Gate, Grows, NEW tip, Good(commits', approved', tip),
         local'[Working] \in {NoCommit, 1, local[Working], remote[Working], tip},
         remote'[Working] \in {remote[Working], tip},
         \A p \in Problems : \/ local'[p] \in {NoCommit, local[p], local[Working]}
                             \/ Nearly(commits', approved', local'[p])
  PROVE  Gate'
<1>1. /\ Len(commits) \in Nat /\ Len(commits) >= 1
      /\ local[Working] \in 0..Len(commits) /\ remote[Working] \in 0..Len(commits)
      /\ \A p \in Problems : local[p] \in 0..Len(commits)
  BY CommitTyped DEF TypeOK, Branches
<1>2. /\ \A c \in {NoCommit, 1, local[Working], remote[Working]} : Good(commits', approved', c)
      /\ \A c \in {NoCommit, local[Working]} : Nearly(commits', approved', c)
      /\ \A p \in Problems : Nearly(commits', approved', local[p])
  BY <1>1, GoodStays DEF Gate, NoCommit
<1>3. Good(commits', approved', local'[Working]) /\ Good(commits', approved', remote'[Working])
  BY <1>2
<1>4. \A p \in Problems : Nearly(commits', approved', local'[p])
  BY <1>2
<1>5. QED BY <1>3, <1>4 DEF Gate, Grows

\* An operation that makes no commit and moves refs only to what is there.
LEMMA NoCommitMade ==
  ASSUME TypeOK, Gate, UNCHANGED commits, approved \subseteq approved',
         local'[Working] \in {NoCommit, 1, local[Working], remote[Working]},
         remote'[Working] = remote[Working],
         \A p \in Problems : local'[p] \in {NoCommit, local[p], local[Working]}
  PROVE  Gate'
<1>1. Grows /\ Len(commits) \in Nat /\ Len(commits) >= 1
  BY CommitTyped DEF Gate, Grows, TypeOK
<1>2. Good(commits', approved', 1)
  BY <1>1, GoodStays
<1>3. QED BY <1>1, <1>2, RefsMove

\* A log closed under histories stays so when a commit is added on top of commits
\* that exist.
LEMMA ClosedAppend ==
  ASSUME TypeOK, Closed(commits), NEW content \in SUBSET Fixes, NEW branch \in Branches,
         NEW ancestors \in SUBSET (1..Len(commits)),
         commits' = Append(commits, Commit(ancestors, content, branch))
  PROVE  /\ Closed(commits') /\ \A c \in 1..Len(commits) : commits'[c] = commits[c]
         /\ commits'[Len(commits) + 1] = Commit(ancestors, content, branch)
<1>1. ancestors \in SUBSET Nat
  BY CommitTyped
<1>2. /\ Len(commits') = Len(commits) + 1 /\ Len(commits) \in Nat
      /\ \A c \in 1..Len(commits) : commits'[c] = commits[c]
      /\ commits'[Len(commits) + 1] = Commit(ancestors, content, branch)
  BY <1>1, CommitAppended
<1>3. Len(commits) >= 1
  BY DEF TypeOK
<1>4. \A c \in 1..Len(commits') : commits'[c].history \subseteq 1..Len(commits')
  <2> SUFFICES ASSUME NEW c \in 1..Len(commits')
               PROVE  commits'[c].history \subseteq 1..Len(commits')
    OBVIOUS
  <2>1. CASE c \in 1..Len(commits)
    BY <1>2, <2>1 DEF Closed
  <2>2. CASE c = Len(commits) + 1
    <3>1. commits'[c].history = ancestors \cup {Len(commits) + 1}
      BY <1>2, <2>2 DEF Commit
    <3>2. ancestors \subseteq 1..(Len(commits) + 1) /\ Len(commits) + 1 \in 1..(Len(commits) + 1)
      BY <1>2
    <3>3. QED BY <1>2, <3>1, <3>2
  <2>3. QED BY <1>2, <2>1, <2>2
<1>5. QED BY <1>2, <1>3, <1>4 DEF Closed

\* The history of a ref names commits that exist.
LEMMA PastExists ==
  ASSUME TypeOK, Gate
  PROVE  \A c \in 0..Len(commits) : /\ History(c) \in SUBSET (1..Len(commits))
                                    /\ History(c) = Past(commits, c)
BY CommitTyped DEF Gate, Closed, History, Past, NoCommit

\* The commit that CommitPatch makes is the only unapproved one on its branch.
LEMMA CommitNearly ==
  ASSUME TypeOK, Gate, NEW p \in Problems, NEW reached \in BOOLEAN, CommitPatch(p, reached)
  PROVE  Grows /\ Nearly(commits', approved', Len(commits) + 1)
<1> DEFINE tip == Len(commits) + 1
<1>1. /\ local[Working] \in 0..Len(commits) /\ Len(commits) \in Nat /\ p \in Branches
      /\ patch[p].content \in SUBSET Fixes
  BY CommitTyped DEF TypeOK, Branches
<1>2. /\ History(Start(p)) \in SUBSET (1..Len(commits))
      /\ History(Start(p)) = Past(commits, local[Working])
  BY <1>1, PastExists DEF Start
<1>3. /\ Closed(commits') /\ \A c \in 1..Len(commits) : commits'[c] = commits[c]
      /\ commits'[tip] = Commit(History(Start(p)), patch[p].content, p)
  BY <1>1, <1>2, ClosedAppend DEF CommitPatch, Gate
<1>4. Grows /\ approved' = approved
  BY <1>3 DEF Grows, CommitPatch
<1>5. Past(commits', tip) \ {tip} \subseteq Past(commits, local[Working])
  BY <1>1, <1>2, <1>3 DEF Past, Commit, NoCommit
<1> HIDE DEF tip
<1>6. Vetted(commits', approved', Past(commits', tip) \ {tip})
  BY <1>2, <1>3, <1>4, <1>5 DEF Vetted, Gate, Good
<1>7. QED BY <1>4, <1>6 DEF Nearly, tip

\* A merge asked for by a human adds to the working branch commits that are
\* approved, and the merge itself.
LEMMA MergeGood ==
  ASSUME TypeOK, Gate, NEW p \in Problems, Merge(p)
  PROVE  Grows /\ Good(commits', approved', MergedTip(p))
<1> DEFINE tip  == Len(commits) + 1
           past == History(local[Working]) \cup History(local[p])
<1>1. /\ local[Working] \in 0..Len(commits) /\ local[p] \in 0..Len(commits)
      /\ Len(commits) \in Nat /\ Working \in Branches
      /\ local[p] # NoCommit /\ Cloned /\ approved' = approved \cup {local[p]}
  BY CommitTyped DEF TypeOK, Branches, Merge, CanMerge
<1>2. past \in SUBSET (1..Len(commits))
      /\ past = Past(commits, local[Working]) \cup Past(commits, local[p])
  BY <1>1, PastExists
<1>3. Vetted(commits, approved', past)
  BY <1>1, <1>2 DEF Gate, Good, Nearly, Vetted
<1>4. CASE UpToDate(p)
  <2>1. UNCHANGED commits /\ MergedTip(p) = local[Working]
    BY <1>4 DEF Merge, MergedTip
  <2>2. QED BY <1>1, <1>2, <1>3, <2>1 DEF Grows, Gate, Good, Vetted
<1>5. CASE ~UpToDate(p)
  <2>1. MergedFile(p) \in SUBSET Fixes
    BY <1>1, FileTyped
  <2>2. commits' = Append(commits, Commit(past, MergedFile(p), Working))
    BY <1>5 DEF Merge
  <2> HIDE DEF past
  <2>3. /\ Closed(commits') /\ \A c \in 1..Len(commits) : commits'[c] = commits[c]
        /\ commits'[tip] = Commit(past, MergedFile(p), Working)
    BY <1>1, <1>2, <2>1, <2>2, ClosedAppend DEF Gate
  <2>4. Past(commits', tip) = past \cup {tip} /\ commits'[tip].branch \notin Problems
    BY <1>1, <2>3, GitSourceAssumption DEF Past, Commit, NoCommit
  <2>5. MergedTip(p) = tip
    BY <1>5 DEF MergedTip
  <2>6. Vetted(commits', approved', Past(commits', tip))
    BY <1>2, <1>3, <2>3, <2>4 DEF Vetted
  <2>7. QED BY <1>1, <2>3, <2>5, <2>6 DEF Grows, Good
<1>6. QED BY <1>4, <1>5

\* The gate is shut at the start.
LEMMA InitGate == Init => Gate
<1> SUFFICES ASSUME Init PROVE Gate
  OBVIOUS
<1>1. /\ Len(commits) = 1 /\ commits[1].history = {1} /\ commits[1].branch = Working
      /\ \A b \in Branches : local[b] = NoCommit
      /\ remote[Working] \in {NoCommit, 1}
  BY DEF Init, Absent, Branches, NoCommit
<1>2. Closed(commits)
  BY <1>1 DEF Closed
<1>3. \A c \in {NoCommit, 1} : Good(commits, approved, c) /\ Nearly(commits, approved, c)
  BY <1>1, GitSourceAssumption DEF Good, Nearly, Vetted, Past, NoCommit
<1>4. QED BY <1>1, <1>2, <1>3 DEF Gate, Branches

\* No operation opens the gate.
LEMMA GateStep == TypeOK /\ Gate /\ [Next]_vars => Gate'
<1> SUFFICES ASSUME TypeOK, Gate, [Next]_vars PROVE Gate'
  OBVIOUS
<1> USE DEF config, manager, artifact, clone, repos
<1>1. /\ local \in [Branches -> 0..Len(commits)] /\ remote \in [Branches -> 0..Len(commits)]
      /\ Working \in Branches /\ Problems \subseteq Branches /\ Working \notin Problems
  BY GitSourceAssumption DEF TypeOK, Branches
<1>2. ASSUME UNCHANGED <<commits, approved, local, remote>> PROVE Gate'
  BY <1>2, NoCommitMade
<1>3. ASSUME NEW p \in Problems, NEW f \in Fixes, Propose(p, f) PROVE Gate'
  BY <1>2, <1>3 DEF Propose
<1>4. ASSUME NEW p \in Problems, Apply(p) PROVE Gate'
  BY <1>2, <1>4 DEF Apply
<1>5. ASSUME ResetTree PROVE Gate'
  BY <1>2, <1>5 DEF ResetTree
<1>6. ASSUME NEW pushEnabled \in BOOLEAN, NEW autoMerge \in BOOLEAN,
             SetConfig(pushEnabled, autoMerge)
      PROVE  Gate'
  BY <1>2, <1>6 DEF SetConfig
<1>7. ASSUME Clone PROVE Gate'
  <2>1. /\ UNCHANGED <<commits, approved, remote>>
        /\ local'[Working] \in {1, remote[Working]}
        /\ \A p \in Problems : local'[p] = NoCommit
    BY <1>1, <1>7 DEF Clone, Absent
  <2>2. QED BY <2>1, NoCommitMade
<1>8. ASSUME Fetch PROVE Gate'
  <2>1. /\ UNCHANGED <<commits, approved, remote>>
        /\ local'[Working] \in {local[Working], remote[Working]}
        /\ \A p \in Problems : local'[p] = local[p]
    BY <1>1, <1>8 DEF Fetch
  <2>2. QED BY <2>1, NoCommitMade
<1>9. ASSUME FetchBlocked PROVE Gate'
  BY <1>2, <1>9 DEF FetchBlocked
<1>10. ASSUME ConnectFails PROVE Gate'
  BY <1>2, <1>10 DEF ConnectFails
<1>11. ASSUME DemoReset PROVE Gate'
  BY <1>2, <1>11 DEF DemoReset
<1>12. ASSUME LoseClone, UNCHANGED <<commits, approved, remote>> PROVE Gate'
  <2>1. \A b \in Branches : local'[b] = NoCommit
    BY <1>12 DEF LoseClone, Absent
  <2>2. QED BY <1>1, <1>12, <2>1, NoCommitMade
<1>13. ASSUME ResetWorkspace PROVE Gate'
  BY <1>12, <1>13 DEF ResetWorkspace
<1>14. ASSUME NEW clear \in BOOLEAN, NEW keepsClone \in BOOLEAN, Restart(clear, keepsClone)
       PROVE  Gate'
  BY <1>2, <1>12, <1>14 DEF Restart
<1>15. ASSUME OthersPush PROVE Gate'
  <2> DEFINE tip == Len(commits) + 1
             past == History(remote[Working])
  <2>1. /\ remote[Working] \in 0..Len(commits) /\ remote[Working] # NoCommit
        /\ Len(commits) \in Nat
    BY <1>1, <1>15, CommitTyped DEF OthersPush
  <2>2. Content(remote[Working]) \in SUBSET Fixes
    BY <2>1, CommitTyped DEF NoCommit
  <2>3. past \in SUBSET (1..Len(commits)) /\ past = Past(commits, remote[Working])
    BY <2>1, PastExists
  <2>4. commits' = Append(commits, Commit(past, Content(remote[Working]), Working))
    BY <1>15 DEF OthersPush
  <2>5. approved' = approved /\ local' = local
    BY <1>15 DEF OthersPush
  <2> HIDE DEF past
  <2>6. /\ Closed(commits') /\ \A c \in 1..Len(commits) : commits'[c] = commits[c]
        /\ commits'[tip] = Commit(past, Content(remote[Working]), Working)
    BY <1>1, <2>2, <2>3, <2>4, ClosedAppend DEF Gate
  <2>7. Past(commits', tip) = past \cup {tip} /\ commits'[tip].branch \notin Problems
    BY <1>1, <2>1, <2>6 DEF Past, Commit, NoCommit
  <2>8. Good(commits', approved', tip)
    BY <2>3, <2>5, <2>6, <2>7 DEF Good, Vetted, Gate
  <2>9. Grows
    BY <2>5, <2>6 DEF Grows
  <2>10. remote'[Working] = tip
    <3>1. Len(commits') = tip
      BY <2>2, <2>3, <2>4, <1>1, CommitTyped, CommitAppended
    <3>2. QED BY <1>1, <1>15, <3>1 DEF OthersPush
  <2>11. QED BY <2>5, <2>8, <2>9, <2>10, RefsMove
<1>16. ASSUME NEW p \in Problems, CreateFixBranch(p) PROVE Gate'
  <2>1. /\ UNCHANGED <<commits, approved, remote>>
        /\ local'[Working] = local[Working]
        /\ \A q \in Problems : local'[q] \in {local[q], local[Working]}
    BY <1>1, <1>16 DEF CreateFixBranch
  <2>2. QED BY <2>1, NoCommitMade
<1>17. ASSUME NEW p \in Problems, local' = [local EXCEPT ![p] = Start(p)],
              UNCHANGED <<commits, approved, remote>>
       PROVE  Gate'
  <2>1. /\ local'[Working] = local[Working]
        /\ \A q \in Problems : local'[q] \in {local[q], local[Working]}
    BY <1>1, <1>17 DEF Start
  <2>2. QED BY <1>17, <2>1, NoCommitMade
<1>18. ASSUME NEW p \in Problems, CommitNothing(p) PROVE Gate'
  BY <1>17, <1>18 DEF CommitNothing
<1>19. ASSUME NEW p \in Problems, CommitFails(p) PROVE Gate'
  BY <1>17, <1>19 DEF CommitFails
<1>20. ASSUME NEW p \in Problems, NEW reached \in BOOLEAN, CommitPatch(p, reached) PROVE Gate'
  <2> DEFINE tip == Len(commits) + 1
  <2>1. Grows /\ Nearly(commits', approved', tip)
    BY <1>20, CommitNearly
  <2>2. local' = [local EXCEPT ![p] = tip] /\ remote' \in {remote, [remote EXCEPT ![p] = tip]}
    BY <1>20 DEF CommitPatch
  <2>3. /\ local'[Working] = local[Working] /\ remote'[Working] = remote[Working]
        /\ \A q \in Problems : local'[q] \in {local[q], tip}
    BY <1>1, <2>2
  <2>4. Good(commits', approved', local[Working])
    BY <1>1, <2>1, GoodStays DEF Gate
  <2> HIDE DEF tip
  <2>5. \A q \in Problems : \/ local'[q] \in {NoCommit, local[q], local[Working]}
                            \/ Nearly(commits', approved', local'[q])
    BY <2>1, <2>3
  <2>6. QED BY <2>1, <2>3, <2>4, <2>5, RefsMove
<1>21. ASSUME NEW p \in Problems, MergeAborted(p) PROVE Gate'
  <2>1. UNCHANGED <<commits, local, remote>> /\ approved \subseteq approved'
    BY <1>21 DEF MergeAborted
  <2>2. QED BY <2>1, NoCommitMade
<1>22. ASSUME NEW p \in Problems, Merge(p), local'[Working] = MergedTip(p),
              remote'[Working] \in {remote[Working], MergedTip(p)},
              \A q \in Problems : local'[q] \in {NoCommit, local[q]}
       PROVE  Gate'
  <2>1. Grows /\ Good(commits', approved', MergedTip(p))
    BY <1>22, MergeGood
  <2>2. QED BY <1>22, <2>1, RefsMove
<1>23. ASSUME NEW p \in Problems, ConfirmUnpushed(p) PROVE Gate'
  <2>1. /\ Merge(p) /\ local'[Working] = MergedTip(p) /\ remote' = remote
        /\ \A q \in Problems : local'[q] = local[q]
    BY <1>1, <1>23 DEF ConfirmUnpushed
  <2>2. QED BY <1>22, <2>1
<1>24. ASSUME NEW p \in Problems, Merge(p), NEW ps \in SUBSET Problems, NEW gone \in SUBSET Problems,
              DeleteBranches(ps, gone, [local EXCEPT ![Working] = MergedTip(p)],
                IF push THEN [remote EXCEPT ![Working] = MergedTip(p)] ELSE remote,
                Working, History(local[Working]) \cup History(local[p]))
       PROVE  Gate'
  <2>1. /\ local'[Working] = MergedTip(p)
        /\ remote'[Working] \in {remote[Working], MergedTip(p)}
        /\ \A q \in Problems : local'[q] \in {NoCommit, local[q]}
    BY <1>1, <1>24 DEF DeleteBranches
  <2>2. QED BY <1>22, <1>24, <2>1
<1>25. ASSUME NEW p \in Problems, NEW gone \in SUBSET Problems, ConfirmFix(p, gone) PROVE Gate'
  <2> DEFINE ps  == IF auto THEN {p} ELSE {}
             off == IF auto THEN gone ELSE {}
  <2>1. ps \in SUBSET Problems /\ off \in SUBSET Problems
    OBVIOUS
  <2>2. /\ Merge(p)
        /\ DeleteBranches(ps, off, [local EXCEPT ![Working] = MergedTip(p)],
             IF push THEN [remote EXCEPT ![Working] = MergedTip(p)] ELSE remote,
             Working, History(local[Working]) \cup History(local[p]))
    BY <1>25 DEF ConfirmFix
  <2> HIDE DEF ps, off
  <2>3. QED BY <1>24, <2>1, <2>2
<1>26. ASSUME NEW p \in Problems, NEW deleted \in BOOLEAN, NEW gone \in SUBSET Problems,
              ConfirmDies(p, deleted, gone)
       PROVE  Gate'
  <2> DEFINE ps == IF deleted THEN {p} ELSE {}
  <2>1. ps \in SUBSET Problems
    OBVIOUS
  <2>2. /\ Merge(p)
        /\ DeleteBranches(ps, gone, [local EXCEPT ![Working] = MergedTip(p)],
             IF push THEN [remote EXCEPT ![Working] = MergedTip(p)] ELSE remote,
             Working, History(local[Working]) \cup History(local[p]))
    BY <1>26 DEF ConfirmDies
  <2> HIDE DEF ps
  <2>3. QED BY <1>24, <2>1, <2>2
<1>27. ASSUME NEW gone \in SUBSET Problems, CleanupConfirmed(gone) PROVE Gate'
  <2>1. /\ UNCHANGED <<commits, approved>>
        /\ local'[Working] = local[Working] /\ remote'[Working] = remote[Working]
        /\ \A q \in Problems : local'[q] \in {NoCommit, local[q]}
    BY <1>1, <1>27 DEF CleanupConfirmed, DeleteBranches
  <2>2. QED BY <2>1, NoCommitMade
<1>28. CASE UNCHANGED vars
  BY <1>2, <1>28 DEF vars
<1>29. QED
  BY <1>3, <1>4, <1>5, <1>6, <1>7, <1>8, <1>9, <1>10, <1>11, <1>13, <1>14, <1>15, <1>16, <1>18,
     <1>19, <1>20, <1>21, <1>23, <1>25, <1>26, <1>27, <1>28 DEF Next

\* The merge gate, in every behaviour: nothing made on a fix branch is in the
\* working branch, here or on origin, unless a human asked to merge that commit.
THEOREM GateHolds == Spec => []OnlyConfirmedMerges
<1>1. TypeOK /\ Gate => OnlyConfirmedMerges
  BY DEF TypeOK, Gate, Good, Vetted, Past, OnlyConfirmedMerges, History
<1>2. QED BY <1>1, InitGate, GateStep, TypeCorrect, PTL DEF Spec

-----------------------------------------------------------------------------
(* The history of the log *)

\* Every commit is in its own history, and with an ancestor come its ancestors.
Lined(log) ==
  \A c \in 1..Len(log) : /\ c \in log[c].history
                         /\ \A d \in log[c].history : log[d].history \subseteq log[c].history

\* Nobody's fix branch is the working branch's own last commit, and a clone that is
\* gone has no branches.
Trunk ==
  /\ local[Working] # NoCommit => commits[local[Working]].branch = Working
  /\ remote[Working] # NoCommit => commits[remote[Working]].branch = Working
  /\ ~Cloned => \A p \in Problems : local[p] = NoCommit

Lineage == Lined(commits) /\ Trunk

\* What the log leaves of a commit that was there: all of it.
Keeps == /\ Lined(commits') /\ Len(commits) <= Len(commits')
         /\ \A c \in 1..Len(commits) : commits'[c] = commits[c]

\* The ancestors of several tips are such a closed set.
LEMMA PastLined ==
  ASSUME TypeOK, Gate, Lined(commits)
  PROVE  \A c \in 0..Len(commits) :
           /\ \A d \in History(c) : commits[d].history \subseteq History(c)
           /\ c # NoCommit => c \in History(c)
BY CommitTyped DEF Lined, History, NoCommit

\* A commit on top of a closed set of ancestors.
LEMMA LinedAppend ==
  ASSUME TypeOK, Gate, Lined(commits), NEW content \in SUBSET Fixes, NEW branch \in Branches,
         NEW ancestors \in SUBSET (1..Len(commits)),
         \A d \in ancestors : commits[d].history \subseteq ancestors,
         commits' = Append(commits, Commit(ancestors, content, branch))
  PROVE  /\ Keeps /\ Len(commits') = Len(commits) + 1
         /\ commits'[Len(commits) + 1].branch = branch
         /\ commits'[Len(commits) + 1].history = ancestors \cup {Len(commits) + 1}
<1> DEFINE tip == Len(commits) + 1
<1>1. ancestors \in SUBSET Nat /\ Len(commits) \in Nat
  BY CommitTyped
<1>2. /\ Len(commits') = tip /\ \A c \in 1..Len(commits) : commits'[c] = commits[c]
      /\ commits'[tip] = Commit(ancestors, content, branch)
  BY <1>1, CommitAppended
<1>3. commits'[tip].history = ancestors \cup {tip} /\ commits'[tip].branch = branch
  BY <1>2 DEF Commit
<1>4. ASSUME NEW c \in 1..tip
      PROVE  /\ c \in commits'[c].history
             /\ \A d \in commits'[c].history : commits'[d].history \subseteq commits'[c].history
  <2>1. CASE c \in 1..Len(commits)
    <3>1. commits'[c] = commits[c] /\ commits[c].history \subseteq 1..Len(commits)
      BY <1>2, <2>1 DEF Gate, Closed
    <3>2. \A d \in commits[c].history : commits'[d] = commits[d]
      BY <1>2, <3>1
    <3>3. QED BY <2>1, <3>1, <3>2 DEF Lined
  <2>2. CASE c = tip
    <3>1. \A d \in ancestors : commits'[d] = commits[d]
      BY <1>2
    <3>2. \A d \in ancestors : commits'[d].history \subseteq ancestors
      BY <3>1
    <3>3. QED BY <1>3, <2>2, <3>2
  <2>3. c \in 1..Len(commits) \/ c = tip
    BY <1>1
  <2> HIDE DEF tip
  <2>4. QED BY <2>1, <2>2, <2>3
<1> HIDE DEF tip
<1>5. Lined(commits')
  BY <1>2, <1>4 DEF Lined
<1>6. QED BY <1>1, <1>2, <1>3, <1>5 DEF Keeps, tip

\* A merge makes a commit that has both branches in its history, or none is needed.
LEMMA MergeLined ==
  ASSUME TypeOK, Gate, Lineage, NEW p \in Problems, Merge(p)
  PROVE  /\ Keeps /\ Cloned /\ connected /\ local[p] # NoCommit
         /\ MergedTip(p) \in 1..Len(commits') /\ commits'[MergedTip(p)].branch = Working
         /\ History(local[p]) \subseteq commits'[MergedTip(p)].history
         /\ History(local[Working]) \subseteq commits'[MergedTip(p)].history
         /\ local[p] \in History(local[p])
<1> DEFINE past == History(local[Working]) \cup History(local[p])
<1>1. /\ local[Working] \in 1..Len(commits) /\ local[p] \in 1..Len(commits)
      /\ Len(commits) \in Nat /\ Working \in Branches /\ Cloned /\ connected
      /\ local[p] # NoCommit
  BY CommitTyped DEF TypeOK, Branches, Merge, CanMerge, Cloned, NoCommit
<1>2. /\ past \in SUBSET (1..Len(commits)) /\ local[p] \in History(local[p])
      /\ \A d \in past : commits[d].history \subseteq past
      /\ \A d \in History(local[Working]) : commits[d].history \subseteq History(local[Working])
  BY <1>1, PastExists, PastLined DEF Lineage
<1>3. CASE UpToDate(p)
  <2>1. UNCHANGED commits /\ MergedTip(p) = local[Working]
    BY <1>3 DEF Merge, MergedTip
  <2>2. History(local[p]) \subseteq History(local[Working])
    BY <1>1, <1>2, <1>3 DEF UpToDate, History
  <2>3. QED BY <1>1, <1>2, <2>1, <2>2 DEF Keeps, Lineage, Trunk, Cloned, History
<1>4. CASE ~UpToDate(p)
  <2>1. MergedFile(p) \in SUBSET Fixes
    BY <1>1, FileTyped
  <2>2. commits' = Append(commits, Commit(past, MergedFile(p), Working))
    BY <1>4 DEF Merge
  <2>3. History(local[p]) \subseteq past /\ History(local[Working]) \subseteq past
    OBVIOUS
  <2> HIDE DEF past
  <2>4. /\ Keeps /\ Len(commits') = Len(commits) + 1
        /\ commits'[Len(commits) + 1].branch = Working
        /\ commits'[Len(commits) + 1].history = past \cup {Len(commits) + 1}
    BY <1>1, <1>2, <2>1, <2>2, LinedAppend DEF Lineage
  <2>5. MergedTip(p) = Len(commits) + 1
    BY <1>4 DEF MergedTip
  <2>6. QED BY <1>1, <1>2, <2>3, <2>4, <2>5
<1>5. QED BY <1>3, <1>4

-----------------------------------------------------------------------------
(* What is open is listed *)

\* Refs of the working branch that move along the trunk only.
LEMMA TrunkMoves ==
  ASSUME TypeOK, Gate, Lineage, Keeps,
         \/ local'[Working] \in {NoCommit, 1, local[Working], remote[Working]}
         \/ commits'[local'[Working]].branch = Working,
         remote'[Working] = remote[Working] \/ commits'[remote'[Working]].branch = Working,
         Cloned' \/ (\A p \in Problems : local'[p] = NoCommit)
  PROVE  Lineage'
<1>1. /\ local[Working] \in 0..Len(commits) /\ remote[Working] \in 0..Len(commits)
      /\ Len(commits) \in Nat /\ Len(commits) >= 1 /\ commits[1].branch = Working
  BY CommitTyped DEF TypeOK, Branches, Gate, Closed
<1>2. \A c \in {1, local[Working], remote[Working]} \ {NoCommit} :
        commits'[c].branch = Working
  BY <1>1 DEF Lineage, Trunk, Keeps, NoCommit
<1>3. /\ local'[Working] # NoCommit => commits'[local'[Working]].branch = Working
      /\ remote'[Working] # NoCommit => commits'[remote'[Working]].branch = Working
  BY <1>2
<1>4. QED BY <1>3 DEF Lineage, Trunk, Keeps

\* A fix stays on the list, leaves it confirmed, or loses what it held.
LEMMA ListedStays ==
  ASSUME TypeOK, Lineage, OpenIsListed, connected,
         \A c \in 1..Len(commits) : commits'[c] = commits[c],
         \A p \in branched' \ confirmed' :
           \/ p \in listed'
           \/ /\ p \in branched \ confirmed /\ (p \in listed => p \in listed')
              /\ local'[p] \in {NoCommit, local[p], local[Working]}
  PROVE  OpenIsListed'
<1> SUFFICES ASSUME NEW p \in branched' \ confirmed', HoldsFix(p)', p \notin listed'
             PROVE  FALSE
  BY DEF OpenIsListed
<1>1. /\ p \in branched \ confirmed /\ p \notin listed /\ p \in Problems
      /\ local'[p] \in {local[p], local[Working]} /\ local'[p] # NoCommit
  BY DEF HoldsFix, TypeOK
<1>2. local'[p] \in 1..Len(commits)
  BY <1>1, CommitTyped DEF TypeOK, Branches, NoCommit
<1>3. commits[local'[p]].branch = p
  BY <1>2 DEF HoldsFix
<1>4. local'[p] # local[Working]
  BY <1>1, <1>3, GitSourceAssumption DEF Lineage, Trunk
<1>5. QED BY <1>1, <1>3, <1>4 DEF OpenIsListed, HoldsFix

\* An operation that leaves every ref as it is and takes nothing off the list.
LEMMA RefsStay ==
  ASSUME Lineage, OpenIsListed, UNCHANGED <<commits, local, remote, listed>>,
         connected' => connected, branched' \ confirmed' \subseteq branched \ confirmed
  PROVE  Lineage' /\ OpenIsListed'
BY DEF Lineage, Trunk, Cloned, OpenIsListed, HoldsFix

\* A log that does not change keeps all of itself.
LEMMA NothingMade ==
  ASSUME TypeOK, Lineage, UNCHANGED commits
  PROVE  Keeps
BY CommitTyped DEF Lineage, Keeps

\* At the start there is one commit, no branch and no list.
LEMMA InitLineage == Init => Lineage /\ OpenIsListed
<1> SUFFICES ASSUME Init PROVE Lineage /\ OpenIsListed
  OBVIOUS
<1>1. /\ Len(commits) = 1 /\ commits[1].history = {1} /\ commits[1].branch = Working
      /\ \A b \in Branches : local[b] = NoCommit
      /\ remote[Working] \in {NoCommit, 1} /\ ~connected
  BY DEF Init, Absent, Branches, NoCommit
<1>2. Lined(commits)
  BY <1>1 DEF Lined
<1>3. QED BY <1>1, <1>2 DEF Lineage, Trunk, OpenIsListed, Branches, NoCommit

\* Every operation keeps the history closed and what is open listed.
LEMMA LineageStep ==
  TypeOK /\ Gate /\ Lineage /\ OpenIsListed /\ [Next]_vars => Lineage' /\ OpenIsListed'
<1> SUFFICES ASSUME TypeOK, Gate, Lineage, OpenIsListed, [Next]_vars
             PROVE  Lineage' /\ OpenIsListed'
  OBVIOUS
<1> USE DEF config, manager, artifact, clone, repos
<1>1. /\ local \in [Branches -> 0..Len(commits)] /\ remote \in [Branches -> 0..Len(commits)]
      /\ Working \in Branches /\ Problems \subseteq Branches /\ Working \notin Problems
      /\ Len(commits) \in Nat /\ branched \subseteq Problems
      /\ connected => Cloned
  BY GitSourceAssumption, CommitTyped DEF TypeOK, Branches
<1>2. CASE \/ \E p \in Problems, f \in Fixes : Propose(p, f)
           \/ \E p \in Problems : Apply(p)
           \/ ResetTree
           \/ \E pushEnabled, autoMerge \in BOOLEAN : SetConfig(pushEnabled, autoMerge)
  BY <1>2, RefsStay DEF Propose, Apply, ResetTree, SetConfig
<1>3. CASE \/ FetchBlocked \/ ConnectFails \/ DemoReset
           \/ \E p \in Problems : MergeAborted(p)
  BY <1>3, RefsStay DEF FetchBlocked, ConnectFails, DemoReset, MergeAborted
<1>4. CASE Clone
  <2>1. /\ UNCHANGED <<commits, branched, confirmed, remote>>
        /\ local'[Working] \in {1, remote[Working]} /\ local'[Working] # NoCommit
        /\ listed' = Rehydrated(local')
    BY <1>1, <1>4 DEF Clone, Absent, NoCommit
  <2>2. Lineage'
    BY <2>1, NothingMade, TrunkMoves DEF Cloned
  <2>3. QED BY <1>1, <2>1, <2>2 DEF OpenIsListed, HoldsFix, Rehydrated
<1>5. CASE Fetch
  <2>1. /\ UNCHANGED <<commits, branched, confirmed, remote>>
        /\ local'[Working] \in {local[Working], remote[Working]} /\ local'[Working] # NoCommit
        /\ listed' = Rehydrated(local')
    BY <1>1, <1>5 DEF Fetch, Cloned
  <2>2. Lineage'
    BY <2>1, NothingMade, TrunkMoves DEF Cloned
  <2>3. QED BY <1>1, <2>1, <2>2 DEF OpenIsListed, HoldsFix, Rehydrated
<1>6. ASSUME LoseClone, UNCHANGED <<commits, remote>>, ~connected' PROVE Lineage' /\ OpenIsListed'
  <2>1. \A b \in Branches : local'[b] = NoCommit
    BY <1>6 DEF LoseClone, Absent
  <2>2. Lineage'
    BY <1>1, <1>6, <2>1, NothingMade, TrunkMoves
  <2>3. QED BY <1>6, <2>2 DEF OpenIsListed
<1>7. CASE ResetWorkspace
  BY <1>6, <1>7 DEF ResetWorkspace
<1>8. ASSUME NEW clear \in BOOLEAN, NEW keepsClone \in BOOLEAN, Restart(clear, keepsClone)
       PROVE  Lineage' /\ OpenIsListed'
  <2>1. CASE keepsClone
    BY <1>8, <2>1 DEF Restart, Lineage, Trunk, Cloned, OpenIsListed
  <2>2. CASE ~keepsClone
    BY <1>6, <1>8, <2>2 DEF Restart
  <2>3. QED BY <2>1, <2>2
<1>9. CASE OthersPush
  <2> DEFINE tip  == Len(commits) + 1
             past == History(remote[Working])
  <2>1. /\ remote[Working] \in 1..Len(commits)
        /\ past \in SUBSET (1..Len(commits)) /\ \A d \in past : commits[d].history \subseteq past
    BY <1>1, <1>9, PastExists, PastLined DEF OthersPush, NoCommit, Lineage
  <2>2. Content(remote[Working]) \in SUBSET Fixes
    BY <2>1, CommitTyped
  <2>3. commits' = Append(commits, Commit(past, Content(remote[Working]), Working))
    BY <1>9 DEF OthersPush
  <2> HIDE DEF past
  <2>4. Keeps /\ Len(commits') = tip /\ commits'[tip].branch = Working
    BY <1>1, <2>1, <2>2, <2>3, LinedAppend DEF Lineage
  <2>5. /\ UNCHANGED <<local, connected, listed, branched, confirmed>> /\ remote'[Working] = tip
    BY <1>1, <1>9, <2>4 DEF OthersPush
  <2> HIDE DEF tip
  <2>6. Lineage'
    BY <2>4, <2>5, TrunkMoves DEF Lineage, Trunk, Cloned
  <2>7. connected => OpenIsListed'
    BY <2>4, <2>5, ListedStays DEF Keeps, OpenIsListed
  <2>8. QED BY <2>5, <2>6, <2>7 DEF OpenIsListed
<1>10. ASSUME NEW p \in Problems, connected, Keeps, UNCHANGED <<confirmed>>,
              branched' \subseteq branched \cup {p}, listed' = listed \cup {p},
              remote'[Working] = remote[Working], local'[Working] = local[Working],
              \A q \in Problems \ {p} : local'[q] = local[q]
       PROVE  Lineage' /\ OpenIsListed'
  <2>1. Lineage'
    BY <1>1, <1>10, TrunkMoves DEF Cloned
  <2>2. \A q \in branched' \ confirmed' :
           \/ q \in listed'
           \/ q \in branched \ confirmed /\ local'[q] = local[q] /\ listed \subseteq listed'
    BY <1>1, <1>10
  <2>3. QED BY <1>10, <2>1, <2>2, ListedStays DEF Keeps
<1>11. ASSUME NEW p \in Problems, CreateFixBranch(p) PROVE Lineage' /\ OpenIsListed'
  BY <1>1, <1>10, <1>11, NothingMade DEF CreateFixBranch
<1>12. ASSUME NEW p \in Problems, CommitNothing(p) PROVE Lineage' /\ OpenIsListed'
  BY <1>1, <1>10, <1>12, NothingMade DEF CommitNothing
<1>13. ASSUME NEW p \in Problems, CommitFails(p) PROVE Lineage' /\ OpenIsListed'
  <2>1. /\ connected /\ UNCHANGED <<commits, remote, connected, listed, branched, confirmed>>
        /\ local'[Working] = local[Working]
        /\ \A q \in Problems : local'[q] \in {local[q], local[Working]}
    BY <1>1, <1>13 DEF CommitFails, Start
  <2>2. Lineage'
    BY <1>1, <2>1, NothingMade, TrunkMoves DEF Cloned
  <2>3. QED BY <1>1, <2>1, <2>2, ListedStays
<1>14. ASSUME NEW p \in Problems, NEW reached \in BOOLEAN, CommitPatch(p, reached)
       PROVE  Lineage' /\ OpenIsListed'
  <2>1. /\ local[Working] \in 0..Len(commits) /\ patch[p].content \in SUBSET Fixes /\ p \in Branches
    BY <1>1 DEF TypeOK
  <2>2. /\ History(Start(p)) \in SUBSET (1..Len(commits))
        /\ \A d \in History(Start(p)) : commits[d].history \subseteq History(Start(p))
    BY <2>1, PastExists, PastLined DEF Start, Lineage
  <2>3. commits' = Append(commits, Commit(History(Start(p)), patch[p].content, p))
    BY <1>14 DEF CommitPatch
  <2>4. Keeps
    BY <2>1, <2>2, <2>3, LinedAppend DEF Lineage
  <2>5. /\ connected /\ UNCHANGED confirmed /\ listed' = listed \cup {p}
        /\ branched' \subseteq branched \cup {p}
        /\ local'[Working] = local[Working] /\ remote'[Working] = remote[Working]
        /\ \A q \in Problems \ {p} : local'[q] = local[q]
    BY <1>1, <1>14 DEF CommitPatch
  <2>6. QED BY <1>10, <2>4, <2>5
<1>15. ASSUME NEW p \in Problems, Merge(p), local'[Working] = MergedTip(p),
              remote'[Working] \in {remote[Working], MergedTip(p)},
              \A q \in Problems : local'[q] \in {NoCommit, local[q]},
              branched' = branched, listed \subseteq listed' \cup confirmed' \/ ~connected',
              confirmed \subseteq confirmed'
       PROVE  Lineage' /\ OpenIsListed'
  <2>1. /\ Keeps /\ connected /\ MergedTip(p) \in 1..Len(commits')
        /\ commits'[MergedTip(p)].branch = Working
    BY <1>15, MergeLined
  <2>2. local'[Working] # NoCommit
    BY <1>15, <2>1 DEF NoCommit
  <2>3. Lineage'
    BY <1>15, <2>1, <2>2, TrunkMoves DEF Cloned
  <2>4. CASE ~connected'
    BY <2>3, <2>4 DEF OpenIsListed
  <2>5. CASE listed \subseteq listed' \cup confirmed'
    BY <1>1, <1>15, <2>1, <2>3, <2>5, ListedStays DEF Keeps
  <2>6. QED BY <1>15, <2>4, <2>5
<1>16. ASSUME NEW p \in Problems, ConfirmUnpushed(p) PROVE Lineage' /\ OpenIsListed'
  <2>1. /\ Merge(p) /\ local'[Working] = MergedTip(p) /\ remote' = remote
        /\ \A q \in Problems : local'[q] = local[q]
        /\ UNCHANGED <<branched, confirmed, listed>>
    BY <1>1, <1>16 DEF ConfirmUnpushed
  <2>2. QED BY <1>15, <2>1
<1>17. ASSUME NEW p \in Problems, NEW gone \in SUBSET Problems, ConfirmFix(p, gone)
       PROVE  Lineage' /\ OpenIsListed'
  <2>1. /\ Merge(p) /\ local'[Working] = MergedTip(p)
        /\ remote'[Working] \in {remote[Working], MergedTip(p)}
        /\ \A q \in Problems : local'[q] \in {NoCommit, local[q]}
    BY <1>1, <1>17 DEF ConfirmFix, DeleteBranches
  <2>2. branched' = branched /\ listed \subseteq listed' \cup confirmed' /\ confirmed \subseteq confirmed'
    BY <1>17 DEF ConfirmFix
  <2>3. QED BY <1>15, <2>1, <2>2
<1>18. ASSUME NEW p \in Problems, NEW deleted \in BOOLEAN, NEW gone \in SUBSET Problems,
              ConfirmDies(p, deleted, gone)
       PROVE  Lineage' /\ OpenIsListed'
  <2>1. /\ Merge(p) /\ local'[Working] = MergedTip(p)
        /\ remote'[Working] \in {remote[Working], MergedTip(p)}
        /\ \A q \in Problems : local'[q] \in {NoCommit, local[q]}
    BY <1>1, <1>18 DEF ConfirmDies, DeleteBranches
  <2>2. branched' = branched /\ ~connected' /\ confirmed' = confirmed
    BY <1>18 DEF ConfirmDies
  <2>3. QED BY <1>15, <2>1, <2>2
<1>19. ASSUME NEW gone \in SUBSET Problems, CleanupConfirmed(gone) PROVE Lineage' /\ OpenIsListed'
  <2>1. /\ connected /\ UNCHANGED <<commits, connected, branched, confirmed>>
        /\ local'[Working] = local[Working] /\ remote'[Working] = remote[Working]
        /\ \A q \in Problems : local'[q] \in {NoCommit, local[q]}
        /\ listed' = listed \ {p \in Problems : Disposable(p)}
    BY <1>1, <1>19 DEF CleanupConfirmed, DeleteBranches
  <2>2. Lineage'
    BY <1>1, <2>1, NothingMade, TrunkMoves DEF Cloned
  <2>3. QED BY <1>1, <2>1, <2>2, ListedStays DEF Disposable
<1>20. CASE UNCHANGED vars
  BY <1>20, RefsStay DEF vars
<1>21. QED
  BY <1>2, <1>3, <1>4, <1>5, <1>7, <1>8, <1>9, <1>11, <1>12, <1>13, <1>14, <1>16, <1>17, <1>18,
     <1>19, <1>20 DEF Next

\* The state, the gate and the history together, in every behaviour.
LEMMA LineageHolds == Spec => [](TypeOK /\ Gate /\ Lineage /\ OpenIsListed)
<1>1. QED BY InitType, TypeStep, InitGate, GateStep, InitLineage, LineageStep, PTL DEF Spec

\* While connected, every recorded fix branch that holds a fix and was not confirmed is
\* on the list the UI shows and the cleanup waits for.
THEOREM OpenListed == Spec => []OpenIsListed
<1>1. QED BY LineageHolds, PTL

-----------------------------------------------------------------------------
(* What is recorded is merged, what is unmerged is kept *)

\* Only a confirm that gets through records anything.
LEMMA OnlyConfirmRecords ==
  ASSUME Next, NEW p \in confirmed' \ confirmed
  PROVE  \E q \in Problems, gone \in SUBSET Problems : ConfirmFix(q, gone)
<1> USE DEF artifact
<1>1. CASE \/ \E q \in Problems, f \in Fixes : Propose(q, f)
           \/ \E q \in Problems : Apply(q)
           \/ ResetTree
           \/ \E pushEnabled, autoMerge \in BOOLEAN : SetConfig(pushEnabled, autoMerge)
           \/ Clone \/ Fetch \/ FetchBlocked \/ ConnectFails \/ DemoReset \/ ResetWorkspace
  BY <1>1 DEF Propose, Apply, ResetTree, SetConfig, Clone, Fetch, FetchBlocked, ConnectFails,
              DemoReset, ResetWorkspace
<1>2. CASE \/ \E clear, keepsClone \in BOOLEAN : Restart(clear, keepsClone)
           \/ OthersPush
           \/ \E q \in Problems : CreateFixBranch(q)
           \/ \E q \in Problems : CommitNothing(q)
           \/ \E q \in Problems : CommitFails(q)
           \/ \E q \in Problems, reached \in BOOLEAN : CommitPatch(q, reached)
  BY <1>2 DEF Restart, OthersPush, CreateFixBranch, CommitNothing, CommitFails, CommitPatch
<1>3. CASE \/ \E q \in Problems : MergeAborted(q)
           \/ \E q \in Problems : ConfirmUnpushed(q)
           \/ \E q \in Problems, deleted \in BOOLEAN, gone \in SUBSET Problems :
                 ConfirmDies(q, deleted, gone)
           \/ \E gone \in SUBSET Problems : CleanupConfirmed(gone)
  BY <1>3 DEF MergeAborted, ConfirmUnpushed, ConfirmDies, CleanupConfirmed
<1>4. QED BY <1>1, <1>2, <1>3 DEF Next

\* What a merge and the deletions after it leave of the refs of the working branch.
LEMMA MergedRefs ==
  ASSUME TypeOK, Gate, Lineage, NEW p \in Problems, Merge(p), NEW ps \in SUBSET {p},
         NEW gone \in SUBSET Problems,
         DeleteBranches(ps, gone, [local EXCEPT ![Working] = MergedTip(p)],
           IF push THEN [remote EXCEPT ![Working] = MergedTip(p)] ELSE remote,
           Working, History(local[Working]) \cup History(local[p]))
  PROVE  /\ History(local[p]) \subseteq commits'[local'[Working]].history
         /\ local[p] \in commits'[local'[Working]].history
         /\ push => remote'[Working] = local'[Working]
         /\ \A q \in Problems \ {p} : local'[q] = local[q]
<1>1. /\ local \in [Branches -> 0..Len(commits)] /\ remote \in [Branches -> 0..Len(commits)]
      /\ Working \in Branches /\ Problems \subseteq Branches /\ Working \notin Problems
  BY GitSourceAssumption DEF TypeOK, Branches
<1>2. /\ local'[Working] = MergedTip(p) /\ (push => remote'[Working] = MergedTip(p))
      /\ \A q \in Problems \ {p} : local'[q] = local[q]
  BY <1>1 DEF DeleteBranches
<1>3. /\ History(local[p]) \subseteq commits'[MergedTip(p)].history
      /\ local[p] \in History(local[p])
  BY MergeLined
<1>4. QED BY <1>2, <1>3

\* A fix is recorded as confirmed only when its branch, with all it is based on, is in
\* the working branch and, with push on, origin has it.
THEOREM RecordedMerged == Spec => RecordedIsMerged
<1>1. ASSUME TypeOK, Gate, Lineage, Next, NEW p \in confirmed' \ confirmed
      PROVE  /\ History(local[p]) \subseteq commits'[local'[Working]].history
             /\ push => remote'[Working] = local'[Working]
  <2>1. PICK q \in Problems, gone \in SUBSET Problems : ConfirmFix(q, gone)
    BY <1>1, OnlyConfirmRecords
  <2>2. p = q
    BY <1>1, <2>1 DEF ConfirmFix
  <2> DEFINE ps  == IF auto THEN {q} ELSE {}
             off == IF auto THEN gone ELSE {}
  <2>3. ps \in SUBSET {q} /\ off \in SUBSET Problems
    OBVIOUS
  <2>4. /\ Merge(q)
        /\ DeleteBranches(ps, off, [local EXCEPT ![Working] = MergedTip(q)],
             IF push THEN [remote EXCEPT ![Working] = MergedTip(q)] ELSE remote,
             Working, History(local[Working]) \cup History(local[q]))
    BY <2>1 DEF ConfirmFix
  <2> HIDE DEF ps, off
  <2>5. QED BY <1>1, <2>2, <2>3, <2>4, MergedRefs
<1>2. TypeOK /\ Gate /\ Lineage /\ [Next]_vars =>
        [\A p \in confirmed' \ confirmed :
           /\ History(local[p]) \subseteq commits'[local'[Working]].history
           /\ push => remote'[Working] = local'[Working]]_vars
  BY <1>1
<1>3. QED BY <1>2, LineageHolds, PTL DEF Spec, RecordedIsMerged

\* The clone is kept, and a fix branch of it goes away.
Lost(p)   == local[p] # NoCommit /\ local'[p] = NoCommit /\ local'[Working] # NoCommit
Merged(p) == local[p] \in commits'[local'[Working]].history

\* Only CleanupConfirmed takes a branch out of the clone that is not merged.
LEMMA OnlyCleanupLoses ==
  ASSUME TypeOK, Gate, Lineage, Next, NEW p \in Problems, Lost(p)
  PROVE  Merged(p) \/ \E gone \in SUBSET Problems : CleanupConfirmed(gone)
<1> USE DEF Lost, Merged, config, manager, artifact, clone, repos
<1>1. /\ local \in [Branches -> 0..Len(commits)] /\ Len(commits) \in Nat
      /\ Working \in Branches /\ Problems \subseteq Branches /\ Working \notin Problems
      /\ Cloned
  BY GitSourceAssumption, CommitTyped DEF TypeOK, Branches, Lineage, Trunk
<1>2. ASSUME local'[p] = local[p] PROVE FALSE
  BY <1>2
<1>3. CASE \/ \E q \in Problems, f \in Fixes : Propose(q, f)
           \/ \E q \in Problems : Apply(q)
           \/ ResetTree
           \/ \E pushEnabled, autoMerge \in BOOLEAN : SetConfig(pushEnabled, autoMerge)
           \/ FetchBlocked \/ ConnectFails \/ DemoReset \/ OthersPush
           \/ \E q \in Problems : MergeAborted(q)
  BY <1>2, <1>3 DEF Propose, Apply, ResetTree, SetConfig, FetchBlocked, ConnectFails,
                    DemoReset, OthersPush, MergeAborted
<1>4. CASE Clone \/ Fetch
  BY <1>1, <1>2, <1>4 DEF Clone, Fetch
<1>5. ASSUME LoseClone PROVE FALSE
  BY <1>1, <1>5 DEF LoseClone, Absent
<1>6. CASE ResetWorkspace \/ \E clear, keepsClone \in BOOLEAN : Restart(clear, keepsClone)
  BY <1>2, <1>5, <1>6 DEF ResetWorkspace, Restart
<1>7. ASSUME NEW q \in Problems, local' = [local EXCEPT ![q] = local[Working]] PROVE FALSE
  BY <1>1, <1>7 DEF Cloned
<1>8. CASE \/ \E q \in Problems : CreateFixBranch(q)
           \/ \E q \in Problems : CommitNothing(q)
           \/ \E q \in Problems : CommitFails(q)
  BY <1>2, <1>7, <1>8 DEF CreateFixBranch, CommitNothing, CommitFails, Start
<1>9. CASE \E q \in Problems, reached \in BOOLEAN : CommitPatch(q, reached)
  <2>1. PICK q \in Problems, reached \in BOOLEAN : CommitPatch(q, reached)
    BY <1>9
  <2>2. local' = [local EXCEPT ![q] = Len(commits) + 1]
    BY <2>1 DEF CommitPatch
  <2>3. QED BY <1>1, <2>2 DEF NoCommit
<1>10. CASE \E q \in Problems : ConfirmUnpushed(q)
  BY <1>1, <1>2, <1>10 DEF ConfirmUnpushed
<1>11. ASSUME NEW q \in Problems, NEW gone \in SUBSET Problems, ConfirmFix(q, gone)
       PROVE  Merged(p)
  <2> DEFINE ps  == IF auto THEN {q} ELSE {}
             off == IF auto THEN gone ELSE {}
  <2>1. ps \in SUBSET {q} /\ off \in SUBSET Problems
    OBVIOUS
  <2>2. /\ Merge(q)
        /\ DeleteBranches(ps, off, [local EXCEPT ![Working] = MergedTip(q)],
             IF push THEN [remote EXCEPT ![Working] = MergedTip(q)] ELSE remote,
             Working, History(local[Working]) \cup History(local[q]))
    BY <1>11 DEF ConfirmFix
  <2> HIDE DEF ps, off
  <2>3. QED BY <1>2, <2>1, <2>2, MergedRefs
<1>12. ASSUME NEW q \in Problems, NEW deleted \in BOOLEAN, NEW gone \in SUBSET Problems,
              ConfirmDies(q, deleted, gone)
       PROVE  Merged(p)
  <2> DEFINE ps == IF deleted THEN {q} ELSE {}
  <2>1. ps \in SUBSET {q}
    OBVIOUS
  <2>2. /\ Merge(q)
        /\ DeleteBranches(ps, gone, [local EXCEPT ![Working] = MergedTip(q)],
             IF push THEN [remote EXCEPT ![Working] = MergedTip(q)] ELSE remote,
             Working, History(local[Working]) \cup History(local[q]))
    BY <1>12 DEF ConfirmDies
  <2> HIDE DEF ps
  <2>3. QED BY <1>2, <2>1, <2>2, MergedRefs
<1>13. QED
  BY <1>3, <1>4, <1>6, <1>8, <1>9, <1>10, <1>11, <1>12 DEF Next

\* A ref of a fix branch that was never confirmed goes away, while the clone is kept,
\* only when its tip is in the working branch.
THEOREM UnmergedKept == Spec => UnmergedIsKept
<1>1. ASSUME TypeOK, Gate, Lineage, Next, NEW p \in Problems \ confirmed, Lost(p)
      PROVE  Merged(p)
  <2> SUFFICES ASSUME NEW gone \in SUBSET Problems, CleanupConfirmed(gone) PROVE FALSE
    BY <1>1, OnlyCleanupLoses
  <2>1. Working \in Branches /\ Problems \subseteq Branches
    BY DEF Branches
  <2>2. local'[p] = local[p]
    BY <1>1, <2>1, GitSourceAssumption DEF CleanupConfirmed, DeleteBranches, Disposable
  <2>3. QED BY <1>1, <2>2 DEF Lost
<1>2. TypeOK /\ Gate /\ Lineage /\ [Next]_vars =>
        [\A p \in Problems \ confirmed :
           (local[p] # NoCommit /\ local'[p] = NoCommit /\ local'[Working] # NoCommit)
             => local[p] \in commits'[local'[Working]].history]_vars
  BY <1>1 DEF Lost, Merged
<1>3. QED BY <1>2, LineageHolds, PTL DEF Spec, UnmergedIsKept

-----------------------------------------------------------------------------
(* Without pushes, what goes away is merged *)

\* A fix branch is at most its own last commit ahead of the working branch.
Based ==
  \A p \in Problems :
    /\ History(local[p]) \ {local[p]} \subseteq History(local[Working])
    /\ local[p] # NoCommit =>
         commits[local[p]].branch = p \/ local[p] \in History(local[Working])

\* The working branch goes on from where it was, and the fix branches stay, go, or
\* start from it.
LEMMA BasedMoves ==
  ASSUME TypeOK, Gate, Lineage, Based, Keeps, Cloned, local'[Working] # NoCommit,
         History(local[Working]) \subseteq commits'[local'[Working]].history,
         \A p \in Problems :
           \/ local'[p] \in {NoCommit, local[p], local[Working]}
           \/ /\ commits'[local'[p]].branch = p
              /\ commits'[local'[p]].history = History(local[Working]) \cup {local'[p]}
  PROVE  Based'
<1> SUFFICES ASSUME NEW p \in Problems
             PROVE  /\ History(local[p])' \ {local'[p]} \subseteq History(local[Working])'
                    /\ local'[p] # NoCommit =>
                         commits'[local'[p]].branch = p \/ local'[p] \in History(local[Working])'
  BY DEF Based
<1>1. /\ local[p] \in 0..Len(commits) /\ local[Working] \in 1..Len(commits)
      /\ Len(commits) \in Nat /\ local[Working] \in History(local[Working])
  BY CommitTyped, PastLined DEF TypeOK, Branches, Lineage, Cloned, NoCommit
<1>2. History(local[Working])' = commits'[local'[Working]].history
  BY DEF History
<1>3. History(local[p])' = IF local'[p] = NoCommit THEN {} ELSE commits'[local'[p]].history
  BY DEF History
<1>4. CASE local'[p] = NoCommit
  BY <1>3, <1>4
<1>5. CASE local'[p] # NoCommit /\ local'[p] = local[p]
  <2>1. local[p] \in 1..Len(commits)
    BY <1>1, <1>5 DEF NoCommit
  <2>2. commits'[local[p]] = commits[local[p]] /\ History(local[p])' = History(local[p])
    BY <1>3, <1>5, <2>1 DEF Keeps, History
  <2>3. QED BY <1>2, <1>5, <2>2 DEF Based
<1>6. CASE local'[p] # NoCommit /\ local'[p] = local[Working]
  <2>1. commits'[local[Working]] = commits[local[Working]]
    BY <1>1 DEF Keeps
  <2>2. History(local[p])' = History(local[Working])
    BY <1>3, <1>6, <2>1 DEF History
  <2>3. QED BY <1>1, <1>2, <1>6, <2>2
<1>7. CASE /\ local'[p] # NoCommit /\ commits'[local'[p]].branch = p
           /\ commits'[local'[p]].history = History(local[Working]) \cup {local'[p]}
  BY <1>2, <1>3, <1>7
<1>8. QED BY <1>4, <1>5, <1>6, <1>7

\* No branch of a clone that is gone, or just made, is ahead of anything.
LEMMA NoBranchesBased ==
  ASSUME \A p \in Problems : local'[p] = NoCommit
  PROVE  Based'
BY DEF Based, History

\* Every operation keeps the fix branches on top of the working branch.
LEMMA BasedStep == TypeOK /\ Gate /\ Lineage /\ Based /\ [Next]_vars => Based'
<1> SUFFICES ASSUME TypeOK, Gate, Lineage, Based, [Next]_vars PROVE Based'
  OBVIOUS
<1> USE DEF config, manager, artifact, clone, repos
<1>1. /\ local \in [Branches -> 0..Len(commits)] /\ remote \in [Branches -> 0..Len(commits)]
      /\ Working \in Branches /\ Problems \subseteq Branches /\ Working \notin Problems
      /\ Len(commits) \in Nat /\ (connected => Cloned)
  BY GitSourceAssumption, CommitTyped DEF TypeOK, Branches
<1>2. CASE UNCHANGED <<commits, local>>
  BY <1>2 DEF Based, History
<1>3. CASE \/ \E p \in Problems, f \in Fixes : Propose(p, f)
           \/ \E p \in Problems : Apply(p)
           \/ ResetTree
           \/ \E pushEnabled, autoMerge \in BOOLEAN : SetConfig(pushEnabled, autoMerge)
           \/ FetchBlocked \/ ConnectFails \/ DemoReset
           \/ \E p \in Problems : MergeAborted(p)
           \/ UNCHANGED vars
  BY <1>2, <1>3 DEF Propose, Apply, ResetTree, SetConfig, FetchBlocked, ConnectFails,
                    DemoReset, MergeAborted, vars
<1>4. CASE Clone
  BY <1>1, <1>4, NoBranchesBased DEF Clone, Absent
<1>5. CASE Fetch
  <2>1. /\ UNCHANGED commits /\ Cloned
        /\ \A p \in Problems : local'[p] = local[p]
        /\ \/ local'[Working] = local[Working]
           \/ /\ local'[Working] = remote[Working] /\ remote[Working] # NoCommit
              /\ local[Working] \in History(remote[Working])
    BY <1>1, <1>5 DEF Fetch
  <2>2. local'[Working] # NoCommit
    BY <2>1 DEF Cloned
  <2>3. History(local[Working]) \subseteq History(local'[Working])
    <3>1. CASE local'[Working] = local[Working]
      BY <3>1
    <3>2. CASE local'[Working] = remote[Working] /\ local[Working] \in History(remote[Working])
      <4>1. commits[local[Working]].history \subseteq History(remote[Working])
        BY <1>1, <3>2, PastLined DEF Lineage
      <4>2. QED BY <2>1, <3>2, <4>1 DEF History, Cloned
    <3>3. QED BY <2>1, <3>1, <3>2
  <2>4. History(local'[Working]) = commits'[local'[Working]].history
    BY <2>1, <2>2 DEF History
  <2>5. QED BY <2>1, <2>2, <2>3, <2>4, NothingMade, BasedMoves
<1>6. CASE ResetWorkspace \/ \E clear, keepsClone \in BOOLEAN : Restart(clear, keepsClone)
  <2>1. UNCHANGED <<commits, local>> \/ LoseClone
    BY <1>6 DEF ResetWorkspace, Restart
  <2>2. QED BY <1>1, <1>2, <2>1, NoBranchesBased DEF LoseClone, Absent
<1>7. ASSUME Keeps, UNCHANGED local PROVE Based'
  <2>1. CASE Cloned
    <3>1. local[Working] \in 1..Len(commits)
      BY <1>1, <2>1 DEF Cloned, NoCommit
    <3>2. commits'[local'[Working]].history = History(local[Working]) /\ local'[Working] # NoCommit
      BY <1>7, <2>1, <3>1 DEF Keeps, History, Cloned
    <3>3. QED BY <1>7, <2>1, <3>2, BasedMoves
  <2>2. CASE ~Cloned
    BY <1>7, <2>2, NoBranchesBased DEF Lineage, Trunk
  <2>3. QED BY <2>1, <2>2
<1>8. CASE OthersPush
  <2>1. /\ remote[Working] \in 1..Len(commits)
        /\ History(remote[Working]) \in SUBSET (1..Len(commits))
        /\ \A d \in History(remote[Working]) : commits[d].history \subseteq History(remote[Working])
    BY <1>1, <1>8, PastExists, PastLined DEF OthersPush, NoCommit, Lineage
  <2>2. Content(remote[Working]) \in SUBSET Fixes
    BY <2>1, CommitTyped
  <2>3. /\ commits' = Append(commits, Commit(History(remote[Working]), Content(remote[Working]), Working))
        /\ UNCHANGED local
    BY <1>8 DEF OthersPush
  <2>4. Keeps
    BY <1>1, <2>1, <2>2, <2>3, LinedAppend DEF Lineage
  <2>5. QED BY <1>7, <2>3, <2>4
<1>9. ASSUME connected, UNCHANGED commits, local'[Working] = local[Working],
             \A p \in Problems : local'[p] \in {NoCommit, local[p], local[Working]}
      PROVE  Based'
  <2>1. commits'[local'[Working]].history = History(local[Working]) /\ local'[Working] # NoCommit
    BY <1>1, <1>9 DEF History, Cloned
  <2>2. QED BY <1>1, <1>9, <2>1, NothingMade, BasedMoves
<1>10. CASE \/ \E p \in Problems : CreateFixBranch(p)
            \/ \E p \in Problems : CommitNothing(p)
            \/ \E p \in Problems : CommitFails(p)
  BY <1>1, <1>9, <1>10 DEF CreateFixBranch, CommitNothing, CommitFails, Start
<1>11. ASSUME NEW p \in Problems, NEW reached \in BOOLEAN, CommitPatch(p, reached)
       PROVE  Based'
  <2>1. /\ local[Working] \in 1..Len(commits) /\ patch[p].content \in SUBSET Fixes
        /\ p \in Branches /\ Cloned /\ Start(p) = local[Working]
    BY <1>1, <1>11 DEF TypeOK, CommitPatch, Cloned, NoCommit, Start
  <2>2. /\ History(local[Working]) \in SUBSET (1..Len(commits))
        /\ \A d \in History(local[Working]) : commits[d].history \subseteq History(local[Working])
    BY <2>1, PastExists, PastLined DEF Lineage
  <2>3. commits' = Append(commits, Commit(History(local[Working]), patch[p].content, p))
    BY <1>11, <2>1 DEF CommitPatch
  <2>4. /\ Keeps /\ commits'[Len(commits) + 1].branch = p
        /\ commits'[Len(commits) + 1].history = History(local[Working]) \cup {Len(commits) + 1}
    BY <2>1, <2>2, <2>3, LinedAppend DEF Lineage
  <2>5. /\ local'[Working] = local[Working] /\ local'[p] = Len(commits) + 1
        /\ \A q \in Problems \ {p} : local'[q] = local[q]
    BY <1>1, <1>11 DEF CommitPatch
  <2>6. commits'[local'[Working]].history = History(local[Working]) /\ local'[Working] # NoCommit
    BY <2>1, <2>4, <2>5 DEF Keeps, History, Cloned
  <2>7. QED BY <2>1, <2>4, <2>5, <2>6, BasedMoves
<1>12. ASSUME NEW p \in Problems, Merge(p), local'[Working] = MergedTip(p),
              \A q \in Problems : local'[q] \in {NoCommit, local[q]}
       PROVE  Based'
  <2>1. /\ Keeps /\ Cloned /\ MergedTip(p) \in 1..Len(commits')
        /\ History(local[Working]) \subseteq commits'[MergedTip(p)].history
    BY <1>12, MergeLined
  <2>2. MergedTip(p) # NoCommit
    BY <2>1 DEF NoCommit
  <2>3. QED BY <1>12, <2>1, <2>2, BasedMoves
<1>13. ASSUME NEW p \in Problems, ConfirmUnpushed(p) PROVE Based'
  <2>1. /\ Merge(p) /\ local'[Working] = MergedTip(p)
        /\ \A q \in Problems : local'[q] = local[q]
    BY <1>1, <1>13 DEF ConfirmUnpushed
  <2>2. QED BY <1>12, <2>1
<1>14. ASSUME NEW p \in Problems, NEW gone \in SUBSET Problems, ConfirmFix(p, gone)
       PROVE  Based'
  <2>1. /\ Merge(p) /\ local'[Working] = MergedTip(p)
        /\ \A q \in Problems : local'[q] \in {NoCommit, local[q]}
    BY <1>1, <1>14 DEF ConfirmFix, DeleteBranches
  <2>2. QED BY <1>12, <2>1
<1>15. ASSUME NEW p \in Problems, NEW deleted \in BOOLEAN, NEW gone \in SUBSET Problems,
              ConfirmDies(p, deleted, gone)
       PROVE  Based'
  <2>1. /\ Merge(p) /\ local'[Working] = MergedTip(p)
        /\ \A q \in Problems : local'[q] \in {NoCommit, local[q]}
    BY <1>1, <1>15 DEF ConfirmDies, DeleteBranches
  <2>2. QED BY <1>12, <2>1
<1>16. ASSUME NEW gone \in SUBSET Problems, CleanupConfirmed(gone) PROVE Based'
  <2>1. /\ connected /\ UNCHANGED commits /\ local'[Working] = local[Working]
        /\ \A q \in Problems : local'[q] \in {NoCommit, local[q]}
    BY <1>1, <1>16 DEF CleanupConfirmed, DeleteBranches
  <2>2. QED BY <1>9, <2>1
<1>17. QED
  BY <1>3, <1>4, <1>5, <1>6, <1>8, <1>10, <1>11, <1>13, <1>14, <1>15, <1>16 DEF Next

\* Only a push gives a branch an upstream.
LEMMA NoUpstream == ~push /\ upstream = {} /\ [Next]_vars => upstream' = {}
<1> SUFFICES ASSUME ~push, upstream = {}, [Next]_vars PROVE upstream' = {}
  OBVIOUS
<1> USE DEF clone, repos
<1>1. CASE \/ \E p \in Problems, f \in Fixes : Propose(p, f)
           \/ \E p \in Problems : Apply(p)
           \/ ResetTree
           \/ \E pushEnabled, autoMerge \in BOOLEAN : SetConfig(pushEnabled, autoMerge)
           \/ Clone \/ Fetch \/ FetchBlocked \/ ConnectFails \/ DemoReset \/ ResetWorkspace
           \/ OthersPush \/ UNCHANGED vars
  BY <1>1 DEF Propose, Apply, ResetTree, SetConfig, Clone, Fetch, FetchBlocked, ConnectFails,
              DemoReset, ResetWorkspace, LoseClone, OthersPush, vars
<1>2. CASE \/ \E clear, keepsClone \in BOOLEAN : Restart(clear, keepsClone)
           \/ \E p \in Problems : CreateFixBranch(p)
           \/ \E p \in Problems : CommitNothing(p)
           \/ \E p \in Problems : CommitFails(p)
           \/ \E p \in Problems, reached \in BOOLEAN : CommitPatch(p, reached)
           \/ \E p \in Problems : MergeAborted(p)
           \/ \E p \in Problems : ConfirmUnpushed(p)
  BY <1>2 DEF Restart, LoseClone, CreateFixBranch, CommitNothing, CommitFails, CommitPatch,
              MergeAborted, ConfirmUnpushed
<1>3. CASE \/ \E p \in Problems, gone \in SUBSET Problems : ConfirmFix(p, gone)
           \/ \E p \in Problems, deleted \in BOOLEAN, gone \in SUBSET Problems :
                 ConfirmDies(p, deleted, gone)
           \/ \E gone \in SUBSET Problems : CleanupConfirmed(gone)
  BY <1>3 DEF ConfirmFix, ConfirmDies, CleanupConfirmed, DeleteBranches
<1>4. QED BY <1>1, <1>2, <1>3 DEF Next

\* As long as nothing is pushed, the comment of deleteBranch is right: whatever branch
\* goes away while the clone is kept is merged, confirmed problems included.  (The
\* branch git compares it with may be another fix branch, where the tree could not
\* leave it: all that one has below its tip is in the working branch.)
THEOREM DeletedMergedUnpushed == Spec /\ []~push => DeletedWasMerged
<1>1. Init => Based /\ upstream = {}
  BY DEF Init, Absent, Branches, Based, History
<1>2. ASSUME TypeOK, Gate, Lineage, Based, upstream = {}, Next, NEW p \in Problems, Lost(p)
      PROVE  Merged(p)
  <2> SUFFICES ASSUME NEW gone \in SUBSET Problems, CleanupConfirmed(gone) PROVE Merged(p)
    BY <1>2, OnlyCleanupLoses
  <2> DEFINE on == IF CanCheckout(Working) THEN Working ELSE head
  <2>1. /\ Working \in Branches /\ Problems \subseteq Branches /\ Working \notin Problems
        /\ on \in Branches /\ Cloned
        /\ local[Working] \in 0..Len(commits) /\ local[p] \in 0..Len(commits)
    BY <1>2, GitSourceAssumption DEF TypeOK, Branches, CleanupConfirmed
  <2>2. p # on /\ local[p] \in History(local[on])
    BY <1>2, <2>1 DEF CleanupConfirmed, DeleteBranches, Deletable, Lost
  <2>3. local[p] \in History(local[Working])
    <3> HIDE DEF on
    <3>1. CASE on = Working
      BY <2>2, <3>1
    <3>2. CASE on \in Problems /\ local[p] # local[on]
      BY <1>2, <2>2, <3>2 DEF Based
    <3>3. CASE on \in Problems /\ local[p] = local[on]
      <4>1. \/ commits[local[p]].branch # p /\ local[p] # NoCommit
            \/ commits[local[on]].branch # on /\ local[on] # NoCommit
        BY <1>2, <2>2, <3>3 DEF Lost
      <4>2. QED BY <1>2, <3>3, <4>1 DEF Based
    <3>4. QED BY <2>1, <3>1, <3>2, <3>3 DEF Branches
  <2>4. local'[Working] = local[Working] /\ UNCHANGED commits
    BY <2>1 DEF CleanupConfirmed, DeleteBranches, repos, clone
  <2>5. QED BY <2>1, <2>3, <2>4 DEF Merged, History, Cloned
<1> DEFINE Bare == Based /\ upstream = {}
<1>3. Init => Bare
  BY <1>1
<1>4. TypeOK /\ Gate /\ Lineage /\ Bare /\ ~push /\ [Next]_vars => Bare'
  BY BasedStep, NoUpstream
<1>5. TypeOK /\ Gate /\ Lineage /\ Bare /\ [Next]_vars =>
        [\A p \in Problems :
           (local[p] # NoCommit /\ local'[p] = NoCommit /\ local'[Working] # NoCommit)
             => local[p] \in commits'[local'[Working]].history]_vars
  BY <1>2 DEF Lost, Merged
<1> HIDE DEF Bare
<1>6. QED BY <1>3, <1>4, <1>5, LineageHolds, PTL DEF Spec, DeletedWasMerged
=============================================================================
