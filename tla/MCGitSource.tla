----------------------------- MODULE MCGitSource -----------------------------
(***************************************************************************)
(* GitSource on small instances: at most MaxCommits commits, MaxWork       *)
(* proposals, writes into the tree and branches created, and MaxEvents     *)
(* re-configurations, failures, restarts, resets and pushes of others.     *)
(* The start: merged branches are deleted (the default), push on or off,   *)
(* and origin without the working branch, which Connect creates.           *)
(***************************************************************************)
EXTENDS GitSource, TLC

CONSTANTS MaxCommits, MaxWork, MaxEvents, A, B, a, b

MCFixFor == a :> A @@ b :> B
Swapped  == {A :> B @@ B :> A @@ a :> b @@ b :> a}

VARIABLES work, events

MCInit == Init /\ auto /\ remote = Absent /\ work = 0 /\ events = 0

Free  == UNCHANGED <<work, events>>
Work  == work < MaxWork /\ work' = work + 1 /\ UNCHANGED events
Event == events < MaxEvents /\ events' = events + 1 /\ UNCHANGED work
Room  == Len(commits) < MaxCommits

MCNext ==
  \/ (\E p \in Problems, f \in Fixes : Propose(p, f)) /\ Work
  \/ (\E p \in Problems : Apply(p)) /\ Work
  \/ ResetTree /\ Work
  \/ (\E pushEnabled, autoMerge \in BOOLEAN : SetConfig(pushEnabled, autoMerge)) /\ Event
  \/ Clone /\ Free
  \/ Fetch /\ Free
  \/ FetchBlocked /\ Free
  \/ ConnectFails /\ Event
  \/ DemoReset /\ Event
  \/ ResetWorkspace /\ Free
  \/ (\E clear, keepsClone \in BOOLEAN : Restart(clear, keepsClone)) /\ Event
  \/ OthersPush /\ Room /\ Event
  \/ (\E p \in Problems : CreateFixBranch(p)) /\ Work
  \/ (\E p \in Problems : CommitNothing(p)) /\ Free
  \/ (\E p \in Problems : CommitFails(p)) /\ Event
  \/ (\E p \in Problems : CommitPatch(p, TRUE)) /\ Room /\ Free
  \/ (\E p \in Problems : CommitPatch(p, FALSE)) /\ Room /\ Event
  \/ (\E p \in Problems : MergeAborted(p)) /\ Free
  \/ (\E p \in Problems : ConfirmUnpushed(p)) /\ Room /\ Event
  \/ (\E p \in Problems : ConfirmFix(p, {p})) /\ Room /\ Free
  \/ (\E p \in Problems : ConfirmFix(p, {})) /\ Room /\ Event
  \/ (\E p \in Problems, deleted \in BOOLEAN, gone \in SUBSET Problems :
         ConfirmDies(p, deleted, gone)) /\ Room /\ Event
  \/ (\E gone \in SUBSET Problems : CleanupConfirmed(gone)) /\ Free

MCSpec == MCInit /\ [][MCNext]_<<vars, work, events>>

=============================================================================
