------------------------------ MODULE GitSource ------------------------------
(***************************************************************************)
(* The Git source manager (internal/gitsource): fixes are committed to a   *)
(* branch per problem in a clone and reach the working branch only when a  *)
(* human confirms them.                                                    *)
(*                                                                         *)
(* Manager.mu makes each operation one step; a git command that fails, a   *)
(* push that is refused and a crash are its outcomes.  The repository is   *)
(* cut to one file, whose content is the set of fixes it carries: every    *)
(* seeded problem lives in main.go.  git itself is external: refs, commits *)
(* and the rules of checkout, merge, push and branch -d are modelled by    *)
(* what the manager's calls of them do.                                    *)
(***************************************************************************)
EXTENDS Naturals, Sequences, FiniteSets

CONSTANTS
  Problems,   \* problem ids; distinct ids have distinct fix branches
  Fixes,      \* what the agent may write for a problem
  FixFor,     \* the problem each fix is for
  Working     \* the working branch

ASSUME GitSourceAssumption ==
  /\ FixFor \in [Fixes -> Problems]
  /\ Working \notin Problems

VARIABLES
  \* Store: the two flags the operations read (branch-per-fix is on)
  push, auto,
  \* Manager: connected, branches (the problems listed with a fix branch)
  connected, listed,
  \* artifact store, durable: FixBranch recorded, Confirmed
  branched, confirmed,
  \* patch store: the full content last proposed for each problem
  patch,
  \* a demo reset that has cleared the stores and not yet the workspace
  resetting,
  \* all commits; the clone: refs, for fix branches also their origin/* refs and
  \* which have an upstream, the branch checked out and the file in the tree;
  \* the refs of origin
  commits, local, tracking, upstream, head, tree, remote,
  \* history: the branch tips a human asked to merge
  approved

config   == <<push, auto>>
manager  == <<connected, listed>>
artifact == <<branched, confirmed>>
clone    == <<local, tracking, upstream, head, tree>>
repos    == <<commits, clone, remote>>
vars == <<config, manager, artifact, patch, resetting, repos, approved>>

Branches == Problems \cup {Working}
NoCommit == 0
Absent   == [b \in Branches |-> NoCommit]
Unknown  == [p \in Problems |-> NoCommit]
Unread   == [known |-> FALSE, content |-> {}]

\* A commit: it and its ancestors, the file in it, whose fix branch it was made
\* on (Working: a merge, or somebody else's commit).
Commit(ancestors, content, branch) ==
  [history |-> ancestors \cup {Len(commits) + 1}, content |-> content, branch |-> branch]

History(c) == IF c = NoCommit THEN {} ELSE commits[c].history
Content(c) == commits[c].content
Cloned     == local[Working] # NoCommit

\* origin may not have the working branch yet; its base branch is commit 1.
Init ==
  /\ push \in BOOLEAN /\ auto \in BOOLEAN
  /\ connected = FALSE /\ listed = {}
  /\ branched = {} /\ confirmed = {}
  /\ patch = [p \in Problems |-> Unread] /\ resetting = FALSE
  /\ commits = <<[history |-> {1}, content |-> {}, branch |-> Working]>>
  /\ local = Absent /\ tracking = Unknown /\ upstream = {}
  /\ head = Working /\ tree = {}
  /\ remote \in {Absent, [Absent EXCEPT ![Working] = 1]}
  /\ approved = {}

-----------------------------------------------------------------------------
(* The source tree, which the agent reads and the pipeline writes.  Connect    *)
(* has made the clone their source root.                                       *)

\* Investigate: the patch is the whole file as read, with the fix in it.
Propose(p, f) ==
  /\ Cloned
  /\ FixFor[f] = p /\ f \notin tree
  /\ patch' = [patch EXCEPT ![p] = [known |-> TRUE, content |-> tree \cup {f}]]
  /\ UNCHANGED <<config, manager, artifact, resetting, repos, approved>>

\* applyPatchSet: a pipeline or a batch writes the patch into the tree.
Apply(p) ==
  /\ Cloned /\ patch[p].known
  /\ tree' = patch[p].content
  /\ UNCHANGED <<config, manager, artifact, patch, resetting, commits, local,
                 tracking, upstream, head, remote, approved>>

\* ResetTree: git checkout -- .
ResetTree ==
  /\ Cloned
  /\ tree' = Content(local[head])
  /\ UNCHANGED <<config, manager, artifact, patch, resetting, commits, local,
                 tracking, upstream, head, remote, approved>>

-----------------------------------------------------------------------------
(* git, as the manager calls it *)

Clean == tree = Content(local[head])

\* git checkout b: refused when it would overwrite a local change; a change to a
\* file the two branches agree on is carried along.
CanCheckout(b) == Clean \/ Content(local[b]) = Content(local[head])
TreeOn(b)      == IF Clean THEN Content(local[b]) ELSE tree
Checkout(b)    == head' = b /\ tree' = TreeOn(b)

\* git push: only forward.
CanPush(ancestors, b) == remote[b] = NoCommit \/ remote[b] \in ancestors

\* git merge: the base, and the file when the two sides do not clash.
MergeBase(a, b) ==
  LET common == History(a) \cap History(b)
  IN  CHOOSE c \in common : common \subseteq History(c)
Blend(base, ours, theirs) ==
  (ours \cap theirs) \cup (ours \ base) \cup (theirs \ base)
MergedFile(p) ==
  Blend(Content(MergeBase(local[Working], local[p])), Content(local[Working]), Content(local[p]))
MayClash(p) ==
  Cardinality({Content(MergeBase(local[Working], local[p])),
               Content(local[Working]), Content(local[p])}) = 3
UpToDate(p) == local[p] \in History(local[Working])

\* git branch -d: the branch must be merged into its upstream, or into the
\* branch checked out when it has none; the latter itself is never deleted.
Deletable(p, on, ancestors) ==
  /\ local[p] # NoCommit /\ p # on
  /\ local[p] \in IF p \in upstream /\ tracking[p] # NoCommit
                    THEN History(tracking[p]) ELSE ancestors

-----------------------------------------------------------------------------
(* Configuration, connecting, resetting, restarting *)

SetConfig(pushEnabled, autoMerge) ==
  /\ push' = pushEnabled /\ auto' = autoMerge
  /\ UNCHANGED <<manager, artifact, patch, resetting, repos, approved>>

\* rehydrateBranches: recorded, not confirmed and present in the clone.
Rehydrated(refs) ==
  listed \cup {p \in branched \ confirmed : refs[p] # NoCommit}

\* Connect without a clone: the working branch comes from origin or its base.
Clone ==
  LET tip == IF remote[Working] # NoCommit THEN remote[Working] ELSE 1 IN
  /\ ~Cloned
  /\ local' = [Absent EXCEPT ![Working] = tip]
  /\ tracking' = [p \in Problems |-> remote[p]] /\ upstream' = {}
  /\ head' = Working /\ tree' = Content(tip)
  /\ connected' = TRUE /\ listed' = Rehydrated(local')
  /\ UNCHANGED <<config, artifact, patch, resetting, commits, remote, approved>>

\* Connect with a clone: fetch --prune, check out, pull --ff-only.
Fetch ==
  LET theirs == remote[Working]
      ahead  == theirs # NoCommit /\ local[Working] \in History(theirs)
      pulled == ahead /\ (Clean \/ Content(theirs) = Content(local[Working]))
  IN
  /\ Cloned /\ CanCheckout(Working)
  /\ tracking' = [p \in Problems |-> remote[p]]
  /\ local' = IF pulled THEN [local EXCEPT ![Working] = theirs] ELSE local
  /\ head' = Working
  /\ tree' = IF pulled /\ Clean THEN Content(theirs) ELSE TreeOn(Working)
  /\ connected' = TRUE /\ listed' = Rehydrated(local')
  /\ UNCHANGED <<config, artifact, patch, resetting, commits, upstream, remote, approved>>

\* Connect refused by local changes: the manager ends up disconnected.
FetchBlocked ==
  /\ Cloned /\ ~CanCheckout(Working)
  /\ tracking' = [p \in Problems |-> remote[p]]
  /\ connected' = FALSE
  /\ UNCHANGED <<config, listed, artifact, patch, resetting, commits, local,
                 upstream, head, tree, remote, approved>>

\* failConnect: origin cannot be reached.
ConnectFails ==
  /\ connected' = FALSE
  /\ UNCHANGED <<config, listed, artifact, patch, resetting, repos, approved>>

LoseClone ==
  /\ local' = Absent /\ tracking' = Unknown /\ upstream' = {}
  /\ head' = Working /\ tree' = {}

\* demoReset, in two steps: the stores, then ResetWorkspace (then Connect).
DemoReset ==
  /\ ~resetting /\ resetting' = TRUE
  /\ patch' = [p \in Problems |-> Unread]
  /\ branched' = {} /\ confirmed' = {}
  /\ UNCHANGED <<config, manager, repos, approved>>

\* Slip: the manager still counts as connected.
ResetWorkspace_StaysConnected ==
  /\ resetting /\ resetting' = FALSE
  /\ listed' = {}
  /\ LoseClone
  /\ UNCHANGED <<config, connected, artifact, patch, commits, remote, approved>>

ResetWorkspace ==
  /\ resetting /\ resetting' = FALSE
  /\ connected' = FALSE /\ listed' = {}
  /\ LoseClone
  /\ UNCHANGED <<config, artifact, patch, commits, remote, approved>>

\* What is read back from the records.
Recovered == branched \ confirmed

\* The process restarts.  clear: the start empties the output directory (the default), and
\* with it the records and the proposals; the clone, when it is not kept elsewhere, goes
\* with it, or with the host.
Restart(clear, keepsClone) ==
  /\ connected' = FALSE /\ resetting' = FALSE
  /\ IF clear
     THEN branched' = {} /\ confirmed' = {} /\ patch' = [p \in Problems |-> Unread] /\ listed' = {}
     ELSE listed' = Recovered /\ UNCHANGED <<artifact, patch>>
  /\ IF keepsClone THEN UNCHANGED clone ELSE LoseClone
  /\ UNCHANGED <<config, commits, remote, approved>>

\* Somebody else pushes to the working branch, without touching the file.
OthersPush ==
  /\ remote[Working] # NoCommit
  /\ commits' = Append(commits, Commit(History(remote[Working]), Content(remote[Working]), Working))
  /\ remote' = [remote EXCEPT ![Working] = Len(commits')]
  /\ UNCHANGED <<config, manager, artifact, patch, resetting, clone, approved>>

-----------------------------------------------------------------------------
(* Fix branches *)

CreateFixBranch(p) ==
  /\ connected /\ CanCheckout(Working)
  /\ local' = IF local[p] = NoCommit THEN [local EXCEPT ![p] = local[Working]] ELSE local
  /\ IF Content(local'[p]) = Content(local[Working]) \/ Clean
       THEN head' = p /\ tree' = IF Clean THEN Content(local'[p]) ELSE tree
       ELSE Checkout(Working)      \* the second checkout's failure is ignored
  /\ listed' = listed \cup {p} /\ branched' = branched \cup {p}
  /\ UNCHANGED <<config, connected, confirmed, patch, resetting, commits,
                 tracking, upstream, remote, approved>>

\* Slip: without the checkout of the working branch.
Start_FromHead(p) == local[head]

\* checkout -f working; checkout -B branch working
Start(p) == local[Working]

\* CommitPatch when the patch is what the working branch has.
CommitNothing(p) ==
  /\ connected /\ patch[p].known
  /\ patch[p].content = Content(Start(p))
  /\ local' = [local EXCEPT ![p] = Start(p)]
  /\ head' = p /\ tree' = patch[p].content
  /\ listed' = listed \cup {p} /\ branched' = branched \cup {p}
  /\ UNCHANGED <<config, connected, confirmed, patch, resetting, commits,
                 tracking, upstream, remote, approved>>

\* CommitPatch that fails, or whose process dies, before the commit.
CommitFails(p) ==
  /\ connected /\ patch[p].known
  /\ patch[p].content # Content(Start(p))
  /\ local' = [local EXCEPT ![p] = Start(p)]
  /\ head' = p /\ tree' \in {Content(Start(p)), patch[p].content}
  /\ UNCHANGED <<config, manager, artifact, patch, resetting, commits,
                 tracking, upstream, remote, approved>>

\* CommitPatch that commits; reached says whether the push got to origin.
CommitPatch(p, reached) ==
  LET new    == Commit(History(Start(p)), patch[p].content, p)
      tip    == Len(commits) + 1
      pushed == push /\ reached /\ CanPush(new.history, p)
  IN
  /\ connected /\ patch[p].known
  /\ patch[p].content # Content(Start(p))
  /\ commits' = Append(commits, new)
  /\ local' = [local EXCEPT ![p] = tip]
  /\ head' = p /\ tree' = patch[p].content
  /\ listed' = listed \cup {p}
  /\ remote' = IF pushed THEN [remote EXCEPT ![p] = tip] ELSE remote
  /\ tracking' = IF pushed THEN [tracking EXCEPT ![p] = tip] ELSE tracking
  /\ upstream' = IF pushed THEN upstream \cup {p} ELSE upstream
  /\ branched' = IF push /\ ~pushed THEN branched ELSE branched \cup {p}
  /\ UNCHANGED <<config, connected, confirmed, patch, resetting, approved>>

-----------------------------------------------------------------------------
(* Confirming *)

CanMerge(p) == connected /\ local[p] # NoCommit /\ CanCheckout(Working)

\* The merge is refused by a local change, or clashes and is aborted.
MergeAborted(p) ==
  /\ CanMerge(p) /\ ~UpToDate(p)
  /\ MayClash(p) \/ (~Clean /\ MergedFile(p) # Content(local[Working]))
  /\ Checkout(Working)
  /\ approved' = approved \cup {local[p]}
  /\ UNCHANGED <<config, manager, artifact, patch, resetting, commits, local,
                 tracking, upstream, remote>>

\* merge --no-ff: the working branch's new tip.
MergedTip(p) == IF UpToDate(p) THEN local[Working] ELSE Len(commits) + 1

Merge(p) ==
  /\ CanMerge(p)
  /\ UpToDate(p) \/ Clean \/ MergedFile(p) = Content(local[Working])
  /\ head' = Working
  /\ IF UpToDate(p)
       THEN UNCHANGED commits /\ tree' = TreeOn(Working)
       ELSE /\ commits' = Append(commits, Commit(History(local[Working]) \cup History(local[p]),
                                                 MergedFile(p), Working))
            /\ tree' = IF Clean THEN MergedFile(p) ELSE tree
  /\ approved' = approved \cup {local[p]}

WorkingPushed(p) ==
  CanPush(History(local[Working]) \cup History(local[p]) \cup {MergedTip(p)}, Working)

\* Slip: dropped from the list before the push.
ConfirmUnpushed_Delists(p) ==
  /\ Merge(p) /\ push
  /\ local' = [local EXCEPT ![Working] = MergedTip(p)]
  /\ listed' = listed \ {p}
  /\ UNCHANGED <<config, connected, artifact, patch, resetting, tracking, upstream, remote>>

\* Slip: recorded before the push.
ConfirmUnpushed_Records(p) ==
  /\ Merge(p) /\ push
  /\ local' = [local EXCEPT ![Working] = MergedTip(p)]
  /\ confirmed' = confirmed \cup {p}
  /\ UNCHANGED <<config, manager, branched, patch, resetting, tracking, upstream, remote>>

\* The push of the working branch fails: merged here, nothing recorded.
ConfirmUnpushed(p) ==
  /\ Merge(p) /\ push
  /\ local' = [local EXCEPT ![Working] = MergedTip(p)]
  /\ UNCHANGED <<config, manager, artifact, patch, resetting, tracking, upstream, remote>>

\* deleteBranch, for each of ps: here if git allows, on origin (those of gone,
\* the push --delete that go through) whatever became of it here.
DeleteBranches(ps, gone, refs, origin, on, ancestors) ==
  LET here == {p \in ps : Deletable(p, on, ancestors)}
      off  == IF push THEN gone ELSE {}
  IN
  /\ local' = [b \in Branches |-> IF b \in here THEN NoCommit ELSE refs[b]]
  /\ upstream' = upstream \ here
  /\ remote' = [b \in Branches |-> IF b \in off THEN NoCommit ELSE origin[b]]
  /\ tracking' = [p \in Problems |-> IF p \in off THEN NoCommit ELSE tracking[p]]

\* ConfirmFix past the push: delete, drop from the list, record.
GetsThrough(p) == push => WorkingPushed(p)

ConfirmFix(p, gone) ==
  /\ Merge(p) /\ GetsThrough(p)
  /\ gone \subseteq {p}
  /\ DeleteBranches(IF auto THEN {p} ELSE {}, IF auto THEN gone ELSE {},
                    [local EXCEPT ![Working] = MergedTip(p)],
                    IF push THEN [remote EXCEPT ![Working] = MergedTip(p)] ELSE remote,
                    Working, History(local[Working]) \cup History(local[p]))
  /\ listed' = listed \ {p} /\ confirmed' = confirmed \cup {p}
  /\ UNCHANGED <<config, connected, branched, patch, resetting>>

\* The process dies on the way, after the push; the branch may be deleted.
ConfirmDies(p, deleted, gone) ==
  /\ Merge(p) /\ GetsThrough(p)
  /\ deleted \in BOOLEAN /\ gone \subseteq {p}
  /\ (deleted => auto) /\ (gone # {} => deleted)
  /\ DeleteBranches(IF deleted THEN {p} ELSE {}, gone,
                    [local EXCEPT ![Working] = MergedTip(p)],
                    IF push THEN [remote EXCEPT ![Working] = MergedTip(p)] ELSE remote,
                    Working, History(local[Working]) \cup History(local[p]))
  /\ connected' = FALSE /\ listed' = Recovered /\ resetting' = FALSE
  /\ UNCHANGED <<config, artifact, patch>>

\* Slip: the filter on confirmed artifacts is lost.
Disposable_Any(p) == p \in branched

\* CleanupConfirmed: on request, or after a confirm that leaves nothing listed.
Disposable(p) == p \in branched /\ p \in confirmed

CleanupConfirmed(gone) ==
  LET done == {p \in Problems : Disposable(p) /\ local[p] # NoCommit}
      on   == IF CanCheckout(Working) THEN Working ELSE head
  IN
  /\ connected
  /\ gone \subseteq done
  /\ IF CanCheckout(Working) THEN Checkout(Working) ELSE UNCHANGED <<head, tree>>
  /\ DeleteBranches(done, gone, local, remote, on, History(local[on]))
  /\ listed' = listed \ {p \in Problems : Disposable(p)}
  /\ UNCHANGED <<config, connected, artifact, patch, resetting, commits, approved>>
-----------------------------------------------------------------------------
Next ==
  \/ \E p \in Problems, f \in Fixes : Propose(p, f)
  \/ \E p \in Problems : Apply(p)
  \/ ResetTree
  \/ \E pushEnabled, autoMerge \in BOOLEAN : SetConfig(pushEnabled, autoMerge)
  \/ Clone \/ Fetch \/ FetchBlocked \/ ConnectFails
  \/ DemoReset \/ ResetWorkspace
  \/ \E clear, keepsClone \in BOOLEAN : Restart(clear, keepsClone)
  \/ OthersPush
  \/ \E p \in Problems : CreateFixBranch(p)
  \/ \E p \in Problems : CommitNothing(p)
  \/ \E p \in Problems : CommitFails(p)
  \/ \E p \in Problems, reached \in BOOLEAN : CommitPatch(p, reached)
  \/ \E p \in Problems : MergeAborted(p)
  \/ \E p \in Problems : ConfirmUnpushed(p)
  \/ \E p \in Problems, gone \in SUBSET Problems : ConfirmFix(p, gone)
  \/ \E p \in Problems, deleted \in BOOLEAN, gone \in SUBSET Problems :
        ConfirmDies(p, deleted, gone)
  \/ \E gone \in SUBSET Problems : CleanupConfirmed(gone)

Spec == Init /\ [][Next]_vars

-----------------------------------------------------------------------------
(* Properties *)

\* Every variable has its type; a connected manager has a clone, and the branch
\* checked out in it exists: no cleanup deletes it from under the source root.
TypeOK ==
  /\ push \in BOOLEAN /\ auto \in BOOLEAN /\ connected \in BOOLEAN /\ resetting \in BOOLEAN
  /\ listed \subseteq Problems /\ branched \subseteq Problems /\ confirmed \subseteq Problems
  /\ patch \in [Problems -> [known : BOOLEAN, content : SUBSET Fixes]]
  /\ commits \in Seq([history : SUBSET Nat, content : SUBSET Fixes, branch : Branches])
  /\ Len(commits) >= 1
  /\ local \in [Branches -> 0..Len(commits)] /\ remote \in [Branches -> 0..Len(commits)]
  /\ tracking \in [Problems -> 0..Len(commits)] /\ upstream \subseteq Problems
  /\ head \in Branches /\ tree \subseteq Fixes
  /\ connected => Cloned
  /\ Cloned => local[head] # NoCommit

\* The merge gate: a commit made for a problem is in the working branch, here or
\* on origin, only if a human asked to merge that very commit; confirming one
\* fix takes no other problem's commit along (commitFixes, "Never merges").
OnlyConfirmedMerges ==
  \A c \in History(local[Working]) \cup History(remote[Working]) :
    commits[c].branch \in Problems => c \in approved

\* What is open is on the list that the UI shows and the cleanup waits for: while
\* connected, a recorded, unconfirmed fix branch that holds a fix is listed,
\* whatever restarts, resets and re-clones went before.
HoldsFix(p) == local[p] # NoCommit /\ commits[local[p]].branch = p

OpenIsListed == connected => \A p \in branched \ confirmed : HoldsFix(p) => p \in listed

\* A fix is recorded as confirmed only when its branch is in the working branch
\* and, with push on, origin has it: a confirm that fails or dies half-way is
\* never recorded (ConfirmFix records last).
RecordedIsMerged ==
  [][\A p \in confirmed' \ confirmed :
       /\ History(local[p]) \subseteq commits'[local'[Working]].history
       /\ push => remote'[Working] = local'[Working]]_vars

\* While the clone is kept, the fix branch of a problem that was never confirmed
\* goes away only when it is merged; git's branch -d alone does not see to it,
\* for a pushed branch counts as merged into its upstream.
UnmergedIsKept ==
  [][\A p \in Problems \ confirmed :
       (local[p] # NoCommit /\ local'[p] = NoCommit /\ local'[Working] # NoCommit)
         => local[p] \in commits'[local'[Working]].history]_vars

\* What the comment of CommitPatch promises: "the branch holds exactly this fix
\* regardless of prior working-tree state".
HoldsExactlyTheFix ==
  \A p \in Problems : LET c == local[p] IN
    (c # NoCommit /\ commits[c].branch = p) =>
      \E b \in commits[c].history \ {c} :
        /\ commits[c].history = {c} \cup History(b)
        /\ \A f \in Fixes : FixFor[f] # p => (f \in Content(c) <=> f \in Content(b))

\* What the comment of deleteBranch says of the branch it deletes: it is merged.
\* Claimed for every branch a cleanup takes out of the clone.
DeletedWasMerged ==
  [][\A p \in Problems :
       (local[p] # NoCommit /\ local'[p] = NoCommit /\ local'[Working] # NoCommit)
         => local[p] \in commits'[local'[Working]].history]_vars

=============================================================================
