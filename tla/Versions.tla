------------------------------- MODULE Versions -------------------------------
(***************************************************************************)
(* The store of deploy versions (internal/versions) and the handler that   *)
(* reverts to one (cmd/server).  Every successful deploy or revert appends *)
(* a numbered snapshot of the cumulative patch overlay; memory is the      *)
(* source of truth and is mirrored, best effort, one file per version.     *)
(*                                                                         *)
(* A record call is one critical section of Store.mu.  Inside it a write   *)
(* or a removal may fail unnoticed, and the process may die between the    *)
(* write and the pruning.  An overlay maps a file to its patched content,  *)
(* or to Pristine.  Deploys come from pipeline runs this module leaves     *)
(* open: they may be of any non-empty overlay, at any time.                *)
(***************************************************************************)
EXTENDS Naturals, Sequences, FiniteSets, Functions

CONSTANTS
  Files,          \* the files of the monitored project
  Contents,       \* what a patch may turn a file into
  Pristine,       \* a file no patch touched
  Retention       \* versions kept (VERSION_RETENTION, 20 by default)

ASSUME VersionsAssumption ==
  /\ Pristine \notin Contents
  /\ Retention \in Nat \ {0}

VARIABLES
  order,       \* the versions in memory, oldest first (Store.order and Store.m)
  seq,         \* Store.seq
  cumulative,  \* Store.cumulative
  disk,        \* the readable files under <dir>/versions
  held,        \* the record a revert in progress took with Get, or NoVersion
  recorded     \* history: every version ever recorded

vars == <<order, seq, cumulative, disk, held, recorded>>

Overlay   == [Files -> Contents \cup {Pristine}]
NoPatches == [f \in Files |-> Pristine]
Version   == [seq : Nat \ {0}, patches : Overlay, revertOf : Nat]
NoVersion == [seq |-> 0]

Newest == order[Len(order)]

Init ==
  /\ order = <<>> /\ seq = 0 /\ cumulative = NoPatches
  /\ disk = {} /\ held = NoVersion /\ recorded = {}

-----------------------------------------------------------------------------
(* Recording *)

\* Slip: a deploy is taken to carry its own patches and nothing older.
Merge_Replaces(under, over) == over

\* The run's patches go over what is already carried.
Merge(under, over) == [f \in Files |-> IF over[f] = Pristine THEN under[f] ELSE over[f]]

\* Slip: the number is read before it is counted up.
NextSeq_Stale == seq

NextSeq == seq + 1

\* Slip: one version too many is dropped.
Surplus_OffByOne(listed) == IF Len(listed) >= Retention THEN Len(listed) - Retention + 1 ELSE 0

\* How many of the oldest versions are past the cap.
Surplus(listed) == IF Len(listed) > Retention THEN Len(listed) - Retention ELSE 0

\* appendLocked: number, store, persist, prune.  `written' and `unlinked' are
\* what the ignored errors of WriteFile and Remove leave open.
AppendLocked(patches, revertOf, written, unlinked) ==
  LET v      == [seq |-> NextSeq, patches |-> patches, revertOf |-> revertOf]
      listed == Append(order, v)
      cut    == Surplus(listed)
  IN  /\ seq' = seq + 1
      /\ order' = SubSeq(listed, cut + 1, Len(listed))
      /\ disk' = LET files == IF written THEN disk \cup {v} ELSE disk
                 IN  IF unlinked THEN files \ Range(SubSeq(listed, 1, cut)) ELSE files
      /\ recorded' = recorded \cup {v}

RecordDeploy(run, written, unlinked) ==
  /\ run # NoPatches
  /\ cumulative' = Merge(cumulative, run)
  /\ AppendLocked(cumulative', 0, written, unlinked)
  /\ UNCHANGED held

\* versionRevert: the record is taken by value, one revert at a time, long
\* before its deploy succeeds or fails.
Get ==
  /\ held = NoVersion
  /\ held' \in Range(order)
  /\ UNCHANGED <<order, seq, cumulative, disk, recorded>>

\* Slip: the target's files go over the overlay instead of replacing it.
OverlayAfterRevert_Merged(target) == Merge(cumulative, target.patches)

OverlayAfterRevert(target) == target.patches

RecordRevert(written, unlinked) ==
  /\ held # NoVersion
  /\ cumulative' = OverlayAfterRevert(held)
  /\ AppendLocked(cumulative', held.seq, written, unlinked)
  /\ held' = NoVersion

RevertFails ==
  /\ held # NoVersion
  /\ held' = NoVersion
  /\ UNCHANGED <<order, seq, cumulative, disk, recorded>>

-----------------------------------------------------------------------------
(* Crash and restart *)

\* Each file once, in the order of their numbers (the sort is not stable).
IsListing(s, files) ==
  /\ Range(s) = files
  /\ \A i, j \in 1..Len(s) : i < j => s[i] # s[j] /\ s[i].seq <= s[j].seq

\* Slip: the counter resumes from the number of versions, not from the last one.
ResumedSeq_Counted(s) == Len(s)

\* load resumes the counter from the last number ...
ResumedSeq(s) == IF s = <<>> THEN 0 ELSE s[Len(s)].seq

\* Slip: ... and takes the overlay from the wrong end of the list.
RestoredOverlay_Oldest(s) == IF s = <<>> THEN NoPatches ELSE s[1].patches

\* ... and the overlay from the newest version.
RestoredOverlay(s) == IF s = <<>> THEN NoPatches ELSE s[Len(s)].patches

\* The process dies and New loads what is on disk: nothing if the store is
\* cleared on start.
Load(files) ==
  \E s \in [1..Cardinality(files) -> files] :
    /\ IsListing(s, files)
    /\ order' = s /\ disk' = files /\ held' = NoVersion
    /\ seq' = ResumedSeq(s) /\ cumulative' = RestoredOverlay(s)

Restart(cleared) ==
  /\ Load(IF cleared THEN {} ELSE disk)
  /\ UNCHANGED recorded

\* It may die inside appendLocked, after the file is written and before the
\* surplus is pruned.
CrashInAppend(patches, revertOf) ==
  LET v == [seq |-> NextSeq, patches |-> patches, revertOf |-> revertOf] IN
  /\ Load(disk \cup {v})
  /\ recorded' = recorded \cup {v}

-----------------------------------------------------------------------------
Record ==
  \E written, unlinked \in BOOLEAN :
    \/ \E run \in Overlay : RecordDeploy(run, written, unlinked)
    \/ RecordRevert(written, unlinked)

Next ==
  \/ Record
  \/ Get
  \/ RevertFails
  \/ \E cleared \in BOOLEAN : Restart(cleared)
  \/ \E run \in Overlay : run # NoPatches /\ CrashInAppend(Merge(cumulative, run), 0)
  \/ held # NoVersion /\ CrashInAppend(OverlayAfterRevert(held), held.seq)

Spec == Init /\ [][Next]_vars

-----------------------------------------------------------------------------
(* What the store promises *)

\* The versions ever recorded are the log, and the overlay is what is carried.
Log == INSTANCE DeployLog WITH log <- {v.patches : v \in recorded}, carried <- cumulative

\* Prunes, lost writes, crashes and reloads included, the store behaves as a plain
\* log of overlays: a deploy adds to what is carried, a revert restores a recorded
\* overlay, and a restart resumes from a recorded one or from nothing.
ImplementsLog == Log!Spec

-----------------------------------------------------------------------------
(* Properties *)

TypeOK ==
  /\ order \in Seq(Version) /\ seq \in Nat
  /\ cumulative \in Overlay
  /\ disk \subseteq Version /\ recorded \subseteq Version
  /\ held \in Version \cup {NoVersion}

\* The overlay the next deploy builds on is exactly what the newest version
\* recorded, through prunes, failed writes, crashes and restarts.
CumulativeIsNewest ==
  cumulative = IF order = <<>> THEN NoPatches ELSE Newest.patches

\* The numbers of the versions on the list grow and no two files share one, so
\* sorting by number after a restart is sorting by age.
NumbersGrow ==
  /\ \A i, j \in 1..Len(order) : i < j => order[i].seq < order[j].seq
  /\ \A v \in disk : v.seq <= seq
  /\ \A v, w \in disk : v.seq = w.seq => v = w

\* A revert restores its target whole: it carries exactly the overlay some version
\* of that number was recorded with, even if that version is long pruned.
RevertCarriesTarget ==
  \A v \in Range(order) : v.revertOf # 0 =>
    \E t \in recorded : t.seq = v.revertOf /\ t.patches = v.patches

DropsOldest ==
  \A v \in Range(order) \ Range(order') :
    /\ Len(order') = Retention
    /\ \A w \in Range(order') : v.seq < w.seq

\* A step that records a version drops only the oldest ones, and none below the cap.
OnlyOldestPruned == [][Record => DropsOldest]_vars

\* A restart that finds the newest version's file resumes where the store was:
\* the same overlay and the same number.
RestartResumes ==
  [][Restart(FALSE) /\ order # <<>> /\ Newest \in disk =>
       UNCHANGED <<cumulative, seq>>]_vars
=============================================================================
