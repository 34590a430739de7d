----------------------------- MODULE MCVersions -----------------------------
(***************************************************************************)
(* Versions on small instances: a behaviour records at most MaxRecords     *)
(* versions and restarts at most MaxRestarts times.                        *)
(***************************************************************************)
EXTENDS Versions, TLC

CONSTANTS MaxRecords, MaxRestarts

VARIABLES records, restarts

MCInit == Init /\ records = 0 /\ restarts = 0

Recording  == records < MaxRecords /\ records' = records + 1
Restarting == restarts < MaxRestarts /\ restarts' = restarts + 1

MCNext ==
  \/ /\ \E run \in Overlay, written, unlinked \in BOOLEAN : RecordDeploy(run, written, unlinked)
     /\ Recording /\ UNCHANGED restarts
  \/ Get /\ UNCHANGED <<records, restarts>>
  \/ /\ \E written, unlinked \in BOOLEAN : RecordRevert(written, unlinked)
     /\ Recording /\ UNCHANGED restarts
  \/ RevertFails /\ UNCHANGED <<records, restarts>>
  \/ (\E cleared \in BOOLEAN : Restart(cleared)) /\ Restarting /\ UNCHANGED records
  \/ /\ \E run \in Overlay : run # NoPatches /\ CrashInAppend(Merge(cumulative, run), 0)
     /\ Recording /\ Restarting
  \/ /\ held # NoVersion /\ CrashInAppend(OverlayAfterRevert(held), held.seq)
     /\ Recording /\ Restarting

MCSpec == MCInit /\ [][MCNext]_<<vars, records, restarts>>

VersionsSymmetry == Permutations(Files)
=============================================================================
