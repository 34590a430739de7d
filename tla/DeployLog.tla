------------------------------- MODULE DeployLog -------------------------------
(***************************************************************************)
(* What the store of deploy versions promises its callers, apart from how  *)
(* it numbers, prunes, persists and reloads them (Versions, which          *)
(* implements this module).  A deploy puts its patches on top of what is   *)
(* carried, a revert carries exactly an overlay that was recorded, and a   *)
(* restart resumes from one that was recorded, or from none.               *)
(***************************************************************************)
CONSTANTS
  Files,      \* the files of the monitored project
  Contents,   \* what a patch may turn a file into
  Pristine    \* a file no patch touched

VARIABLES
  log,        \* the overlays recorded so far
  carried     \* the overlay the deployed source is taken to carry

Overlay   == [Files -> Contents \cup {Pristine}]
NoPatches == [f \in Files |-> Pristine]

\* The run's patches go over what is already carried.
Merge(under, over) == [f \in Files |-> IF over[f] = Pristine THEN under[f] ELSE over[f]]

Init == log = {} /\ carried = NoPatches

Deploy(run) ==
  /\ run # NoPatches
  /\ carried' = Merge(carried, run)
  /\ log' = log \cup {carried'}

Revert(target) ==
  /\ target \in log
  /\ carried' = target
  /\ UNCHANGED log

Resume ==
  /\ carried' \in log \cup {NoPatches}
  /\ UNCHANGED log

Next ==
  \/ \E run \in Overlay : Deploy(run)
  \/ \E target \in log : Revert(target)
  \/ Resume

Spec == Init /\ [][Next]_<<log, carried>>
=============================================================================
