------------------------------- MODULE AutoPatch -------------------------------
(***************************************************************************)
(* What the auto-patch daemon promises its users, apart from how it finds, *)
(* queues, investigates and retries (Autopilot, which implements this      *)
(* module).  Fixes are gathered into one batch at a time; a pipeline is    *)
(* started for all of them or for one of them, and only while the batch is *)
(* wanted: whoever takes over a problem of the batch, turns autopatch off  *)
(* or leaves the target cancels it, and nothing joins a cancelled batch or *)
(* is started for it.                                                      *)
(***************************************************************************)
CONSTANT Problems

VARIABLES
  enabled,   \* autopatch is on
  manual,    \* the problems a human has taken over
  ctx,       \* the batch: "nil" for none, "live", or "done" once cancelled
  carried,   \* the problems whose fixes are applied for the batch
  running,   \* those that a pipeline was started for and has not returned
  shipped    \* those that a deploy was recorded for

patchVars == <<enabled, manual, ctx, carried, running, shipped>>

Cancelled == IF ctx = "live" THEN "done" ELSE ctx

Init ==
  /\ enabled = TRUE /\ manual = {} /\ ctx = "nil"
  /\ carried = {} /\ running = {} /\ shipped = {}

Begin ==
  /\ ctx = "nil" /\ enabled
  /\ ctx' = "live"
  /\ UNCHANGED <<enabled, manual, carried, running, shipped>>

Join(p) ==
  /\ ctx = "live" /\ running = {} /\ enabled /\ p \notin manual
  /\ carried' = carried \cup {p}
  /\ UNCHANGED <<enabled, manual, ctx, running, shipped>>

\* A pipeline for the whole batch or, once that failed, for one fix of it.
Start(fixes) ==
  /\ ctx = "live" /\ running = {} /\ fixes # {}
  /\ fixes = carried \/ \E p \in carried : fixes = {p}
  /\ running' = fixes
  /\ UNCHANGED <<enabled, manual, ctx, carried, shipped>>

\* It returns, perhaps with the batch cancelled meanwhile, and what it deployed counts.
Return(deployed) ==
  /\ running # {}
  /\ shipped' = IF deployed THEN shipped \cup running ELSE shipped
  /\ running' = {}
  /\ UNCHANGED <<enabled, manual, ctx, carried>>

End ==
  /\ ctx # "nil" /\ running = {}
  /\ ctx' = "nil" /\ carried' = {}
  /\ UNCHANGED <<enabled, manual, running, shipped>>

\* A problem the batch carries never changes hands without cancelling it; one
\* still under investigation for it cancels it too.
TakeOver(p) ==
  /\ manual' = manual \cup {p}
  /\ ctx' \in {ctx, Cancelled}
  /\ p \in carried => ctx' = Cancelled
  /\ UNCHANGED <<enabled, carried, running, shipped>>

\* A cancelled batch hands over what it still held.
GiveUp(p) ==
  /\ ctx = "done"
  /\ manual' = manual \cup {p}
  /\ UNCHANGED <<enabled, ctx, carried, running, shipped>>

Switch(on) ==
  /\ enabled' = on
  /\ ctx' = IF on THEN ctx ELSE Cancelled
  /\ UNCHANGED <<manual, carried, running, shipped>>

StopAll ==
  /\ ctx' = Cancelled /\ manual' = {}
  /\ UNCHANGED <<enabled, carried, running, shipped>>

Next ==
  \/ Begin \/ End \/ StopAll
  \/ \E p \in Problems : Join(p) \/ TakeOver(p) \/ GiveUp(p)
  \/ \E fixes \in SUBSET carried : Start(fixes)
  \/ \E deployed \in BOOLEAN : Return(deployed)
  \/ \E on \in BOOLEAN : Switch(on)

Spec == Init /\ [][Next]_patchVars
=============================================================================
