----------------------------- MODULE MCAutopilot -----------------------------
(***************************************************************************)
(* Autopilot on small instances.  The worker, the pollers and the feed are *)
(* unbounded; only the number of API calls in a behaviour is capped.       *)
(***************************************************************************)
EXTENDS Autopilot, TLC

CONSTANT MaxCalls   \* API calls in one behaviour

VARIABLE calls

MCInit == Init /\ calls = 0

Free == UNCHANGED calls
Counted == calls < MaxCalls /\ calls' = calls + 1

\* Next, spelled out so that TLC reports every action.
MCNext ==
  \/ (\E t \in Pollers : PollStep(t)) /\ Free
  \/ (\E t \in Pollers, p \in Problems : Send(t, p)) /\ Free
  \/ KickFails /\ Free
  \/ Dequeue /\ Free
  \/ BeginBatch /\ Free
  \/ Refuse /\ Free
  \/ Register /\ Free
  \/ Gate /\ Free
  \/ BeginAttempt /\ Free
  \/ Announce /\ Free
  \/ InvestigationCancelled /\ Free
  \/ (\E ok \in BOOLEAN : ProposeOnly(ok)) /\ Free
  \/ Applied /\ Free
  \/ NotApplied /\ Free
  \/ Settle /\ Free
  \/ MarkHalted /\ Free
  \/ WriteHalted /\ Free
  \/ CoalesceTake /\ Free
  \/ CoalesceEnd /\ Free
  \/ Decide /\ Free
  \/ Promote /\ Free
  \/ Launch /\ Free
  \/ (\E success \in BOOLEAN : PipelineReturns(success)) /\ Free
  \/ Verdict /\ Free
  \/ (\E ok \in BOOLEAN : ResetSource(ok)) /\ Free
  \/ NextIsolated /\ Free
  \/ Reopen /\ Free
  \/ CleanUp /\ Free
  \/ (\E on \in BOOLEAN, deploy \in DeployChoices : SetConfig(on, deploy)) /\ Counted
  \/ (\E p \in Problems : Cancel(p)) /\ Counted
  \/ StopAll /\ Counted

MCSpec == MCInit /\ [][MCNext]_<<vars, calls>>

MCFairSpec ==
  /\ MCSpec
  /\ WF_<<vars, calls>>(Worker /\ UNCHANGED calls)
  /\ SF_<<vars, calls>>(CoalesceEnd /\ ctx = "done" /\ UNCHANGED calls)
  /\ \A t \in Pollers, p \in Problems : WF_<<vars, calls>>(Send(t, p) /\ UNCHANGED calls)
  /\ WF_<<vars, calls>>((KickFails \/ PollStep("kick")) /\ UNCHANGED calls)

ProblemSymmetry == Permutations(Problems)
=============================================================================
