------------------------------ MODULE Autopilot ------------------------------
(***************************************************************************)
(* The always-on auto-patch daemon (internal/autopilot).  Three kinds of   *)
(* process share the Engine: the pollers (the 30 s ticker and the poll     *)
(* that enabling autopatch kicks), the serial worker that runs one batch   *)
(* at a time, and the API calls SetConfig, Cancel and StopAll.             *)
(*                                                                         *)
(* An action is one critical section of Engine.mu, or one stretch of code  *)
(* between two of them, so every interleaving of lock sections is a        *)
(* behaviour.  Occurrence counts are abstracted to what tick tells apart:  *)
(* `seen' is the domain of Engine.baseline, and a poll reports which       *)
(* problems climbed past the count last seen.  The agent and the pipeline  *)
(* runner are external: their outcomes are nondeterministic.               *)
(***************************************************************************)
EXTENDS Naturals, Sequences, FiniteSets, Functions

CONSTANTS
  Problems,      \* the problem ids the feed may report
  NoProblem,     \* no id in the worker's hands
  QueueCap,      \* capacity of Engine.queue (128 in New)
  MaxBatch,      \* maxBatchSize
  ApplyRetries,  \* applyRetries
  DeployChoices  \* the values of Stages.Deploy that SetConfig may be given

ASSUME AutopilotAssumption ==
  /\ NoProblem \notin Problems
  /\ QueueCap \in Nat \ {0}
  /\ MaxBatch \in Nat \ {0}
  /\ ApplyRetries \in Nat
  /\ DeployChoices \in SUBSET BOOLEAN

VARIABLES
  \* Engine, fixed by New
  hasRunner, hasSource,
  \* Engine, guarded by mu
  enabled, deployStage, phase, seen, skip, activeIDs, ctx, stopping,
  \* Engine.queue
  queue,
  \* the pollers: ids picked but not sent yet; a kicked poll not yet run
  toEnqueue, kicked,
  \* the worker goroutine: locals of runBatch, isolate, investigateAndApply
  pc, cur, attempt, batch, todo, rest, stage, verdict, runDeploy,
  \* history: deploys recorded, runs a StopAll halted, sends a full queue lost
  shipped, swept, dropped

wiring  == <<hasRunner, hasSource>>
config  == <<enabled, deployStage>>
control == <<activeIDs, ctx, stopping>>
polls   == <<toEnqueue, kicked>>
locals  == <<cur, attempt, batch, todo, rest, stage, verdict, runDeploy>>
history == <<shipped, swept, dropped>>
vars == <<wiring, config, phase, seen, skip, control, queue, polls, pc, locals, history>>

Pollers  == {"ticker", "kick"}
InFlight == {"queued", "investigating", "remediating"}
Terminal == {"deployed", "failed", "halted", "proposed"}
Phases   == {"none"} \cup InFlight \cup Terminal   \* none: no entry in Engine.runs

\* Worker positions before a batch owns a context, and inside one.
Outside == {"idle", "start", "refused"}
Inside  == {"register", "gate", "attempt", "announce", "investigate", "settle",
            "halt", "haltWrite", "coalesce", "decide", "promote", "launch",
            "pipeline", "verdict", "reset", "next", "reopen", "cleanup"}
Stages  == {"applying", "shipping", "isolating"}

SetPhase(p, ph) == phase' = [phase EXCEPT ![p] = ph]

\* ctx: Engine.cancel is nil, or the batch's context is live, or cancelled.
Cancelled == IF ctx = "live" THEN "done" ELSE ctx

Init ==
  /\ hasRunner \in BOOLEAN /\ hasSource \in BOOLEAN /\ (hasSource => hasRunner)
  /\ enabled = TRUE /\ deployStage = TRUE
  /\ phase = [p \in Problems |-> "none"]
  /\ seen = {} /\ skip = {} /\ activeIDs = {} /\ ctx = "nil" /\ stopping = FALSE
  /\ queue = <<>>
  /\ toEnqueue = [t \in Pollers |-> {}] /\ kicked = FALSE
  /\ pc = "idle" /\ cur = NoProblem /\ attempt = 0
  /\ batch = <<>> /\ todo = <<>> /\ rest = <<>>
  /\ stage = "applying" /\ verdict = "none" /\ runDeploy = FALSE
  /\ shipped = {} /\ swept = {} /\ dropped = {}

-----------------------------------------------------------------------------
(* The pollers *)

\* Slip: a tick that picks up what was handed to manual control.
Picks_IgnoresSkip(listed, climbed) ==
  {p \in listed : /\ enabled
                  /\ \/ phase[p] = "none"
                     \/ phase[p] \in Terminal /\ p \in climbed}

\* tick acts on a problem it has never handled, and on a finished run whose
\* occurrences climbed; a run in flight and a skipped problem are left alone.
Picks(listed, climbed) ==
  {p \in listed : /\ enabled /\ p \notin skip
                  /\ \/ phase[p] = "none"
                     \/ phase[p] \in Terminal /\ p \in climbed}

\* The critical section of tick, on a listing that may be older than the lock.
\* A problem without a baseline entry always climbed (its count is positive).
Poll(t, listed, climbed) ==
  /\ toEnqueue[t] = {}
  /\ t = "kick" => kicked
  /\ listed \ seen \subseteq climbed
  /\ LET picked == Picks(listed, climbed) IN
       /\ phase' = [p \in Problems |-> IF p \in picked THEN "queued" ELSE phase[p]]
       /\ toEnqueue' = [toEnqueue EXCEPT ![t] = picked]
       /\ swept' = swept \ picked
       /\ dropped' = dropped \ picked
  /\ seen' = seen \cup listed
  /\ kicked' = IF t = "kick" THEN FALSE ELSE kicked
  /\ UNCHANGED <<wiring, config, skip, control, queue, pc, locals, shipped>>

\* ListProblems failed: this tick does nothing.
KickFails ==
  /\ kicked
  /\ kicked' = FALSE
  /\ UNCHANGED <<wiring, config, phase, seen, skip, control, queue, toEnqueue, pc,
                 locals, history>>

\* The non-blocking send: a full queue drops the id, and its run stays queued.
Send(t, p) ==
  /\ p \in toEnqueue[t]
  /\ toEnqueue' = [toEnqueue EXCEPT ![t] = @ \ {p}]
  /\ IF Len(queue) < QueueCap
       THEN queue' = Append(queue, p) /\ UNCHANGED dropped
       ELSE dropped' = dropped \cup {p} /\ UNCHANGED queue
  /\ UNCHANGED <<wiring, config, phase, seen, skip, control, kicked, pc, locals,
                 shipped, swept>>

-----------------------------------------------------------------------------
(* The worker: one batch, from dequeue to the deferred clean-up *)

\* Where a loop over `todo' goes on once it is empty.
Onward == CASE stage = "applying"  -> "coalesce"
            [] stage = "shipping"  -> "cleanup"
            [] stage = "isolating" -> "next"

\* One turn of a loop over `todo', at position pos.
Advance(pos) ==
  /\ todo' = Tail(todo)
  /\ IF Tail(todo) = <<>> THEN pc' = Onward /\ cur' = NoProblem
                          ELSE pc' = pos /\ UNCHANGED cur

\* The problems the running pipeline verifies and ships.
Subject == IF stage = "isolating" THEN <<cur>> ELSE batch

Dequeue ==
  /\ pc = "idle" /\ queue # <<>>
  /\ cur' = Head(queue) /\ queue' = Tail(queue)
  /\ pc' = "start"
  /\ UNCHANGED <<wiring, config, phase, seen, skip, control, polls, attempt, batch,
                 todo, rest, stage, verdict, runDeploy, history>>

\* runBatch reads Enabled and registers its context in one critical section.
BeginBatch ==
  /\ pc = "start"
  /\ IF enabled
       THEN /\ activeIDs' = {} /\ ctx' = "live" /\ batch' = <<>> /\ stage' = "applying"
            /\ pc' = "register"
       ELSE /\ pc' = "refused"
            /\ UNCHANGED <<activeIDs, ctx, batch, stage>>
  /\ UNCHANGED <<wiring, config, phase, seen, skip, stopping, queue, polls, cur,
                 attempt, todo, rest, verdict, runDeploy, history>>

Refuse ==
  /\ pc = "refused"
  /\ SetPhase(cur, "halted")
  /\ cur' = NoProblem /\ pc' = "idle"
  /\ UNCHANGED <<wiring, config, seen, skip, control, queue, polls, attempt, batch,
                 todo, rest, stage, verdict, runDeploy, history>>

Register ==
  /\ pc = "register"
  /\ activeIDs' = activeIDs \cup {cur}
  /\ pc' = "gate"
  /\ UNCHANGED <<wiring, config, phase, seen, skip, ctx, stopping, queue, polls,
                 locals, history>>

Unwanted(p) == p \in skip \/ ~enabled \/ ctx = "done"

\* applyOne: a problem handed to manual control, or a cancelled batch, is halted.
Gate ==
  /\ pc = "gate"
  /\ IF Unwanted(cur)
       THEN todo' = <<cur>> /\ pc' = "halt"
       ELSE pc' = "attempt" /\ UNCHANGED todo
  /\ UNCHANGED <<wiring, config, phase, seen, skip, control, queue, polls, cur,
                 attempt, batch, rest, stage, verdict, runDeploy, history>>

BeginAttempt ==
  /\ pc = "attempt"
  /\ IF ctx = "done"
       THEN todo' = <<cur>> /\ attempt' = 0 /\ pc' = "halt"
       ELSE pc' = "announce" /\ UNCHANGED <<todo, attempt>>
  /\ UNCHANGED <<wiring, config, phase, seen, skip, control, queue, polls, cur,
                 batch, rest, stage, verdict, runDeploy, history>>

Announce ==
  /\ pc = "announce"
  /\ SetPhase(cur, "investigating")
  /\ pc' = "investigate"
  /\ UNCHANGED <<wiring, config, seen, skip, control, queue, polls, locals, history>>

-----------------------------------------------------------------------------
(* investigateAndApply: what the agent and ApplyPatches return *)

InvestigationCancelled ==
  /\ pc = "investigate" /\ ctx = "done"
  /\ todo' = <<cur>> /\ attempt' = 0 /\ pc' = "halt"
  /\ UNCHANGED <<wiring, config, phase, seen, skip, control, queue, polls, cur,
                 batch, rest, stage, verdict, runDeploy, history>>

\* No pipeline runner: the proposal, or its absence, is the run's outcome.
ProposeOnly(ok) ==
  /\ pc = "investigate" /\ ctx = "live" /\ ~hasRunner
  /\ verdict' = IF ok THEN "proposed" ELSE "failed"
  /\ todo' = <<cur>> /\ attempt' = 0 /\ pc' = "settle"
  /\ UNCHANGED <<wiring, config, phase, seen, skip, control, queue, polls, cur,
                 batch, rest, stage, runDeploy, history>>

\* The patch is applied to the source; the fix joins the batch, or in the
\* isolated retry goes straight to its own pipeline run.
Applied ==
  /\ pc = "investigate" /\ ctx = "live" /\ hasRunner
  /\ attempt' = 0
  /\ IF stage = "applying"
       THEN /\ batch' = Append(batch, cur) /\ cur' = NoProblem /\ pc' = "coalesce"
            /\ UNCHANGED todo
       ELSE todo' = <<cur>> /\ pc' = "promote" /\ UNCHANGED <<batch, cur>>
  /\ UNCHANGED <<wiring, config, phase, seen, skip, control, queue, polls, rest,
                 stage, verdict, runDeploy, history>>

\* Slip: one retry too many.
MayRetry_OffByOne == attempt <= ApplyRetries

MayRetry == attempt < ApplyRetries

\* Error, no patch, or a failed apply: retried, then given up as failed.
NotApplied ==
  /\ pc = "investigate" /\ ctx = "live" /\ hasRunner
  /\ IF MayRetry
       THEN attempt' = attempt + 1 /\ pc' = "attempt" /\ UNCHANGED <<todo, verdict>>
       ELSE verdict' = "failed" /\ todo' = <<cur>> /\ attempt' = 0 /\ pc' = "settle"
  /\ UNCHANGED <<wiring, config, phase, seen, skip, control, queue, polls, cur,
                 batch, rest, stage, runDeploy, history>>

\* setPhase over todo: the outcome of each problem (commitFix holds no Engine
\* state and is left out).
Settle ==
  /\ pc = "settle"
  /\ SetPhase(Head(todo), verdict)
  /\ Advance("settle")
  /\ verdict' = IF Tail(todo) = <<>> THEN "none" ELSE verdict
  /\ UNCHANGED <<wiring, config, seen, skip, control, queue, polls, attempt,
                 batch, rest, stage, runDeploy, history>>

\* markHalted, first section: the problem goes to manual control unless StopAll
\* is tearing the batch down; a run already halted keeps its reason.
Skipped(p) == IF stopping THEN skip ELSE skip \cup {p}

MarkHalted ==
  /\ pc = "halt"
  /\ skip' = Skipped(Head(todo))
  /\ IF phase[Head(todo)] = "halted"
       THEN Advance("halt")
       ELSE pc' = "haltWrite" /\ UNCHANGED <<todo, cur>>
  /\ UNCHANGED <<wiring, config, phase, seen, control, queue, polls, attempt,
                 batch, rest, stage, verdict, runDeploy, history>>

\* markHalted, second section: setPhase halted.
WriteHalted ==
  /\ pc = "haltWrite"
  /\ SetPhase(Head(todo), "halted")
  /\ Advance("halt")
  /\ UNCHANGED <<wiring, config, seen, skip, control, queue, polls, attempt,
                 batch, rest, stage, verdict, runDeploy, history>>

-----------------------------------------------------------------------------
(* runBatch: coalescing, the consolidated pipeline, its outcome *)

\* The select takes a ready queue item even when the context is already done.
CoalesceTake ==
  /\ pc = "coalesce" /\ Len(batch) < MaxBatch /\ queue # <<>>
  /\ cur' = Head(queue) /\ queue' = Tail(queue)
  /\ pc' = "register"
  /\ UNCHANGED <<wiring, config, phase, seen, skip, control, polls, attempt, batch,
                 todo, rest, stage, verdict, runDeploy, history>>

\* The loop ends: batch full, context done, or the queue idle for flushGrace.
CoalesceEnd ==
  /\ pc = "coalesce"
  /\ Len(batch) >= MaxBatch \/ ctx = "done" \/ queue = <<>>
  /\ pc' = "decide"
  /\ UNCHANGED <<wiring, config, phase, seen, skip, control, queue, polls, locals,
                 history>>

\* Slip: a cancelled batch is left without halting its members.
NothingToDo_OrCancelled == batch = <<>> \/ ctx = "done" \/ ~hasRunner

NothingToDo == batch = <<>> \/ (ctx = "live" /\ ~hasRunner)

\* Slip: phase 2 begins without another look at the context.
Decide_Unchecked ==
  /\ pc = "decide"
  /\ IF NothingToDo
       THEN pc' = "cleanup" /\ UNCHANGED <<todo, stage>>
       ELSE todo' = batch /\ stage' = "shipping" /\ pc' = "promote"
  /\ UNCHANGED <<wiring, config, phase, seen, skip, control, queue, polls, cur,
                 attempt, batch, rest, verdict, runDeploy, history>>

Decide ==
  /\ pc = "decide"
  /\ IF NothingToDo
       THEN pc' = "cleanup" /\ UNCHANGED <<todo, stage>>
       ELSE /\ todo' = batch /\ stage' = "shipping"
            /\ pc' = IF ctx = "done" THEN "halt" ELSE "promote"
  /\ UNCHANGED <<wiring, config, phase, seen, skip, control, queue, polls, cur,
                 attempt, batch, rest, verdict, runDeploy, history>>

Promote ==
  /\ pc = "promote"
  /\ SetPhase(Head(todo), "remediating")
  /\ todo' = Tail(todo)
  /\ pc' = IF Tail(todo) = <<>> THEN "launch" ELSE "promote"
  /\ UNCHANGED <<wiring, config, seen, skip, control, queue, polls, cur, attempt,
                 batch, rest, stage, verdict, runDeploy, history>>

\* remediate: the stages are read once, before the runner starts.
Launch ==
  /\ pc = "launch"
  /\ runDeploy' = deployStage
  /\ pc' = "pipeline"
  /\ UNCHANGED <<wiring, config, phase, seen, skip, control, queue, polls, cur,
                 attempt, batch, todo, rest, stage, verdict, history>>

\* Slip: the batch is announced deployed whatever the runner said.
Outcome_Optimistic(success) == "deployed"

Outcome(success) == IF success THEN "deployed" ELSE "failed"

\* The runner returns.  A successful run that deployed is recorded as a version
\* of every problem it carried, even if its context was cancelled meanwhile.
PipelineReturns(success) ==
  /\ pc = "pipeline"
  /\ verdict' = Outcome(success)
  /\ shipped' = IF success /\ runDeploy THEN shipped \cup Range(Subject) ELSE shipped
  /\ runDeploy' = FALSE /\ pc' = "verdict"
  /\ UNCHANGED <<wiring, config, phase, seen, skip, control, queue, polls, cur,
                 attempt, batch, todo, rest, stage, swept, dropped>>

MustIsolate == verdict = "failed" /\ stage = "shipping" /\ Len(batch) > 1

\* The context is checked before the result is: a cancelled run is halted, a
\* failed batch of several fixes is isolated.
Verdict ==
  /\ pc = "verdict"
  /\ \/ ctx = "done" /\ todo' = Subject /\ verdict' = "none" /\ pc' = "halt"
     \/ ctx = "live" /\ MustIsolate /\ pc' = "reset" /\ UNCHANGED <<todo, verdict>>
     \/ ctx = "live" /\ ~MustIsolate /\ todo' = Subject /\ pc' = "settle"
                     /\ UNCHANGED verdict
  /\ UNCHANGED <<wiring, config, phase, seen, skip, control, queue, polls, cur,
                 attempt, batch, rest, stage, runDeploy, history>>

-----------------------------------------------------------------------------
(* isolate: each fix of a failed batch on its own *)

ResetSource(ok) ==
  /\ pc = "reset"
  /\ ok => hasSource
  /\ IF ok
       THEN /\ rest' = batch /\ stage' = "isolating" /\ verdict' = "none"
            /\ pc' = "next" /\ UNCHANGED todo
       ELSE todo' = batch /\ pc' = "settle" /\ UNCHANGED <<rest, stage, verdict>>
  /\ UNCHANGED <<wiring, config, phase, seen, skip, control, queue, polls, cur,
                 attempt, batch, runDeploy, history>>

NextIsolated ==
  /\ pc = "next"
  /\ IF rest = <<>>
       THEN pc' = "cleanup" /\ UNCHANGED <<cur, rest, todo>>
       ELSE /\ cur' = Head(rest) /\ rest' = Tail(rest)
            /\ IF Unwanted(Head(rest))
                 THEN todo' = <<Head(rest)>> /\ pc' = "halt"
                 ELSE pc' = "reopen" /\ UNCHANGED todo
  /\ UNCHANGED <<wiring, config, phase, seen, skip, control, queue, polls, attempt,
                 batch, stage, verdict, runDeploy, history>>

Reopen ==
  /\ pc = "reopen"
  /\ SetPhase(cur, "investigating")
  /\ pc' = "attempt"
  /\ UNCHANGED <<wiring, config, seen, skip, control, queue, polls, locals, history>>

\* Slip: the flag stays up for the next batch.
StoppingAfterBatch_Kept == stopping

StoppingAfterBatch == FALSE

\* The deferred clean-up of runBatch.
CleanUp ==
  /\ pc = "cleanup"
  /\ activeIDs' = {} /\ ctx' = "nil" /\ stopping' = StoppingAfterBatch
  /\ batch' = <<>> /\ stage' = "applying" /\ pc' = "idle"
  /\ UNCHANGED <<wiring, config, phase, seen, skip, queue, polls, cur, attempt, todo,
                 rest, verdict, runDeploy, history>>

-----------------------------------------------------------------------------
(* The API *)

\* Slip: the queue is emptied and the runs are forgotten.
Drained_None == {}

\* Runs that a drain of the queue turns from queued to halted.
Drained == {p \in Range(queue) : phase[p] = "queued"}

\* SetConfig.  Turning autopatch off cancels the batch and drains the queue;
\* turning it on kicks a poll (one outstanding kicked poll at a time).
SetConfig(on, deploy) ==
  /\ enabled' = on /\ deployStage' = deploy
  /\ IF enabled /\ ~on
       THEN /\ ctx' = Cancelled
            /\ phase' = [p \in Problems |-> IF p \in Drained THEN "halted" ELSE phase[p]]
            /\ queue' = <<>>
       ELSE UNCHANGED <<ctx, phase, queue>>
  /\ IF ~enabled /\ on
       THEN ~kicked /\ toEnqueue["kick"] = {} /\ kicked' = TRUE
       ELSE UNCHANGED kicked
  /\ UNCHANGED <<wiring, seen, skip, activeIDs, stopping, toEnqueue, pc, locals, history>>

\* Slip: only a fix already in the batch cancels it, not one still investigated.
CtxAfterCancel_Batched(p) == IF p \in Range(batch) THEN Cancelled ELSE ctx

\* If the batch in flight holds the problem, the whole batch is cancelled.
CtxAfterCancel(p) == IF p \in activeIDs THEN Cancelled ELSE ctx

\* Cancel hands a problem to manual control.
Cancel(p) ==
  /\ skip' = skip \cup {p}
  /\ ctx' = CtxAfterCancel(p)
  /\ phase' = IF phase[p] \in InFlight THEN [phase EXCEPT ![p] = "halted"] ELSE phase
  /\ UNCHANGED <<wiring, config, seen, activeIDs, stopping, queue, polls, pc, locals,
                 history>>

\* StopAll, before the source target is swapped.
StopAll ==
  /\ stopping' = (stopping \/ ctx # "nil")
  /\ ctx' = Cancelled
  /\ queue' = <<>>
  /\ phase' = [p \in Problems |-> IF phase[p] \in InFlight THEN "halted" ELSE phase[p]]
  /\ swept' = swept \cup {p \in Problems : phase[p] \in InFlight}
  /\ skip' = {} /\ seen' = {}
  /\ UNCHANGED <<wiring, config, activeIDs, polls, pc, locals, shipped, dropped>>

-----------------------------------------------------------------------------
(* The specification *)

PollStep(t) == \E listed \in SUBSET Problems : \E climbed \in SUBSET listed :
                 Poll(t, listed, climbed)

Polling == \/ \E t \in Pollers : PollStep(t) \/ \E p \in Problems : Send(t, p)
           \/ KickFails

InvestigationReturns ==
  InvestigationCancelled \/ (\E ok \in BOOLEAN : ProposeOnly(ok)) \/ Applied \/ NotApplied

Worker ==
  \/ Dequeue \/ BeginBatch \/ Refuse \/ Register \/ Gate \/ BeginAttempt \/ Announce
  \/ InvestigationReturns \/ Settle \/ MarkHalted \/ WriteHalted
  \/ CoalesceTake \/ CoalesceEnd \/ Decide \/ Promote \/ Launch
  \/ (\E success \in BOOLEAN : PipelineReturns(success)) \/ Verdict
  \/ (\E ok \in BOOLEAN : ResetSource(ok)) \/ NextIsolated \/ Reopen \/ CleanUp

API == \/ \E on \in BOOLEAN, deploy \in DeployChoices : SetConfig(on, deploy)
       \/ \E p \in Problems : Cancel(p)
       \/ StopAll

Next == Polling \/ Worker \/ API

Spec == Init /\ [][Next]_vars

\* The worker goroutine is always scheduled, every agent and runner call
\* returns, a send never blocks, and a select that finds its context done again
\* and again (Go picks a ready case at random) takes that case in the end.  The
\* user owes nothing; nor does the feed.
Fairness == /\ WF_vars(Worker)
            /\ SF_vars(CoalesceEnd /\ ctx = "done")
            /\ \A t \in Pollers, p \in Problems : WF_vars(Send(t, p))
            /\ WF_vars(KickFails \/ PollStep("kick"))

FairSpec == Spec /\ Fairness

-----------------------------------------------------------------------------
(* What the engine promises *)

\* The problems whose pipeline is decided on and has not returned.
Running == IF pc \in {"promote", "launch", "pipeline"} THEN Range(Subject) ELSE {}

Engine == INSTANCE AutoPatch WITH manual <- skip, carried <- Range(batch), running <- Running

\* Whatever the lock sections of pollers, worker and API calls interleave to, the
\* engine is a batch that is cancelled before it ships what nobody wants any more:
\* nothing joins it or is started for it once a call has cancelled it, and whatever
\* makes one of its fixes unwanted is such a call.
ImplementsAutoPatch == Engine!Spec

-----------------------------------------------------------------------------
(* Properties *)

TypeOK ==
  /\ hasRunner \in BOOLEAN /\ hasSource \in BOOLEAN
  /\ enabled \in BOOLEAN /\ deployStage \in BOOLEAN
  /\ phase \in [Problems -> Phases]
  /\ seen \subseteq Problems /\ skip \subseteq Problems /\ activeIDs \subseteq Problems
  /\ ctx \in {"nil", "live", "done"} /\ stopping \in BOOLEAN
  /\ queue \in Seq(Problems)
  /\ toEnqueue \in [Pollers -> SUBSET Problems] /\ kicked \in BOOLEAN
  /\ pc \in Outside \cup Inside
  /\ cur \in Problems \cup {NoProblem}
  /\ attempt \in 0..ApplyRetries
  /\ batch \in Seq(Problems) /\ todo \in Seq(Problems) /\ rest \in Seq(Problems)
  /\ stage \in Stages /\ verdict \in Terminal \cup {"none"} /\ runDeploy \in BOOLEAN
  /\ shipped \subseteq Problems /\ swept \subseteq Problems /\ dropped \subseteq Problems

\* The worker answers for p: p is the problem at hand, waits in a loop of the
\* batch, or sits in a batch whose outcome is still open.
InHand(p) ==
  \/ p \in Range(todo) \/ p \in Range(rest)
  \/ p = cur /\ pc \in {"start", "refused", "register", "gate", "attempt", "announce",
                        "investigate", "reopen"}
  \/ p = cur /\ stage = "isolating" /\ pc \in {"promote", "launch", "pipeline", "verdict"}
  \/ p \in Range(batch) /\ stage = "applying"
  \/ p \in Range(batch) /\ stage = "shipping"
       /\ pc \in {"promote", "launch", "pipeline", "verdict", "reset"}

\* No run is orphaned: a run shown in flight is in the queue, in a poller's
\* hands or in the worker's -- or its send was dropped by a full queue.
NoOrphanRun ==
  \A p \in Problems : phase[p] \in InFlight =>
    \/ InHand(p)
    \/ phase[p] = "queued" /\ (\/ p \in Range(queue) \cup dropped
                               \/ \E t \in Pollers : p \in toEnqueue[t])

\* While a batch's context is live, autopatch is on and none of the fixes it
\* carries belongs to a problem handed to manual control.
LiveBatchIsWanted ==
  ctx = "live" => enabled /\ Range(batch) \cap skip = {}

\* A problem under manual control is in flight only while the worker still
\* holds it: once let go, automation never has it again.
ManualMeansReleased ==
  \A p \in skip : phase[p] \in InFlight => InHand(p)

\* StopAll's flag never outlives the batch it was raised for.
StoppingIsScoped == stopping => ctx = "done"

\* With the deploy stage on, a run shown deployed has a recorded version.
DeployedWasShipped == \A p \in Problems : phase[p] = "deployed" => p \in shipped

\* Once autopatch stays off, the engine comes to rest: the worker is idle and
\* no run is shown in flight.
OffComesToRest ==
  <>[]~enabled => <>[](pc = "idle" /\ \A p \in Problems : phase[p] \notin InFlight)

\* If the feed stops producing picks, every run reaches an outcome and keeps it.
RunsSettle ==
  <>[][\A t \in Pollers : toEnqueue'[t] \subseteq toEnqueue[t]]_vars
    => <>[](\A p \in Problems : phase[p] \notin InFlight)

\* The worker lets go of a problem handed to manual control, whatever the feed
\* and the other problems of the batch do.
HandoverCompletes ==
  \A p \in Problems : (p \in skip /\ InHand(p)) ~> ~InHand(p)

-----------------------------------------------------------------------------
(* What comments of autopilot.go claim and the code does not keep *)

\* StopAll "halts everything": a problem it halted is not carried through a
\* live pipeline before a poll has re-picked it.
HaltedStaysHalted ==
  pc = "pipeline" /\ ctx = "live" => Range(Subject) \cap swept = {}

\* "Enabling kicks an immediate poll so open problems are picked up at once": a
\* poll with autopatch on re-opens a halted run that is not in manual control.
OpenProblemsArePicked ==
  [][\A t \in Pollers, listed \in SUBSET Problems : \A climbed \in SUBSET listed :
       Poll(t, listed, climbed) /\ enabled =>
         \A p \in listed \ skip : phase[p] = "halted" => phase'[p] = "queued"]_vars

\* A problem whose patch keeps failing is skipped "so it doesn't block the
\* batch": a batch that holds an applied fix stops waiting for more.
BatchFlushes ==
  (stage = "applying" /\ batch # <<>>) ~> ~(stage = "applying" /\ batch # <<>>)

=============================================================================
