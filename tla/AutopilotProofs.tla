--------------------------- MODULE AutopilotProofs ---------------------------
(***************************************************************************)
(* Invariants of Autopilot for every set of problems, queue capacity,      *)
(* batch size and retry count.                                             *)
(***************************************************************************)
EXTENDS Autopilot, TLAPS

-----------------------------------------------------------------------------
(* Sequences, as far as the proofs look into them *)

\* The elements of a sequence are elements of its base set.
LEMMA RangeInBase ==
  ASSUME NEW S, NEW s \in Seq(S)
  PROVE  Range(s) \subseteq S
BY DEF Range

\* An element of a sequence is in its range.
LEMMA ElementInRange ==
  ASSUME NEW S, NEW s \in Seq(S), NEW i \in 1..Len(s)
  PROVE  s[i] \in Range(s)
BY DEF Range

\* A list of one problem, as the worker's loops over a single problem use it.
LEMMA Singleton ==
  ASSUME NEW S, NEW x \in S
  PROVE  /\ <<x>> \in Seq(S) /\ <<x>> # <<>> /\ Range(<<x>>) = {x}
         /\ Head(<<x>>) = x /\ Tail(<<x>>) = <<>>
BY DEF Range

\* The empty list holds nothing.
LEMMA EmptyRange == Range(<<>>) = {}
BY DEF Range

\* Taking the head off a list splits its elements.
LEMMA HeadTail ==
  ASSUME NEW S, NEW s \in Seq(S), s # <<>>
  PROVE  /\ Head(s) \in S /\ Tail(s) \in Seq(S)
         /\ Range(s) = {Head(s)} \cup Range(Tail(s))
<1>1. Head(s) \in S /\ Tail(s) \in Seq(S) /\ Len(s) \in Nat \ {0}
  OBVIOUS
<1>2. \A i \in 1..(Len(s) - 1) : Tail(s)[i] = s[i + 1]
  OBVIOUS
<1>3. Len(Tail(s)) = Len(s) - 1 /\ Head(s) = s[1]
  OBVIOUS
<1>4. ASSUME NEW x \in Range(s) PROVE x \in {Head(s)} \cup Range(Tail(s))
  <2>1. PICK i \in 1..Len(s) : x = s[i]
    BY <1>4 DEF Range
  <2>2. CASE i = 1
    BY <2>1, <2>2, <1>3
  <2>3. CASE i # 1
    <3>1. i - 1 \in 1..Len(Tail(s)) /\ Tail(s)[i - 1] = s[i]
      BY <2>3, <1>1, <1>2, <1>3
    <3>2. Tail(s)[i - 1] \in Range(Tail(s))
      BY <3>1, <1>1, ElementInRange
    <3>3. QED BY <3>1, <3>2, <2>1
  <2>4. QED BY <2>2, <2>3
<1>5. ASSUME NEW x \in {Head(s)} \cup Range(Tail(s)) PROVE x \in Range(s)
  <2>1. CASE x = Head(s)
    BY <2>1, <1>1, <1>3 DEF Range
  <2>2. CASE x \in Range(Tail(s))
    <3>1. PICK i \in 1..Len(Tail(s)) : x = Tail(s)[i]
      BY <2>2, <1>1 DEF Range
    <3>2. QED BY <3>1, <1>1, <1>2, <1>3 DEF Range
  <2>3. QED BY <1>5, <2>1, <2>2
<1>6. QED BY <1>1, <1>4, <1>5

\* A list that is not empty holds something.
LEMMA NonEmptyRange ==
  ASSUME NEW S, NEW s \in Seq(S), s # <<>>
  PROVE  Range(s) # {}
BY HeadTail

\* Appending adds one element.
LEMMA AppendRange ==
  ASSUME NEW S, NEW s \in Seq(S), NEW x \in S
  PROVE  /\ Append(s, x) \in Seq(S) /\ Append(s, x) # <<>>
         /\ Range(Append(s, x)) = Range(s) \cup {x}
<1>1. Append(s, x) \in Seq(S) /\ Len(Append(s, x)) = Len(s) + 1 /\ Len(s) \in Nat
  OBVIOUS
<1>2. \A i \in 1..Len(s) : Append(s, x)[i] = s[i]
  OBVIOUS
<1>3. Append(s, x)[Len(s) + 1] = x
  OBVIOUS
<1>4. Range(Append(s, x)) \subseteq Range(s) \cup {x}
  <2>1. SUFFICES ASSUME NEW i \in 1..(Len(s) + 1)
                 PROVE  Append(s, x)[i] \in Range(s) \cup {x}
    BY <1>1 DEF Range
  <2>2. CASE i \in 1..Len(s) BY <2>2, <1>2 DEF Range
  <2>3. CASE i = Len(s) + 1 BY <2>3, <1>3
  <2>4. QED BY <2>2, <2>3, <1>1
<1>5. Range(s) \cup {x} \subseteq Range(Append(s, x))
  BY <1>1, <1>2, <1>3 DEF Range
<1>6. QED BY <1>1, <1>4, <1>5

-----------------------------------------------------------------------------
(* The inductive invariant *)

Looping  == {"settle", "halt", "haltWrite", "promote"}
Carrying == {"start", "refused", "register", "gate", "attempt", "announce",
             "investigate", "reopen"}
Piping   == {"promote", "launch", "pipeline", "verdict"}

\* The loop variable `todo' is filled exactly while a loop over it runs, and
\* `rest' only inside the isolated retries.
LoopShape ==
  /\ todo # <<>> <=> pc \in Looping
  /\ rest # <<>> => stage = "isolating" /\ pc # "cleanup"
  /\ pc = "promote" => Range(todo) \subseteq Range(Subject)

\* The worker's hands hold a problem wherever the code dereferences one.
HandShape ==
  /\ pc \in Carrying => cur \in Problems
  /\ stage = "isolating" /\ pc \in Piping => cur \in Problems

\* Where in the three stages of a batch each position may occur.
StageShape ==
  /\ pc \in Outside => stage = "applying" /\ batch = <<>>
  /\ pc \in Piping => stage # "applying"
  /\ pc = "reset" => stage = "shipping"
  /\ pc \in {"register", "gate", "coalesce", "decide"} => stage = "applying"
  /\ pc \in {"attempt", "announce", "investigate"} => stage # "shipping"
  /\ pc \in {"next", "reopen"} => stage = "isolating"
  /\ pc = "cleanup" /\ stage = "applying" => batch = <<>>
  /\ stage # "applying" => batch # <<>>

\* A batch owns a context, only a configured runner fills it, and an outcome is
\* known wherever it is written to a run.
BatchShape ==
  /\ ctx = "nil" <=> pc \in Outside
  /\ batch # <<>> => hasRunner
  /\ pc \in {"settle", "verdict", "reset"} => verdict \in Terminal

Shape == LoopShape /\ HandShape /\ StageShape /\ BatchShape

Inv == TypeOK /\ Shape

\* The engine that New builds has the shape.
LEMMA InitInv == Init => Inv
<1> SUFFICES ASSUME Init PROVE TypeOK /\ Shape
  BY DEF Inv
<1>2. TypeOK
  <2>1. /\ enabled \in BOOLEAN /\ deployStage \in BOOLEAN /\ stopping \in BOOLEAN
        /\ kicked \in BOOLEAN /\ runDeploy \in BOOLEAN
    BY DEF Init
  <2>2. hasRunner \in BOOLEAN /\ hasSource \in BOOLEAN
    BY DEF Init
  <2>3. phase \in [Problems -> Phases] /\ toEnqueue \in [Pollers -> SUBSET Problems]
    BY DEF Init, Phases
  <2>4. queue \in Seq(Problems) /\ batch \in Seq(Problems) /\ todo \in Seq(Problems) /\ rest \in Seq(Problems)
    BY DEF Init
  <2>5. attempt \in 0..ApplyRetries
    BY AutopilotAssumption DEF Init
  <2>6. pc \in Outside \cup Inside /\ stage \in Stages /\ verdict \in Terminal \cup {"none"}
        /\ cur \in Problems \cup {NoProblem} /\ ctx \in {"nil", "live", "done"}
    BY DEF Init, Outside, Stages
  <2>7. QED BY <2>1, <2>2, <2>3, <2>4, <2>5, <2>6 DEF Init, TypeOK
<1>3. Shape
  BY DEF Init, Shape, LoopShape, HandShape, StageShape, BatchShape, Looping, Carrying,
         Piping, Outside
<1>4. QED BY <1>2, <1>3

\* Steps of the pollers and the API leave the worker's position alone.
LEMMA OthersKeepInv ==
  ASSUME Inv, Polling \/ API
  PROVE  Inv'
<1> USE AutopilotAssumption DEF Inv
<1>1. ASSUME NEW t \in Pollers, NEW listed \in SUBSET Problems,
             NEW climbed \in SUBSET listed, Poll(t, listed, climbed)
      PROVE  Inv'
  <2>1. Picks(listed, climbed) \subseteq Problems BY DEF Picks
  <2>2. TypeOK'
    BY <1>1, <2>1 DEF Poll, TypeOK, Phases, InFlight, wiring, config, control, locals
  <2>3. Shape'
    BY <1>1 DEF Poll, Shape, LoopShape, HandShape, StageShape, BatchShape, Subject,
                wiring, config, control, locals
  <2>4. QED BY <2>2, <2>3
<1>2. ASSUME NEW t \in Pollers, NEW p \in Problems, Send(t, p) PROVE Inv'
  <2>1. TypeOK'
    <3>1. toEnqueue' \in [Pollers -> SUBSET Problems]
      <4>1. toEnqueue[t] \ {p} \in SUBSET Problems BY DEF TypeOK
      <4>2. QED BY <1>2, <4>1 DEF Send, TypeOK
    <3>2. queue' \in Seq(Problems)
      <4>1. Append(queue, p) \in Seq(Problems) BY DEF TypeOK
      <4>2. QED BY <1>2, <4>1 DEF Send, TypeOK
    <3>3. dropped' \subseteq Problems
      BY <1>2 DEF Send, TypeOK
    <3>4. QED BY <1>2, <3>1, <3>2, <3>3 DEF Send, TypeOK, wiring, config, control, locals
  <2>2. Shape'
    BY <1>2 DEF Send, Shape, LoopShape, HandShape, StageShape, BatchShape, Subject,
                wiring, config, control, locals
  <2>3. QED BY <2>1, <2>2
<1>3. CASE KickFails
  <2>1. TypeOK'
    BY <1>3 DEF KickFails, TypeOK, wiring, config, control, locals, history
  <2>2. Shape'
    BY <1>3 DEF KickFails, Shape, LoopShape, HandShape, StageShape, BatchShape, Subject,
                wiring, config, control, locals
  <2>3. QED BY <2>1, <2>2
<1>4. ASSUME NEW on \in BOOLEAN, NEW deploy \in DeployChoices, SetConfig(on, deploy)
      PROVE  Inv'
  <2>1. TypeOK'
    <3>1. phase' \in [Problems -> Phases] /\ ctx' \in {"nil", "live", "done"}
      BY <1>4 DEF SetConfig, TypeOK, Cancelled, Phases, Terminal
    <3>2. queue' \in Seq(Problems)
      <4>1. CASE enabled /\ ~on BY <1>4, <4>1 DEF SetConfig
      <4>2. CASE ~(enabled /\ ~on) BY <1>4, <4>2 DEF SetConfig, TypeOK
      <4>3. QED BY <4>1, <4>2
    <3>3. enabled' \in BOOLEAN /\ deployStage' \in BOOLEAN
      BY <1>4 DEF SetConfig
    <3>4. kicked' \in BOOLEAN
      <4>1. kicked' = TRUE \/ kicked' = kicked BY <1>4 DEF SetConfig
      <4>2. QED BY <4>1 DEF TypeOK
    <3>5. QED BY <1>4, <3>1, <3>2, <3>3, <3>4 DEF SetConfig, TypeOK, wiring, locals, history
  <2>2. Shape'
    BY <1>4 DEF SetConfig, TypeOK, Cancelled, Shape, LoopShape, HandShape, StageShape,
                BatchShape, Subject, wiring, locals, history
  <2>3. QED BY <2>1, <2>2
<1>5. ASSUME NEW p \in Problems, Cancel(p) PROVE Inv'
  <2>1. TypeOK'
    BY <1>5 DEF Cancel, CtxAfterCancel, TypeOK, Cancelled, Phases, Terminal, wiring,
                config, polls, locals, history
  <2>2. Shape'
    BY <1>5 DEF Cancel, CtxAfterCancel, TypeOK, Cancelled, Shape, LoopShape, HandShape,
                StageShape, BatchShape, Subject, wiring, config, locals, history
  <2>3. QED BY <2>1, <2>2
<1>6. CASE StopAll
  <2>1. TypeOK'
    BY <1>6 DEF StopAll, TypeOK, Cancelled, Phases, Terminal, wiring, config, polls, locals
  <2>2. Shape'
    BY <1>6 DEF StopAll, TypeOK, Cancelled, Shape, LoopShape, HandShape, StageShape,
                BatchShape, Subject, wiring, config, locals
  <2>3. QED BY <2>1, <2>2
<1>7. QED BY <1>1, <1>2, <1>3, <1>4, <1>5, <1>6 DEF Polling, API, PollStep

-----------------------------------------------------------------------------
(* Steps of the worker *)

\* The end of a turn of a loop over `todo' keeps its bookkeeping.
LEMMA AdvanceFacts ==
  ASSUME Inv, pc \in {"settle", "halt", "haltWrite"}, NEW pos, Advance(pos)
  PROVE  /\ todo' = Tail(todo) /\ todo' \in Seq(Problems) /\ Head(todo) \in Problems
         /\ Range(todo) = {Head(todo)} \cup Range(todo')
         /\ \/ todo' # <<>> /\ pc' = pos /\ cur' = cur
            \/ /\ todo' = <<>> /\ cur' = NoProblem
               /\ \/ stage = "applying" /\ pc' = "coalesce"
                  \/ stage = "shipping" /\ pc' = "cleanup"
                  \/ stage = "isolating" /\ pc' = "next"
<1>1. todo \in Seq(Problems) /\ todo # <<>> /\ stage \in Stages
  BY DEF Inv, TypeOK, Shape, LoopShape, Looping
<1>2. todo' = Tail(todo)
  BY DEF Advance
<1>3. todo' \in Seq(Problems) /\ Head(todo) \in Problems
      /\ Range(todo) = {Head(todo)} \cup Range(todo')
  BY <1>1, <1>2, HeadTail
<1>4. CASE Tail(todo) = <<>>
  BY <1>1, <1>2, <1>3, <1>4 DEF Advance, Onward, Stages
<1>5. CASE Tail(todo) # <<>>
  BY <1>2, <1>3, <1>5 DEF Advance
<1>6. QED BY <1>4, <1>5

\* The problem at hand is a problem, and so is the list of it alone.
LEMMA AtHand ==
  ASSUME Inv, pc \in Carrying \/ (stage = "isolating" /\ pc \in Piping)
  PROVE  /\ cur \in Problems /\ <<cur>> \in Seq(Problems) /\ <<cur>> # <<>>
         /\ Range(<<cur>>) = {cur} /\ Head(<<cur>>) = cur /\ Tail(<<cur>>) = <<>>
<1>1. cur \in Problems
  BY DEF Inv, Shape, HandShape
<1>2. QED
  BY <1>1, Singleton

\* Every other step of the worker.
LEMMA WorkerKeepsInv ==
  ASSUME Inv, Worker
  PROVE  Inv'
<1> USE AutopilotAssumption DEF Inv
<1>1. CASE Dequeue
  <2>1. TypeOK'
    <3>1. pc' \in Outside \cup Inside
      BY <1>1 DEF Dequeue, Outside, Inside
    <3>2. /\ cur' \in Problems \cup {NoProblem}
          /\ queue' \in Seq(Problems)
      BY <1>1, HeadTail DEF Dequeue, TypeOK
    <3>3. QED BY <1>1, <3>1, <3>2 DEF Dequeue, TypeOK, wiring, config, control,
         polls, locals, history
  <2>2. Shape'
    BY <1>1, HeadTail DEF Dequeue, TypeOK, Shape, LoopShape, HandShape, StageShape,
       BatchShape, Looping, Carrying, Piping, Outside, Inside, Stages, Subject,
       wiring, config, control, polls, locals, history
  <2>3. QED BY <2>1, <2>2
<1>2. CASE BeginBatch
  <2>1. TypeOK'
    <3>1. pc' \in Outside \cup Inside
      BY <1>2 DEF BeginBatch, Outside, Inside
    <3>2. /\ activeIDs' \subseteq Problems
          /\ ctx' \in {"nil", "live", "done"}
          /\ batch' \in Seq(Problems)
          /\ stage' \in Stages
      <4>1. CASE enabled BY <1>2, <4>1 DEF BeginBatch, TypeOK, Stages
      <4>2. CASE ~enabled BY <1>2, <4>2 DEF BeginBatch, TypeOK
      <4>3. QED BY <4>1, <4>2
    <3>3. QED BY <1>2, <3>1, <3>2 DEF BeginBatch, TypeOK, wiring, config, control,
         polls, locals, history
  <2>2. Shape'
    BY <1>2, EmptyRange DEF BeginBatch, TypeOK, Shape, LoopShape, HandShape,
       StageShape, BatchShape, Looping, Carrying, Piping, Outside, Inside, Stages,
       Subject, wiring, config, control, polls, locals, history
  <2>3. QED BY <2>1, <2>2
<1>3. CASE Refuse
  <2>1. TypeOK'
    <3>1. pc' \in Outside \cup Inside
      BY <1>3 DEF Refuse, Outside, Inside
    <3>2. phase' \in [Problems -> Phases]
      BY <1>3 DEF Refuse, TypeOK, SetPhase, Phases, Terminal
    <3>3. QED BY <1>3, <3>1, <3>2 DEF Refuse, TypeOK, wiring, config, control, polls,
         locals, history
  <2>2. Shape'
    BY <1>3 DEF Refuse, TypeOK, Shape, LoopShape, HandShape, StageShape, BatchShape,
       Looping, Carrying, Piping, Outside, Inside, Stages, Subject, SetPhase, Phases,
       Terminal, wiring, config, control, polls, locals, history
  <2>3. QED BY <2>1, <2>2
<1>4. CASE Register
  <2>1. <<cur>> \in Seq(Problems) /\ cur \in Problems
       /\ <<cur>> # <<>> /\ Range(<<cur>>) = {cur} /\ Head(<<cur>>) = cur
    BY <1>4, AtHand DEF Register, Carrying
  <2>2. TypeOK'
    <3>1. pc' \in Outside \cup Inside
      BY <1>4 DEF Register, Outside, Inside
    <3>2. activeIDs' \subseteq Problems
      BY <1>4, <2>1 DEF Register, TypeOK
    <3>3. QED BY <1>4, <3>1, <3>2 DEF Register, TypeOK, wiring, config, control,
         polls, locals, history
  <2>3. Shape'
    BY <1>4, <2>1 DEF Register, TypeOK, Shape, LoopShape, HandShape, StageShape,
       BatchShape, Looping, Carrying, Piping, Outside, Inside, Stages, Subject,
       wiring, config, control, polls, locals, history
  <2>4. QED BY <2>2, <2>3
<1>5. CASE Gate
  <2>1. <<cur>> \in Seq(Problems) /\ cur \in Problems
       /\ <<cur>> # <<>> /\ Range(<<cur>>) = {cur} /\ Head(<<cur>>) = cur
    BY <1>5, AtHand DEF Gate, Carrying
  <2>2. TypeOK'
    <3>1. pc' \in Outside \cup Inside
      BY <1>5 DEF Gate, Outside, Inside
    <3>2. todo' \in Seq(Problems)
      BY <1>5, <2>1 DEF Gate, TypeOK
    <3>3. QED BY <1>5, <3>1, <3>2 DEF Gate, TypeOK, wiring, config, control, polls,
         locals, history
  <2>3. Shape'
    BY <1>5, <2>1 DEF Gate, TypeOK, Shape, LoopShape, HandShape, StageShape,
       BatchShape, Looping, Carrying, Piping, Outside, Inside, Stages, Subject,
       wiring, config, control, polls, locals, history
  <2>4. QED BY <2>2, <2>3
<1>6. CASE BeginAttempt
  <2>1. <<cur>> \in Seq(Problems) /\ cur \in Problems
       /\ <<cur>> # <<>> /\ Range(<<cur>>) = {cur} /\ Head(<<cur>>) = cur
    BY <1>6, AtHand DEF BeginAttempt, Carrying
  <2>2. TypeOK'
    <3>1. pc' \in Outside \cup Inside
      BY <1>6 DEF BeginAttempt, Outside, Inside
    <3>2. todo' \in Seq(Problems) BY <1>6, <2>1 DEF BeginAttempt, TypeOK
    <3>3. attempt' \in 0..ApplyRetries BY <1>6 DEF BeginAttempt, TypeOK
    <3>4. QED BY <1>6, <3>1, <3>2, <3>3 DEF BeginAttempt, TypeOK, wiring, config, control,
         polls, locals, history
  <2>3. Shape'
    BY <1>6, <2>1 DEF BeginAttempt, TypeOK, Shape, LoopShape, HandShape, StageShape,
       BatchShape, Looping, Carrying, Piping, Outside, Inside, Stages, Subject,
       wiring, config, control, polls, locals, history
  <2>4. QED BY <2>2, <2>3
<1>7. CASE Announce
  <2>1. TypeOK'
    <3>1. pc' \in Outside \cup Inside
      BY <1>7 DEF Announce, Outside, Inside
    <3>2. phase' \in [Problems -> Phases]
      BY <1>7 DEF Announce, TypeOK, SetPhase, Phases, InFlight
    <3>3. QED BY <1>7, <3>1, <3>2 DEF Announce, TypeOK, wiring, config, control,
         polls, locals, history
  <2>2. Shape'
    BY <1>7 DEF Announce, TypeOK, Shape, LoopShape, HandShape, StageShape,
       BatchShape, Looping, Carrying, Piping, Outside, Inside, Stages, Subject,
       SetPhase, Phases, InFlight, wiring, config, control, polls, locals, history
  <2>3. QED BY <2>1, <2>2
<1>8. CASE InvestigationCancelled
  <2>1. <<cur>> \in Seq(Problems) /\ cur \in Problems
       /\ <<cur>> # <<>> /\ Range(<<cur>>) = {cur} /\ Head(<<cur>>) = cur
    BY <1>8, AtHand DEF InvestigationCancelled, Carrying
  <2>2. TypeOK'
    <3>1. pc' \in Outside \cup Inside
      BY <1>8 DEF InvestigationCancelled, Outside, Inside
    <3>2. /\ todo' \in Seq(Problems)
          /\ attempt' \in 0..ApplyRetries
      BY <1>8, <2>1 DEF InvestigationCancelled, TypeOK
    <3>3. QED BY <1>8, <3>1, <3>2 DEF InvestigationCancelled, TypeOK, wiring, config,
         control, polls, locals, history
  <2>3. Shape'
    BY <1>8, <2>1 DEF InvestigationCancelled, TypeOK, Shape, LoopShape, HandShape,
       StageShape, BatchShape, Looping, Carrying, Piping, Outside, Inside, Stages,
       Subject, wiring, config, control, polls, locals, history
  <2>4. QED BY <2>2, <2>3
<1>9. ASSUME NEW ok \in BOOLEAN, ProposeOnly(ok) PROVE Inv'
  <2>1. <<cur>> \in Seq(Problems) /\ cur \in Problems
       /\ <<cur>> # <<>> /\ Range(<<cur>>) = {cur} /\ Head(<<cur>>) = cur
    BY <1>9, AtHand DEF ProposeOnly, Carrying
  <2>2. TypeOK'
    <3>1. pc' \in Outside \cup Inside
      BY <1>9 DEF ProposeOnly, Outside, Inside
    <3>2. /\ todo' \in Seq(Problems)
          /\ attempt' \in 0..ApplyRetries
          /\ verdict' \in Terminal \cup {"none"}
      BY <1>9, <2>1 DEF ProposeOnly, TypeOK, Terminal
    <3>3. QED BY <1>9, <3>1, <3>2 DEF ProposeOnly, TypeOK, wiring, config, control,
         polls, locals, history
  <2>3. Shape'
    BY <1>9, <2>1 DEF ProposeOnly, TypeOK, Shape, LoopShape, HandShape, StageShape,
       BatchShape, Looping, Carrying, Piping, Outside, Inside, Stages, Subject,
       Terminal, wiring, config, control, polls, locals, history
  <2>4. QED BY <2>2, <2>3
<1>10. CASE Applied
  <2>1. <<cur>> \in Seq(Problems) /\ cur \in Problems
       /\ <<cur>> # <<>> /\ Range(<<cur>>) = {cur} /\ Head(<<cur>>) = cur
    BY <1>10, AtHand DEF Applied, Carrying
  <2>2. TypeOK'
    <3>1. pc' \in Outside \cup Inside
      BY <1>10 DEF Applied, Outside, Inside
    <3>2. attempt' \in 0..ApplyRetries BY <1>10 DEF Applied
    <3>3. /\ batch' \in Seq(Problems)
          /\ cur' \in Problems \cup {NoProblem}
          /\ todo' \in Seq(Problems)
      <4>1. Append(batch, cur) \in Seq(Problems) BY <2>1, AppendRange DEF TypeOK
      <4>2. CASE stage = "applying" BY <1>10, <4>1, <4>2 DEF Applied, TypeOK
      <4>3. CASE stage # "applying" BY <1>10, <2>1, <4>3 DEF Applied, TypeOK
      <4>4. QED BY <4>2, <4>3
    <3>4. QED BY <1>10, <3>1, <3>2, <3>3 DEF Applied, TypeOK, wiring, config, control,
         polls, locals, history
  <2>3. Shape'
    BY <1>10, <2>1, AppendRange DEF Applied, TypeOK, Shape, LoopShape, HandShape,
       StageShape, BatchShape, Looping, Carrying, Piping, Outside, Inside, Stages,
       Subject, wiring, config, control, polls, locals, history
  <2>4. QED BY <2>2, <2>3
<1>11. CASE NotApplied
  <2>1. <<cur>> \in Seq(Problems) /\ cur \in Problems
       /\ <<cur>> # <<>> /\ Range(<<cur>>) = {cur} /\ Head(<<cur>>) = cur
    BY <1>11, AtHand DEF NotApplied, Carrying
  <2>2. TypeOK'
    <3>1. pc' \in Outside \cup Inside
      BY <1>11 DEF NotApplied, Outside, Inside
    <3>2. attempt' \in 0..ApplyRetries
      <4>1. CASE MayRetry BY <1>11, <4>1 DEF NotApplied, TypeOK, MayRetry
      <4>2. CASE ~MayRetry BY <1>11, <4>2 DEF NotApplied
      <4>3. QED BY <4>1, <4>2
    <3>3. verdict' \in Terminal \cup {"none"} /\ todo' \in Seq(Problems)
      BY <1>11, <2>1 DEF NotApplied, TypeOK, Terminal
    <3>4. QED BY <1>11, <3>1, <3>2, <3>3 DEF NotApplied, TypeOK, wiring, config, control,
         polls, locals, history
  <2>3. Shape'
    BY <1>11, <2>1 DEF NotApplied, TypeOK, Shape, LoopShape, HandShape, StageShape,
       BatchShape, Looping, Carrying, Piping, Outside, Inside, Stages, Subject,
       MayRetry, Terminal, wiring, config, control, polls, locals, history
  <2>4. QED BY <2>2, <2>3
<1>12. CASE CoalesceTake
  <2>1. TypeOK'
    <3>1. pc' \in Outside \cup Inside
      BY <1>12 DEF CoalesceTake, Outside, Inside
    <3>2. /\ cur' \in Problems \cup {NoProblem}
          /\ queue' \in Seq(Problems)
      BY <1>12, HeadTail DEF CoalesceTake, TypeOK
    <3>3. QED BY <1>12, <3>1, <3>2 DEF CoalesceTake, TypeOK, wiring, config, control,
         polls, locals, history
  <2>2. Shape'
    BY <1>12, HeadTail DEF CoalesceTake, TypeOK, Shape, LoopShape, HandShape,
       StageShape, BatchShape, Looping, Carrying, Piping, Outside, Inside, Stages,
       Subject, wiring, config, control, polls, locals, history
  <2>3. QED BY <2>1, <2>2
<1>13. CASE CoalesceEnd
  <2>1. TypeOK'
    <3>1. pc' \in Outside \cup Inside
      BY <1>13 DEF CoalesceEnd, Outside, Inside
    <3>2. QED BY <1>13, <3>1 DEF CoalesceEnd, TypeOK, wiring, config, control, polls,
         locals, history
  <2>2. Shape'
    BY <1>13 DEF CoalesceEnd, TypeOK, Shape, LoopShape, HandShape, StageShape,
       BatchShape, Looping, Carrying, Piping, Outside, Inside, Stages, Subject,
       wiring, config, control, polls, locals, history
  <2>3. QED BY <2>1, <2>2
<1>14. CASE Decide
  <2>1. TypeOK'
    <3>1. pc' \in Outside \cup Inside
      BY <1>14 DEF Decide, Outside, Inside
    <3>2. /\ todo' \in Seq(Problems)
          /\ stage' \in Stages
      BY <1>14 DEF Decide, TypeOK, Stages, NothingToDo
    <3>3. QED BY <1>14, <3>1, <3>2 DEF Decide, TypeOK, wiring, config, control,
         polls, locals, history
  <2>2. Shape'
    BY <1>14 DEF Decide, TypeOK, Shape, LoopShape, HandShape, StageShape, BatchShape,
       Looping, Carrying, Piping, Outside, Inside, Stages, Subject, NothingToDo,
       wiring, config, control, polls, locals, history
  <2>3. QED BY <2>1, <2>2
<1>15. CASE Promote
  <2>1. stage = "isolating" => /\ <<cur>> \in Seq(Problems) /\ cur \in Problems
                               /\ <<cur>> # <<>> /\ Range(<<cur>>) = {cur}
    BY <1>15, AtHand DEF Promote, Piping
  <2>2. TypeOK'
    <3>1. pc' \in Outside \cup Inside
      BY <1>15 DEF Promote, Outside, Inside
    <3>2. /\ phase' \in [Problems -> Phases]
          /\ todo' \in Seq(Problems)
      BY <1>15, <2>1, HeadTail DEF Promote, TypeOK, Shape, LoopShape, Looping,
         SetPhase, Phases, InFlight
    <3>3. QED BY <1>15, <3>1, <3>2 DEF Promote, TypeOK, wiring, config, control,
         polls, locals, history
  <2>3. Range(Tail(todo)) \subseteq Range(todo)
    BY <1>15, HeadTail DEF Promote, TypeOK, Shape, LoopShape, Looping
  <2>4. LoopShape'
    BY <1>15, <2>3 DEF Promote, TypeOK, Shape, LoopShape, StageShape, Looping, Subject,
       Piping, Outside
  <2>5. Shape'
    BY <1>15, <2>1, <2>4 DEF Promote, TypeOK, Shape, HandShape, StageShape, BatchShape,
       Carrying, Piping, Outside, wiring, control
  <2>6. QED BY <2>2, <2>5
<1>16. CASE Launch
  <2>1. TypeOK'
    <3>1. pc' \in Outside \cup Inside
      BY <1>16 DEF Launch, Outside, Inside
    <3>2. QED BY <1>16, <3>1 DEF Launch, TypeOK, wiring, config, control, polls,
         locals, history
  <2>2. Shape'
    BY <1>16 DEF Launch, TypeOK, Shape, LoopShape, HandShape, StageShape, BatchShape,
       Looping, Carrying, Piping, Outside, Inside, Stages, Subject, wiring, config,
       control, polls, locals, history
  <2>3. QED BY <2>1, <2>2
<1>17. ASSUME NEW success \in BOOLEAN, PipelineReturns(success) PROVE Inv'
  <2>1. stage = "isolating" => /\ <<cur>> \in Seq(Problems) /\ cur \in Problems
                               /\ <<cur>> # <<>> /\ Range(<<cur>>) = {cur}
    BY <1>17, AtHand DEF PipelineReturns, Piping
  <2>2. TypeOK'
    <3>1. pc' \in Outside \cup Inside
      BY <1>17 DEF PipelineReturns, Outside, Inside
    <3>2. /\ verdict' \in Terminal \cup {"none"}
          /\ shipped' \subseteq Problems
      BY <1>17, <2>1, RangeInBase DEF PipelineReturns, TypeOK, Subject, Outcome,
         Terminal
    <3>3. QED BY <1>17, <3>1, <3>2 DEF PipelineReturns, TypeOK, wiring, config,
         control, polls, locals, history
  <2>3. Shape'
    BY <1>17, <2>1, RangeInBase DEF PipelineReturns, TypeOK, Shape, LoopShape,
       HandShape, StageShape, BatchShape, Looping, Carrying, Piping, Outside, Inside,
       Stages, Subject, Outcome, Terminal, wiring, config, control, polls, locals,
       history
  <2>4. QED BY <2>2, <2>3
<1>18. CASE Verdict
  <2>1. stage = "isolating" => /\ <<cur>> \in Seq(Problems) /\ cur \in Problems
                               /\ <<cur>> # <<>> /\ Range(<<cur>>) = {cur}
    BY <1>18, AtHand DEF Verdict, Piping
  <2>2. TypeOK'
    <3>1. pc' \in Outside \cup Inside
      BY <1>18 DEF Verdict, Outside, Inside
    <3>2. /\ todo' \in Seq(Problems)
          /\ verdict' \in Terminal \cup {"none"}
      BY <1>18, <2>1 DEF Verdict, TypeOK, Subject, MustIsolate, Terminal
    <3>3. QED BY <1>18, <3>1, <3>2 DEF Verdict, TypeOK, wiring, config, control,
         polls, locals, history
  <2>3. Shape'
    BY <1>18, <2>1 DEF Verdict, TypeOK, Shape, LoopShape, HandShape, StageShape,
       BatchShape, Looping, Carrying, Piping, Outside, Inside, Stages, Subject,
       MustIsolate, Terminal, wiring, config, control, polls, locals, history
  <2>4. QED BY <2>2, <2>3
<1>19. ASSUME NEW ok \in BOOLEAN, ResetSource(ok) PROVE Inv'
  <2>1. TypeOK'
    <3>1. pc' \in Outside \cup Inside
      BY <1>19 DEF ResetSource, Outside, Inside
    <3>2. /\ rest' \in Seq(Problems)
          /\ stage' \in Stages
          /\ verdict' \in Terminal \cup {"none"}
          /\ todo' \in Seq(Problems)
      BY <1>19 DEF ResetSource, TypeOK, Stages
    <3>3. QED BY <1>19, <3>1, <3>2 DEF ResetSource, TypeOK, wiring, config, control,
         polls, locals, history
  <2>2. Shape'
    BY <1>19 DEF ResetSource, TypeOK, Shape, LoopShape, HandShape, StageShape,
       BatchShape, Looping, Carrying, Piping, Outside, Inside, Stages, Subject,
       wiring, config, control, polls, locals, history
  <2>3. QED BY <2>1, <2>2
<1>20. CASE NextIsolated
  <2>1. TypeOK'
    <3>1. pc' \in Outside \cup Inside
      BY <1>20 DEF NextIsolated, Outside, Inside
    <3>2. /\ cur' \in Problems \cup {NoProblem}
          /\ rest' \in Seq(Problems)
          /\ todo' \in Seq(Problems)
      <4>1. CASE rest = <<>> BY <1>20, <4>1 DEF NextIsolated, TypeOK
      <4>2. CASE rest # <<>>
        <5>1. Head(rest) \in Problems /\ Tail(rest) \in Seq(Problems)
          BY <4>2, HeadTail DEF TypeOK
        <5>2. <<Head(rest)>> \in Seq(Problems) BY <5>1, Singleton
        <5>3. QED BY <1>20, <4>2, <5>1, <5>2 DEF NextIsolated, TypeOK
      <4>3. QED BY <4>1, <4>2
    <3>3. QED BY <1>20, <3>1, <3>2 DEF NextIsolated, TypeOK, wiring, config, control,
         polls, locals, history
  <2>2. Shape'
    <3>1. CASE rest = <<>>
      BY <1>20, <3>1 DEF NextIsolated, TypeOK, Shape, LoopShape, HandShape, StageShape,
         BatchShape, Looping, Carrying, Piping, Outside, Stages, wiring, control
    <3>2. CASE rest # <<>>
      <4>1. Head(rest) \in Problems /\ <<Head(rest)>> # <<>>
        BY <3>2, HeadTail, Singleton DEF TypeOK
      <4>2. QED
        BY <1>20, <3>2, <4>1 DEF NextIsolated, TypeOK, Shape, LoopShape, HandShape,
           StageShape, BatchShape, Looping, Carrying, Piping, Outside, Stages, wiring, control
    <3>3. QED BY <3>1, <3>2
  <2>3. QED BY <2>1, <2>2
<1>21. CASE Reopen
  <2>1. TypeOK'
    <3>1. pc' \in Outside \cup Inside
      BY <1>21 DEF Reopen, Outside, Inside
    <3>2. phase' \in [Problems -> Phases]
      BY <1>21 DEF Reopen, TypeOK, SetPhase, Phases, InFlight
    <3>3. QED BY <1>21, <3>1, <3>2 DEF Reopen, TypeOK, wiring, config, control,
         polls, locals, history
  <2>2. Shape'
    BY <1>21 DEF Reopen, TypeOK, Shape, LoopShape, HandShape, StageShape, BatchShape,
       Looping, Carrying, Piping, Outside, Inside, Stages, Subject, SetPhase, Phases,
       InFlight, wiring, config, control, polls, locals, history
  <2>3. QED BY <2>1, <2>2
<1>22. CASE CleanUp
  <2>1. TypeOK'
    <3>1. pc' \in Outside \cup Inside
      BY <1>22 DEF CleanUp, Outside, Inside
    <3>2. /\ activeIDs' \subseteq Problems
          /\ ctx' \in {"nil", "live", "done"}
          /\ batch' \in Seq(Problems)
          /\ stage' \in Stages
      BY <1>22 DEF CleanUp, TypeOK, Stages, StoppingAfterBatch
    <3>3. QED BY <1>22, <3>1, <3>2 DEF CleanUp, TypeOK, StoppingAfterBatch, wiring,
         config, control, polls, locals, history
  <2>2. Shape'
    BY <1>22 DEF CleanUp, TypeOK, Shape, LoopShape, HandShape, StageShape,
       BatchShape, Looping, Carrying, Piping, Outside, Inside, Stages, Subject,
       StoppingAfterBatch, wiring, config, control, polls, locals, history
  <2>3. QED BY <2>1, <2>2
<1>23. CASE Settle
  <2>1. /\ todo' \in Seq(Problems) /\ Head(todo) \in Problems
        /\ cur' \in Problems \cup {NoProblem} /\ pc' \in Outside \cup Inside
    BY <1>23, AdvanceFacts DEF Settle, TypeOK, Outside, Inside
  <2>2. verdict' \in Terminal \cup {"none"}
    BY <1>23, <2>1 DEF Settle, SetPhase, TypeOK, Shape, BatchShape, Phases, Terminal
  <2>3. TypeOK'
    BY <1>23, <2>1, <2>2 DEF Settle, SetPhase, TypeOK, Phases, Terminal, wiring, config, control,
       polls, locals, history
  <2>4. Shape'
    BY <1>23, AdvanceFacts DEF Settle, TypeOK, Shape, LoopShape, HandShape, StageShape,
       BatchShape, Looping, Carrying, Piping, Outside, Stages, Subject, wiring, control
  <2>5. QED BY <2>3, <2>4
<1>24. CASE MarkHalted
  <2>1. /\ todo' \in Seq(Problems) /\ Head(todo) \in Problems
        /\ cur' \in Problems \cup {NoProblem} /\ pc' \in Outside \cup Inside
    <3>1. CASE phase[Head(todo)] = "halted"
      BY <1>24, <3>1, AdvanceFacts DEF MarkHalted, TypeOK, Outside, Inside
    <3>2. CASE phase[Head(todo)] # "halted"
      <4>1. Head(todo) \in Problems
        BY <1>24, HeadTail DEF MarkHalted, TypeOK, Shape, LoopShape, Looping
      <4>2. QED BY <1>24, <3>2, <4>1 DEF MarkHalted, TypeOK, Outside, Inside
    <3>3. QED BY <3>1, <3>2
  <2>2. skip' \subseteq Problems
    BY <1>24, <2>1 DEF MarkHalted, SetPhase, TypeOK, Skipped
  <2>3. TypeOK'
    BY <1>24, <2>1, <2>2 DEF MarkHalted, SetPhase, TypeOK, Phases, Terminal, wiring, config, control,
       polls, locals, history
  <2>4. Shape'
    BY <1>24, AdvanceFacts DEF MarkHalted, TypeOK, Shape, LoopShape, HandShape, StageShape,
       BatchShape, Looping, Carrying, Piping, Outside, Stages, Subject, wiring, control
  <2>5. QED BY <2>3, <2>4
<1>25. CASE WriteHalted
  <2>1. /\ todo' \in Seq(Problems) /\ Head(todo) \in Problems
        /\ cur' \in Problems \cup {NoProblem} /\ pc' \in Outside \cup Inside
    BY <1>25, AdvanceFacts DEF WriteHalted, TypeOK, Outside, Inside
  <2>2. phase' \in [Problems -> Phases]
    BY <1>25, <2>1 DEF WriteHalted, SetPhase, TypeOK, Phases, Terminal
  <2>3. TypeOK'
    BY <1>25, <2>1, <2>2 DEF WriteHalted, SetPhase, TypeOK, Phases, Terminal, wiring, config, control,
       polls, locals, history
  <2>4. Shape'
    BY <1>25, AdvanceFacts DEF WriteHalted, TypeOK, Shape, LoopShape, HandShape, StageShape,
       BatchShape, Looping, Carrying, Piping, Outside, Stages, Subject, wiring, control
  <2>5. QED BY <2>3, <2>4
<1>26. QED
  BY <1>1, <1>2, <1>3, <1>4, <1>5, <1>6, <1>7, <1>8, <1>9, <1>10, <1>11, <1>12,
     <1>13, <1>14, <1>15, <1>16, <1>17, <1>18, <1>19, <1>20, <1>21, <1>22, <1>23, <1>24, <1>25
  DEF Worker, InvestigationReturns

\* Every step, and a stutter, keeps the invariant.
LEMMA StepInv == Inv /\ [Next]_vars => Inv'
<1>1. Inv /\ Next => Inv'
  BY OthersKeepInv, WorkerKeepsInv DEF Next
<1>2. Inv /\ UNCHANGED vars => Inv'
  BY DEF Inv, TypeOK, Shape, LoopShape, HandShape, StageShape, BatchShape, Subject, vars,
         wiring, config, control, polls, locals, history
<1>3. QED BY <1>1, <1>2

\* The shape holds in every reachable state.
THEOREM ShapeHolds == Spec => []Inv
BY InitInv, StepInv, PTL DEF Spec

\* The type invariant holds in every reachable state.
THEOREM TypeCorrect == Spec => []TypeOK
<1>1. Inv => TypeOK BY DEF Inv
<1>2. QED BY <1>1, ShapeHolds, PTL

-----------------------------------------------------------------------------
(* A live batch is wanted, and StopAll's flag is scoped to its batch *)

\* What a live context promises at each position of the worker.
LiveShape ==
  /\ ctx # "nil" => Range(batch) \subseteq activeIDs
  /\ pc = "gate" => cur \in activeIDs
  /\ ctx = "live" /\ stage = "applying" /\ pc \in {"attempt", "announce", "investigate"}
       => cur \in activeIDs \ skip
  /\ ctx = "live" /\ pc \in {"halt", "haltWrite"} => Tail(todo) = <<>>
  /\ ctx = "live" /\ pc = "halt" => Head(todo) \in skip

LiveInv == LiveShape /\ LiveBatchIsWanted /\ StoppingIsScoped

\* No batch is live at the start.
LEMMA InitLive == Init => LiveInv
BY EmptyRange DEF Init, LiveInv, LiveShape, LiveBatchIsWanted, StoppingIsScoped

\* The pollers and the API calls leave a live batch wanted, or cancel it.
LEMMA OthersKeepLive ==
  ASSUME Inv, LiveInv, Polling \/ API
  PROVE  LiveInv'
<1>1. ASSUME NEW t \in Pollers, NEW listed, NEW climbed, Poll(t, listed, climbed)
      PROVE  LiveInv'
  BY <1>1 DEF Poll, LiveInv, LiveShape, LiveBatchIsWanted, StoppingIsScoped, wiring,
         config, control, polls, locals, history
<1>2. ASSUME NEW t \in Pollers, NEW p, Send(t, p) PROVE LiveInv'
  BY <1>2 DEF Send, LiveInv, LiveShape, LiveBatchIsWanted, StoppingIsScoped, wiring,
         config, control, polls, locals, history
<1>3. CASE KickFails
  BY <1>3 DEF KickFails, LiveInv, LiveShape, LiveBatchIsWanted, StoppingIsScoped,
         wiring, config, control, polls, locals, history
<1>4. ASSUME NEW on \in BOOLEAN, NEW deploy, SetConfig(on, deploy) PROVE LiveInv'
  BY <1>4 DEF SetConfig, Cancelled, Inv, TypeOK, LiveInv, LiveShape, LiveBatchIsWanted,
         StoppingIsScoped, wiring, config, control, polls, locals, history
<1>5. ASSUME NEW p \in Problems, Cancel(p) PROVE LiveInv'
  BY <1>5 DEF Cancel, CtxAfterCancel, Cancelled, LiveInv, LiveShape, LiveBatchIsWanted,
         StoppingIsScoped, wiring, config, control, polls, locals, history
<1>6. CASE StopAll
  BY <1>6 DEF StopAll, Cancelled, Inv, TypeOK, LiveInv, LiveShape, LiveBatchIsWanted,
         StoppingIsScoped, wiring, config, control, polls, locals, history
<1>7. QED BY <1>1, <1>2, <1>3, <1>4, <1>5, <1>6 DEF Polling, API, PollStep

\* The worker opens a batch only under its guards and adds no fix to an unwanted one.
LEMMA WorkerKeepsLive ==
  ASSUME Inv, LiveInv, Worker
  PROVE  LiveInv'
<1>1. CASE Dequeue
  BY <1>1 DEF Dequeue, LiveInv, LiveShape, LiveBatchIsWanted, StoppingIsScoped, wiring,
         config, control, polls, locals, history
<1>2. CASE BeginBatch
  BY <1>2, EmptyRange DEF BeginBatch, LiveInv, LiveShape, LiveBatchIsWanted,
         StoppingIsScoped, Inv, Shape, StageShape, Outside, BatchShape, wiring, config,
         control, polls, locals, history
<1>3. CASE Refuse
  BY <1>3 DEF Refuse, LiveInv, LiveShape, LiveBatchIsWanted, StoppingIsScoped, Inv,
         Shape, BatchShape, Outside, wiring, config, control, polls, locals, history
<1>4. CASE Register
  BY <1>4 DEF Register, LiveInv, LiveShape, LiveBatchIsWanted, StoppingIsScoped,
         wiring, config, control, polls, locals, history
<1>5. CASE Gate
  BY <1>5, AtHand DEF Gate, LiveInv, LiveShape, LiveBatchIsWanted, StoppingIsScoped,
         Unwanted, Carrying, wiring, config, control, polls, locals, history
<1>6. CASE BeginAttempt
  BY <1>6 DEF BeginAttempt, LiveInv, LiveShape, LiveBatchIsWanted, StoppingIsScoped,
         wiring, config, control, polls, locals, history
<1>7. CASE Announce
  BY <1>7 DEF Announce, LiveInv, LiveShape, LiveBatchIsWanted, StoppingIsScoped,
         wiring, config, control, polls, locals, history
<1>8. CASE InvestigationCancelled
  BY <1>8 DEF InvestigationCancelled, LiveInv, LiveShape, LiveBatchIsWanted,
         StoppingIsScoped, wiring, config, control, polls, locals, history
<1>9. ASSUME NEW ok \in BOOLEAN, ProposeOnly(ok) PROVE LiveInv'
  BY <1>9 DEF ProposeOnly, LiveInv, LiveShape, LiveBatchIsWanted, StoppingIsScoped,
         wiring, config, control, polls, locals, history
<1>10. CASE Applied
  <2>1. cur \in Problems /\ batch \in Seq(Problems)
    BY <1>10, AtHand DEF Applied, Carrying, Inv, TypeOK
  <2>2. Range(Append(batch, cur)) = Range(batch) \cup {cur}
    BY <2>1, AppendRange
  <2>3. CASE stage = "applying"
    <3>1. ctx = "live" /\ cur \in activeIDs \ skip /\ Range(batch) \subseteq activeIDs
          /\ enabled /\ Range(batch) \cap skip = {} /\ ~stopping
      BY <1>10, <2>3 DEF Applied, LiveInv, LiveShape, LiveBatchIsWanted, StoppingIsScoped
    <3>2. batch' = Append(batch, cur) /\ pc' = "coalesce"
          /\ UNCHANGED <<activeIDs, ctx, stopping, enabled, skip, stage>>
      BY <1>10, <2>3 DEF Applied, config, control
    <3>3. Range(batch') = Range(batch) \cup {cur}
      BY <2>2, <3>2
    <3>4. LiveShape'
      BY <3>1, <3>2, <3>3 DEF LiveShape
    <3>5. QED
      BY <3>1, <3>2, <3>3, <3>4 DEF LiveInv, LiveBatchIsWanted, StoppingIsScoped
  <2>4. CASE stage # "applying"
    BY <1>10, <2>4 DEF Applied, LiveInv, LiveShape, LiveBatchIsWanted, StoppingIsScoped,
       config, control
  <2>5. QED BY <2>3, <2>4
<1>11. CASE NotApplied
  BY <1>11 DEF NotApplied, LiveInv, LiveShape, LiveBatchIsWanted, StoppingIsScoped,
         wiring, config, control, polls, locals, history
<1>12. CASE Settle
  <2>1. todo' = Tail(todo) /\ (pc' \in {"coalesce", "cleanup", "next"} \/ todo' # <<>>)
    BY <1>12, AdvanceFacts DEF Settle
  <2>2. pc' \in {"coalesce", "cleanup", "next", "settle", "halt"}
    BY <1>12, AdvanceFacts DEF Settle
  <2>3. pc' = "halt" => pc = "haltWrite"
    BY <1>12, AdvanceFacts DEF Settle
  <2>4. QED
    BY <1>12, <2>1, <2>2, <2>3 DEF Settle, LiveInv, LiveShape, LiveBatchIsWanted,
       StoppingIsScoped, config, control
<1>13. CASE MarkHalted
  <2>1. ctx = "live" => skip' = skip /\ Tail(todo) = <<>>
    BY <1>13 DEF MarkHalted, Skipped, LiveInv, LiveShape
  <2>2. CASE phase[Head(todo)] = "halted"
    <3>1. todo' = Tail(todo) /\ (pc' \in {"coalesce", "cleanup", "next"} \/ todo' # <<>>)
          /\ pc' \in {"coalesce", "cleanup", "next", "halt"}
      BY <1>13, <2>2, AdvanceFacts DEF MarkHalted
    <3>2. QED
      BY <1>13, <2>1, <3>1 DEF MarkHalted, LiveInv, LiveShape, LiveBatchIsWanted,
         StoppingIsScoped, config, control
  <2>3. CASE phase[Head(todo)] # "halted"
    BY <1>13, <2>1, <2>3 DEF MarkHalted, LiveInv, LiveShape, LiveBatchIsWanted,
       StoppingIsScoped, config, control
  <2>4. QED BY <2>2, <2>3
<1>14. CASE WriteHalted
  <2>1. todo' = Tail(todo) /\ (pc' \in {"coalesce", "cleanup", "next"} \/ todo' # <<>>)
    BY <1>14, AdvanceFacts DEF WriteHalted
  <2>2. pc' \in {"coalesce", "cleanup", "next", "settle", "halt"}
    BY <1>14, AdvanceFacts DEF WriteHalted
  <2>3. pc' = "halt" => pc = "haltWrite"
    BY <1>14, AdvanceFacts DEF WriteHalted
  <2>4. QED
    BY <1>14, <2>1, <2>2, <2>3 DEF WriteHalted, LiveInv, LiveShape, LiveBatchIsWanted,
       StoppingIsScoped, config, control
<1>15. CASE CoalesceTake
  BY <1>15 DEF CoalesceTake, LiveInv, LiveShape, LiveBatchIsWanted, StoppingIsScoped,
         wiring, config, control, polls, locals, history
<1>16. CASE CoalesceEnd
  BY <1>16 DEF CoalesceEnd, LiveInv, LiveShape, LiveBatchIsWanted, StoppingIsScoped,
         wiring, config, control, polls, locals, history
<1>17. CASE Decide
  BY <1>17 DEF Decide, LiveInv, LiveShape, LiveBatchIsWanted, StoppingIsScoped, wiring,
         config, control, polls, locals, history
<1>18. CASE Promote
  BY <1>18 DEF Promote, LiveInv, LiveShape, LiveBatchIsWanted, StoppingIsScoped,
         wiring, config, control, polls, locals, history
<1>19. CASE Launch
  BY <1>19 DEF Launch, LiveInv, LiveShape, LiveBatchIsWanted, StoppingIsScoped, wiring,
         config, control, polls, locals, history
<1>20. ASSUME NEW success \in BOOLEAN, PipelineReturns(success) PROVE LiveInv'
  BY <1>20 DEF PipelineReturns, LiveInv, LiveShape, LiveBatchIsWanted,
         StoppingIsScoped, wiring, config, control, polls, locals, history
<1>21. CASE Verdict
  BY <1>21 DEF Verdict, LiveInv, LiveShape, LiveBatchIsWanted, StoppingIsScoped,
         wiring, config, control, polls, locals, history
<1>22. ASSUME NEW ok \in BOOLEAN, ResetSource(ok) PROVE LiveInv'
  BY <1>22 DEF ResetSource, LiveInv, LiveShape, LiveBatchIsWanted, StoppingIsScoped,
         wiring, config, control, polls, locals, history
<1>23. CASE NextIsolated
  <2>1. rest # <<>> => /\ Head(<<Head(rest)>>) = Head(rest)
                       /\ Tail(<<Head(rest)>>) = <<>>
    BY HeadTail, Singleton DEF Inv, TypeOK
  <2>2. CASE rest = <<>>
    BY <1>23, <2>2 DEF NextIsolated, LiveInv, LiveShape, LiveBatchIsWanted,
       StoppingIsScoped, config, control
  <2>3. CASE rest # <<>>
    <3>1. stage = "isolating"
      BY <1>23 DEF NextIsolated, Inv, Shape, StageShape
    <3>2. QED
      BY <1>23, <2>1, <2>3, <3>1 DEF NextIsolated, Unwanted, LiveInv, LiveShape,
         LiveBatchIsWanted, StoppingIsScoped, config, control
  <2>4. QED BY <2>2, <2>3
<1>24. CASE Reopen
  BY <1>24 DEF Reopen, LiveInv, LiveShape, LiveBatchIsWanted, StoppingIsScoped, Inv,
         Shape, StageShape, wiring, config, control, polls, locals, history
<1>25. CASE CleanUp
  BY <1>25, EmptyRange DEF CleanUp, LiveInv, LiveShape, LiveBatchIsWanted,
         StoppingIsScoped, StoppingAfterBatch, wiring, config, control, polls, locals,
         history
<1>26. QED
  BY <1>1, <1>2, <1>3, <1>4, <1>5, <1>6, <1>7, <1>8, <1>9, <1>10, <1>11, <1>12, <1>13,
     <1>14, <1>15, <1>16, <1>17, <1>18, <1>19, <1>20, <1>21, <1>22, <1>23, <1>24, <1>25
  DEF Worker, InvestigationReturns

\* Every step of the engine keeps the invariant behind LiveBatchIsWanted.
LEMMA StepLive == Inv /\ LiveInv /\ [Next]_vars => LiveInv'
<1>1. Inv /\ LiveInv /\ Next => LiveInv'
  BY OthersKeepLive, WorkerKeepsLive DEF Next
<1>2. LiveInv /\ UNCHANGED vars => LiveInv'
  BY DEF LiveInv, LiveShape, LiveBatchIsWanted, StoppingIsScoped, vars, wiring, config,
         control, polls, locals, history
<1>3. QED BY <1>1, <1>2

\* While the context of a batch is live, autopatch is on and nothing it carries
\* was handed to manual control: Cancel and SetConfig never miss a batch.
THEOREM LiveBatchWanted == Spec => []LiveBatchIsWanted
<1>1. LiveInv => LiveBatchIsWanted BY DEF LiveInv
<1>2. QED BY <1>1, ShapeHolds, InitLive, StepLive, PTL DEF Spec

\* StopAll's flag never leaks into the next batch.
THEOREM StoppingScoped == Spec => []StoppingIsScoped
<1>1. LiveInv => StoppingIsScoped BY DEF LiveInv
<1>2. QED BY <1>1, ShapeHolds, InitLive, StepLive, PTL DEF Spec
-----------------------------------------------------------------------------
(* No run is orphaned, and manual control means released *)

\* Taking the head off the queue loses only the head.
LEMMA QueueHead ==
  ASSUME Inv, queue # <<>>, queue' = Tail(queue), NEW p \in Range(queue)
  PROVE  p = Head(queue) \/ p \in Range(queue')
BY HeadTail DEF Inv, TypeOK

\* A worker step takes a problem in hand or leaves its run and its place in the
\* queue alone; it lets go of one only with an outcome.
LEMMA WorkerLetsGo ==
  ASSUME Inv, Worker, NEW p \in Problems, phase'[p] \in InFlight
  PROVE  \/ InHand(p)'
         \/ /\ ~InHand(p) /\ phase'[p] = phase[p]
            /\ p \in Range(queue) => p \in Range(queue')
<1> DEFINE Goal == \/ InHand(p)'
                   \/ /\ ~InHand(p) /\ phase'[p] = phase[p]
                      /\ p \in Range(queue) => p \in Range(queue')
<1>1. CASE Dequeue
  BY <1>1, QueueHead DEF Dequeue, InHand, Inv, Shape, LoopShape, StageShape, Outside,
         TypeOK, polls, locals
<1>2. CASE BeginBatch
  BY <1>2, EmptyRange DEF BeginBatch, InHand, Inv, Shape, StageShape, Outside, polls,
         locals
<1>3. CASE Refuse
  BY <1>3 DEF Refuse, InHand, Inv, SetPhase, InFlight, TypeOK, polls, locals
<1>4. CASE Register
  BY <1>4 DEF Register, InHand, polls, locals
<1>5. CASE Gate
  <2>1. Range(<<cur>>) = {cur} /\ Range(todo) = {}
    BY <1>5, AtHand, EmptyRange DEF Gate, Carrying, Inv, Shape, LoopShape, Looping
  <2>2. QED BY <1>5, <2>1 DEF Gate, InHand, polls, locals
<1>6. CASE BeginAttempt
  <2>1. Range(<<cur>>) = {cur} /\ Range(todo) = {}
    BY <1>6, AtHand, EmptyRange DEF BeginAttempt, Carrying, Inv, Shape, LoopShape, Looping
  <2>2. QED BY <1>6, <2>1 DEF BeginAttempt, InHand, polls, locals
<1>7. CASE Announce
  BY <1>7 DEF Announce, InHand, Inv, SetPhase, TypeOK, polls, locals
<1>8. CASE InvestigationCancelled
  <2>1. Range(<<cur>>) = {cur} /\ Range(todo) = {}
    BY <1>8, AtHand, EmptyRange DEF InvestigationCancelled, Carrying, Inv, Shape, LoopShape, Looping
  <2>2. QED BY <1>8, <2>1 DEF InvestigationCancelled, InHand, polls, locals
<1>9. ASSUME NEW ok \in BOOLEAN, ProposeOnly(ok) PROVE Goal
  <2>1. Range(<<cur>>) = {cur} /\ Range(todo) = {}
    BY <1>9, AtHand, EmptyRange DEF ProposeOnly, Carrying, Inv, Shape, LoopShape, Looping
  <2>2. QED BY <1>9, <2>1 DEF ProposeOnly, InHand, polls, locals
<1>10. CASE Applied
  <2>1. Range(<<cur>>) = {cur} /\ cur \in Problems /\ Range(todo) = {}
    BY <1>10, AtHand, EmptyRange DEF Applied, Carrying, Inv, Shape, LoopShape, Looping
  <2>2. Range(Append(batch, cur)) = Range(batch) \cup {cur}
    BY <2>1, AppendRange DEF Inv, TypeOK
  <2>3. CASE stage = "applying"
    BY <1>10, <2>1, <2>2, <2>3 DEF Applied, InHand
  <2>4. CASE stage # "applying"
    BY <1>10, <2>1, <2>4 DEF Applied, InHand
  <2>5. QED BY <2>3, <2>4
<1>11. CASE NotApplied
  <2>1. Range(<<cur>>) = {cur} /\ Range(todo) = {}
    BY <1>11, AtHand, EmptyRange DEF NotApplied, Carrying, Inv, Shape, LoopShape, Looping
  <2>2. QED BY <1>11, <2>1 DEF NotApplied, InHand, polls, locals
<1>12. CASE Settle
  BY <1>12, AdvanceFacts DEF Settle, InHand, Inv, Shape, BatchShape, TypeOK, SetPhase,
         InFlight, Terminal, polls, locals
<1>13. CASE MarkHalted
  BY <1>13, AdvanceFacts DEF MarkHalted, InHand, Inv, TypeOK, InFlight, polls, locals
<1>14. CASE WriteHalted
  BY <1>14, AdvanceFacts DEF WriteHalted, InHand, Inv, SetPhase, InFlight, TypeOK,
         polls, locals
<1>15. CASE CoalesceTake
  BY <1>15, QueueHead DEF CoalesceTake, InHand, Inv, Shape, LoopShape, StageShape,
         TypeOK, polls, locals
<1>16. CASE CoalesceEnd
  BY <1>16 DEF CoalesceEnd, InHand, polls, locals
<1>17. CASE Decide
  BY <1>17, EmptyRange DEF Decide, InHand, Inv, Shape, NothingToDo, LoopShape, Looping,
         BatchShape, Outside, StageShape, TypeOK, polls, locals
<1>18. CASE Promote
  BY <1>18, HeadTail, Singleton DEF Promote, InHand, Inv, Shape, SetPhase, LoopShape,
         Looping, StageShape, Subject, TypeOK, HandShape, Piping, Stages, polls, locals
<1>19. CASE Launch
  BY <1>19 DEF Launch, InHand, polls, locals
<1>20. ASSUME NEW success \in BOOLEAN, PipelineReturns(success) PROVE Goal
  BY <1>20 DEF PipelineReturns, InHand, polls, locals
<1>21. CASE Verdict
  <2>1. Range(todo) = {} /\ stage \in {"shipping", "isolating"}
    BY <1>21, EmptyRange DEF Verdict, Inv, TypeOK, Stages, Shape, LoopShape, Looping,
       StageShape, Piping
  <2>2. stage = "isolating" => Range(<<cur>>) = {cur}
    BY <1>21, AtHand DEF Verdict, Piping
  <2>3. CASE stage = "shipping"
    BY <1>21, <2>1, <2>3 DEF Verdict, Subject, InHand
  <2>4. CASE stage = "isolating"
    BY <1>21, <2>1, <2>2, <2>4 DEF Verdict, Subject, InHand, MustIsolate
  <2>5. QED BY <2>1, <2>3, <2>4
<1>22. ASSUME NEW ok \in BOOLEAN, ResetSource(ok) PROVE Goal
  BY <1>22 DEF ResetSource, InHand, Inv, Shape, LoopShape, Looping, StageShape, polls,
         locals
<1>23. CASE NextIsolated
  <2>1. Range(todo) = {} /\ stage = "isolating"
    BY <1>23, EmptyRange DEF NextIsolated, Inv, Shape, LoopShape, Looping, StageShape
  <2>2. CASE rest = <<>>
    BY <1>23, <2>1, <2>2, EmptyRange DEF NextIsolated, InHand
  <2>3. CASE rest # <<>>
    <3>1. Range(rest) = {Head(rest)} \cup Range(Tail(rest)) /\ Head(rest) \in Problems
      BY <2>3, HeadTail DEF Inv, TypeOK
    <3>2. Range(<<Head(rest)>>) = {Head(rest)}
      BY <3>1, Singleton
    <3>3. QED BY <1>23, <2>1, <2>3, <3>1, <3>2 DEF NextIsolated, InHand
  <2>4. QED BY <2>2, <2>3
<1>24. CASE Reopen
  BY <1>24 DEF Reopen, InHand, Inv, SetPhase, TypeOK, polls, locals
<1>25. CASE CleanUp
  BY <1>25, EmptyRange DEF CleanUp, InHand, Inv, Shape, LoopShape, Looping, StageShape,
         TypeOK, Stages, polls, locals
<1>26. QED
  BY <1>1, <1>2, <1>3, <1>4, <1>5, <1>6, <1>7, <1>8, <1>9, <1>10, <1>11, <1>12, <1>13,
     <1>14, <1>15, <1>16, <1>17, <1>18, <1>19, <1>20, <1>21, <1>22, <1>23, <1>24, <1>25
  DEF Worker, InvestigationReturns

\* The worker hands a problem to manual control only while it holds it.
LEMMA WorkerSkips ==
  ASSUME Inv, Worker, NEW p \in skip' \ skip
  PROVE  p \in Problems /\ InHand(p)
<1>1. MarkHalted
  BY DEF Worker, InvestigationReturns, Dequeue, BeginBatch, Refuse, Register, Gate,
         BeginAttempt, Announce, InvestigationCancelled, ProposeOnly, Applied, NotApplied,
         Settle, MarkHalted, WriteHalted, CoalesceTake, CoalesceEnd, Decide, Promote,
         Launch, PipelineReturns, Verdict, ResetSource, NextIsolated, Reopen, CleanUp
<1>2. p = Head(todo)
  BY <1>1 DEF MarkHalted, Skipped
<1>3. todo # <<>> /\ todo \in Seq(Problems)
  BY <1>1 DEF MarkHalted, Inv, TypeOK, Shape, LoopShape, Looping
<1>4. QED BY <1>2, <1>3, HeadTail DEF InHand

HeldInv == NoOrphanRun /\ ManualMeansReleased

\* Nothing is held, and nothing in flight, at the start.
LEMMA InitHeld == Init => HeldInv
BY DEF Init, HeldInv, NoOrphanRun, ManualMeansReleased, InFlight

\* The worker's half of the argument.
LEMMA WorkerKeepsHeld ==
  ASSUME Inv, HeldInv, Worker
  PROVE  HeldInv'
<1>1. UNCHANGED <<toEnqueue, dropped>>
  BY DEF Worker, InvestigationReturns, Dequeue, BeginBatch, Refuse, Register, Gate,
         BeginAttempt, Announce, InvestigationCancelled, ProposeOnly, Applied, NotApplied,
         Settle, MarkHalted, WriteHalted, CoalesceTake, CoalesceEnd, Decide, Promote,
         Launch, PipelineReturns, Verdict, ResetSource, NextIsolated, Reopen, CleanUp,
         polls, history
<1>2. NoOrphanRun'
  <2>1. SUFFICES ASSUME NEW p \in Problems, phase'[p] \in InFlight, ~InHand(p)'
                 PROVE  /\ phase'[p] = "queued"
                        /\ \/ p \in Range(queue') \cup dropped'
                           \/ \E t \in Pollers : p \in toEnqueue'[t]
    BY DEF NoOrphanRun
  <2>2. ~InHand(p) /\ phase'[p] = phase[p] /\ (p \in Range(queue) => p \in Range(queue'))
    BY <2>1, WorkerLetsGo
  <2>3. QED BY <1>1, <2>1, <2>2 DEF HeldInv, NoOrphanRun
<1>3. ManualMeansReleased'
  <2>1. SUFFICES ASSUME NEW p \in skip', phase'[p] \in InFlight, ~InHand(p)'
                 PROVE  FALSE
    BY DEF ManualMeansReleased
  <2>2. CASE p \notin Problems
    <3>1. p \in skip BY <2>2, WorkerSkips
    <3>2. QED BY <3>1, <2>2 DEF Inv, TypeOK
  <2>3. CASE p \in Problems
    <3>1. ~InHand(p) /\ phase'[p] = phase[p]
      BY <2>1, <2>3, WorkerLetsGo
    <3>2. p \in skip BY <3>1, WorkerSkips
    <3>3. QED BY <2>1, <3>1, <3>2 DEF HeldInv, ManualMeansReleased
  <2>4. QED BY <2>2, <2>3
<1>4. QED BY <1>2, <1>3 DEF HeldInv

\* Pollers and API calls leave the worker's hands alone; what they put in flight
\* is in a poller's hands, and what they take out of the queue is halted.
LEMMA OthersKeepHeld ==
  ASSUME Inv, HeldInv, Polling \/ API
  PROVE  HeldInv'
<1> USE DEF HeldInv, NoOrphanRun, ManualMeansReleased
<1>1. ASSUME NEW t \in Pollers, NEW listed \in SUBSET Problems,
             NEW climbed \in SUBSET listed, Poll(t, listed, climbed)
      PROVE  HeldInv'
  <2>1. \A p \in Problems : InHand(p)' <=> InHand(p)
    BY <1>1 DEF Poll, InHand, locals
  <2>2. Picks(listed, climbed) \cap skip = {} BY DEF Picks
  <2>3. /\ toEnqueue'[t] = Picks(listed, climbed) /\ toEnqueue[t] = {}
        /\ \A u \in Pollers \ {t} : toEnqueue'[u] = toEnqueue[u]
    BY <1>1 DEF Poll, Inv, TypeOK
  <2>4. \A p \in Problems : phase'[p] = IF p \in Picks(listed, climbed) THEN "queued"
                                                                        ELSE phase[p]
    BY <1>1 DEF Poll
  <2>5. queue' = queue /\ skip' = skip /\ dropped' = dropped \ Picks(listed, climbed)
    BY <1>1 DEF Poll
  <2>6. NoOrphanRun'
    BY <2>1, <2>3, <2>4, <2>5
  <2>7. ManualMeansReleased'
    BY <2>1, <2>2, <2>4, <2>5 DEF Inv, TypeOK
  <2>8. QED BY <2>6, <2>7
<1>2. ASSUME NEW t \in Pollers, NEW q \in Problems, Send(t, q) PROVE HeldInv'
  <2>1. \A p \in Problems : InHand(p)' <=> InHand(p)
    BY <1>2 DEF Send, InHand, locals
  <2>2. phase' = phase /\ skip' = skip
    BY <1>2 DEF Send
  <2>3. /\ Range(queue) \cup dropped \cup {q} \subseteq Range(queue') \cup dropped'
        /\ \A u \in Pollers : toEnqueue[u] \subseteq toEnqueue'[u] \cup {q}
    <3>1. Range(Append(queue, q)) = Range(queue) \cup {q}
      BY AppendRange DEF Inv, TypeOK
    <3>2. \A u \in Pollers : toEnqueue[u] \subseteq toEnqueue'[u] \cup {q}
      BY <1>2 DEF Send, Inv, TypeOK
    <3>3. QED BY <1>2, <3>1, <3>2 DEF Send
  <2>4. NoOrphanRun'
    BY <2>1, <2>2, <2>3
  <2>5. ManualMeansReleased'
    BY <2>1, <2>2 DEF Inv, TypeOK
  <2>6. QED BY <2>4, <2>5
<1>3. CASE KickFails
  BY <1>3 DEF KickFails, InHand, locals, history
<1>4. ASSUME NEW on \in BOOLEAN, NEW deploy \in DeployChoices, SetConfig(on, deploy)
      PROVE  HeldInv'
  <2>1. \A p \in Problems : InHand(p)' <=> InHand(p)
    BY <1>4 DEF SetConfig, InHand, locals
  <2>2. /\ \A p \in Problems : phase'[p] \in InFlight =>
              phase'[p] = phase[p] /\ (phase[p] = "queued" /\ p \in Range(queue)
                                        => p \in Range(queue'))
        /\ UNCHANGED <<skip, toEnqueue, dropped>>
    <3>1. CASE enabled /\ ~on
      BY <1>4, <3>1 DEF SetConfig, Drained, InFlight, history
    <3>2. CASE ~(enabled /\ ~on)
      BY <1>4, <3>2 DEF SetConfig, history
    <3>3. QED BY <3>1, <3>2
  <2>3. NoOrphanRun'
    BY <2>1, <2>2
  <2>4. ManualMeansReleased'
    BY <2>1, <2>2 DEF Inv, TypeOK
  <2>5. QED BY <2>3, <2>4
<1>5. ASSUME NEW q \in Problems, Cancel(q) PROVE HeldInv'
  <2>1. \A p \in Problems : InHand(p)' <=> InHand(p)
    BY <1>5 DEF Cancel, InHand, locals
  <2>2. /\ \A p \in Problems : phase'[p] \in InFlight => phase'[p] = phase[p] /\ p # q
        /\ UNCHANGED <<queue, toEnqueue, dropped>> /\ skip' = skip \cup {q}
    BY <1>5 DEF Cancel, InFlight, Inv, TypeOK, polls, history
  <2>3. NoOrphanRun'
    BY <2>1, <2>2
  <2>4. ManualMeansReleased'
    BY <2>1, <2>2 DEF Inv, TypeOK
  <2>5. QED BY <2>3, <2>4
<1>6. CASE StopAll
  <2>1. \A p \in Problems : phase'[p] \notin InFlight
    BY <1>6 DEF StopAll, InFlight
  <2>2. skip' = {} BY <1>6 DEF StopAll
  <2>3. QED BY <2>1, <2>2
<1>7. QED BY <1>1, <1>2, <1>3, <1>4, <1>5, <1>6 DEF Polling, API, PollStep

\* Every step of the engine keeps the invariant behind the two properties on runs.
LEMMA StepHeld == Inv /\ HeldInv /\ [Next]_vars => HeldInv'
<1>1. Inv /\ HeldInv /\ Next => HeldInv'
  BY OthersKeepHeld, WorkerKeepsHeld DEF Next
<1>2. HeldInv /\ UNCHANGED vars => HeldInv'
  BY DEF HeldInv, NoOrphanRun, ManualMeansReleased, InHand, vars, polls, locals, history
<1>3. QED BY <1>1, <1>2

\* A run shown in flight is always someone's: a queue entry, a poller's pick, the
\* worker's, or a send the full queue dropped.
THEOREM NoOrphans == Spec => []NoOrphanRun
<1>1. HeldInv => NoOrphanRun BY DEF HeldInv
<1>2. QED BY <1>1, ShapeHolds, InitHeld, StepHeld, PTL DEF Spec

\* A problem under manual control is in flight only while the worker still holds it.
THEOREM ManualReleased == Spec => []ManualMeansReleased
<1>1. HeldInv => ManualMeansReleased BY DEF HeldInv
<1>2. QED BY <1>1, ShapeHolds, InitHeld, StepHeld, PTL DEF Spec

-----------------------------------------------------------------------------
(* Deployed runs, while the deploy stage stays on *)

\* The verdict `deployed' is only ever taken to problems whose version is recorded.
ShipInv ==
  /\ deployStage
  /\ pc = "pipeline" => runDeploy
  /\ pc = "verdict" /\ verdict = "deployed" => Range(Subject) \subseteq shipped
  /\ pc = "reset" => verdict # "deployed"
  /\ pc = "settle" /\ verdict = "deployed" => Range(todo) \subseteq shipped
  /\ DeployedWasShipped

\* No run is deployed at the start.
LEMMA InitShip == Init => ShipInv
BY DEF Init, ShipInv, DeployedWasShipped

\* Neither the pollers nor the API calls show a run deployed.
LEMMA OthersKeepShip ==
  ASSUME DeployChoices \subseteq {TRUE}, Inv, ShipInv, Polling \/ API
  PROVE  ShipInv'
<1>1. ASSUME NEW t \in Pollers, NEW listed, NEW climbed, Poll(t, listed, climbed)
      PROVE  ShipInv'
  BY <1>1 DEF Poll, ShipInv, DeployedWasShipped, Subject, config, locals
<1>2. ASSUME NEW t \in Pollers, NEW p, Send(t, p) PROVE ShipInv'
  BY <1>2 DEF Send, ShipInv, DeployedWasShipped, Subject, config, locals
<1>3. CASE KickFails
  BY <1>3 DEF KickFails, ShipInv, DeployedWasShipped, Subject, config, locals, history
<1>4. ASSUME NEW on \in BOOLEAN, NEW deploy \in DeployChoices, SetConfig(on, deploy)
      PROVE  ShipInv'
  <2>1. deployStage'
    BY <1>4 DEF SetConfig
  <2>2. \A p \in Problems : phase'[p] = "deployed" => phase[p] = "deployed"
    BY <1>4 DEF SetConfig
  <2>3. QED BY <1>4, <2>1, <2>2 DEF SetConfig, ShipInv, DeployedWasShipped, Subject, locals, history
<1>5. ASSUME NEW p \in Problems, Cancel(p) PROVE ShipInv'
  <2>1. \A q \in Problems : phase'[q] = "deployed" => phase[q] = "deployed"
    BY <1>5 DEF Cancel, Inv, TypeOK
  <2>2. QED BY <1>5, <2>1 DEF Cancel, ShipInv, DeployedWasShipped, Subject, config, locals, history
<1>6. CASE StopAll
  BY <1>6 DEF StopAll, ShipInv, DeployedWasShipped, Subject, config, locals
<1>7. QED BY <1>1, <1>2, <1>3, <1>4, <1>5, <1>6 DEF Polling, API, PollStep

\* A step of the worker that shows no run deployed and brings no verdict near one.
LEMMA QuietKeepsShip ==
  ASSUME ShipInv, UNCHANGED <<deployStage, shipped>>,
         pc' \notin {"pipeline", "verdict", "reset"},
         pc' = "settle" => verdict' # "deployed",
         \A p \in Problems : phase'[p] = "deployed" => phase[p] = "deployed"
  PROVE  ShipInv'
BY DEF ShipInv, DeployedWasShipped

\* The worker shows a run deployed only after its version was recorded.
LEMMA WorkerKeepsShip ==
  ASSUME Inv, ShipInv, Worker
  PROVE  ShipInv'
<1> USE DEF config, history
<1>1. ASSUME NEW p, NEW ph, ph # "deployed", SetPhase(p, ph)
      PROVE  \A q \in Problems : phase'[q] = "deployed" => phase[q] = "deployed"
  BY <1>1 DEF SetPhase, Inv, TypeOK
<1>2. CASE Dequeue \/ BeginBatch \/ Register \/ Gate \/ BeginAttempt
  BY <1>2, QuietKeepsShip DEF Dequeue, BeginBatch, Register, Gate, BeginAttempt
<1>3. CASE Refuse \/ Announce \/ Reopen
  BY <1>1, <1>3, QuietKeepsShip DEF Refuse, Announce, Reopen
<1>4. CASE InvestigationCancelled \/ Applied
  BY <1>4, QuietKeepsShip DEF InvestigationCancelled, Applied
<1>5. ASSUME NEW ok \in BOOLEAN, ProposeOnly(ok) PROVE ShipInv'
  BY <1>5, QuietKeepsShip DEF ProposeOnly
<1>6. CASE NotApplied
  BY <1>6, QuietKeepsShip DEF NotApplied
<1>7. CASE Settle
  <2>1. /\ pc = "settle" /\ Advance("settle") /\ SetPhase(Head(todo), verdict)
        /\ UNCHANGED <<deployStage, shipped>>
        /\ verdict' = IF Tail(todo) = <<>> THEN "none" ELSE verdict
    BY <1>7 DEF Settle
  <2>2. /\ todo' = Tail(todo) /\ Head(todo) \in Problems
        /\ Range(todo) = {Head(todo)} \cup Range(todo')
        /\ \/ todo' # <<>> /\ pc' = "settle"
           \/ todo' = <<>> /\ pc' \in {"coalesce", "cleanup", "next"}
    BY <2>1, AdvanceFacts
  <2>3. \A q \in Problems : phase'[q] = "deployed" => q \in shipped
    <3>1. CASE verdict = "deployed"
      BY <2>1, <2>2, <3>1 DEF SetPhase, ShipInv, DeployedWasShipped, Inv, TypeOK
    <3>2. CASE verdict # "deployed"
      BY <1>1, <2>1, <3>2 DEF ShipInv, DeployedWasShipped
    <3>3. QED BY <3>1, <3>2
  <2>4. pc' = "settle" /\ verdict' = "deployed" => Range(todo') \subseteq shipped'
    BY <2>1, <2>2 DEF ShipInv
  <2>5. QED BY <2>1, <2>2, <2>3, <2>4 DEF ShipInv, DeployedWasShipped
<1>8. CASE MarkHalted
  <2>1. pc' \in {"halt", "haltWrite", "coalesce", "cleanup", "next"}
    BY <1>8, AdvanceFacts DEF MarkHalted
  <2>2. QED BY <1>8, <2>1, QuietKeepsShip DEF MarkHalted
<1>9. CASE WriteHalted
  <2>1. pc' \in {"halt", "coalesce", "cleanup", "next"}
    BY <1>9, AdvanceFacts DEF WriteHalted
  <2>2. QED BY <1>1, <1>9, <2>1, QuietKeepsShip DEF WriteHalted
<1>10. CASE CoalesceTake \/ CoalesceEnd \/ Decide
  BY <1>10, QuietKeepsShip DEF CoalesceTake, CoalesceEnd, Decide
<1>11. CASE Promote
  BY <1>1, <1>11, QuietKeepsShip DEF Promote
<1>12. CASE Launch
  BY <1>12 DEF Launch, ShipInv, DeployedWasShipped
<1>13. ASSUME NEW success \in BOOLEAN, PipelineReturns(success) PROVE ShipInv'
  <2>1. /\ pc' = "verdict" /\ UNCHANGED <<deployStage, phase, stage, cur, batch>>
        /\ verdict' = "deployed" => success
        /\ success => shipped' = shipped \cup Range(Subject)
        /\ shipped \subseteq shipped'
    BY <1>13 DEF PipelineReturns, Outcome, ShipInv
  <2>2. Subject' = Subject
    BY <2>1 DEF Subject
  <2>3. verdict' = "deployed" => Range(Subject') \subseteq shipped'
    BY <2>1, <2>2
  <2>4. QED BY <2>1, <2>3 DEF ShipInv, DeployedWasShipped
<1>14. CASE Verdict
  <2>1. CASE ctx = "done"
    BY <1>14, <2>1, QuietKeepsShip DEF Verdict
  <2>2. CASE ctx = "live" /\ MustIsolate
    BY <1>14, <2>2 DEF Verdict, MustIsolate, ShipInv, DeployedWasShipped
  <2>3. CASE ctx = "live" /\ ~MustIsolate
    BY <1>14, <2>3 DEF Verdict, ShipInv, DeployedWasShipped
  <2>4. QED BY <1>14, <2>1, <2>2, <2>3 DEF Verdict
<1>15. ASSUME NEW ok \in BOOLEAN, ResetSource(ok) PROVE ShipInv'
  BY <1>15, QuietKeepsShip DEF ResetSource, ShipInv
<1>16. CASE NextIsolated \/ CleanUp
  BY <1>16, QuietKeepsShip DEF NextIsolated, CleanUp
<1>17. QED
  BY <1>2, <1>3, <1>4, <1>5, <1>6, <1>7, <1>8, <1>9, <1>10, <1>11, <1>12, <1>13, <1>14, <1>15,
     <1>16 DEF Worker, InvestigationReturns

\* As long as the deploy stage cannot be turned off, a run shown deployed has a
\* recorded version.
THEOREM DeployedShipped ==
  ASSUME DeployChoices \subseteq {TRUE}
  PROVE  Spec => []DeployedWasShipped
<1>1. Inv /\ ShipInv /\ [Next]_vars => ShipInv'
  <2>1. Inv /\ ShipInv /\ Next => ShipInv'
    BY OthersKeepShip, WorkerKeepsShip DEF Next
  <2>2. ShipInv /\ UNCHANGED vars => ShipInv'
    BY DEF ShipInv, DeployedWasShipped, Subject, vars, config, locals, history
  <2>3. QED BY <2>1, <2>2
<1>2. ShipInv => DeployedWasShipped
  BY DEF ShipInv
<1>3. QED BY <1>1, <1>2, ShapeHolds, InitShip, PTL DEF Spec

-----------------------------------------------------------------------------
(* The engine implements AutoPatch *)

\* The isolated retries are retries of fixes of the batch.
Retrying == {"reopen", "attempt", "announce", "investigate"} \cup Piping

IsoInv == stage = "isolating" =>
            /\ Range(rest) \subseteq Range(batch)
            /\ pc \in Retrying => cur \in Range(batch)

\* Steps that neither enter a retry nor touch the lists of the batch keep it.
LEMMA QuietKeepsIso ==
  ASSUME IsoInv, UNCHANGED <<batch, rest>>,
         \/ stage' # "isolating"
         \/ UNCHANGED stage /\ (pc' \notin Retrying \/ (pc \in Retrying /\ UNCHANGED cur))
  PROVE  IsoInv'
BY DEF IsoInv

\* No retry is under way at the start, and each that is comes from the batch.
LEMMA IsoSteps == (Init => IsoInv) /\ (Inv /\ IsoInv /\ [Next]_vars => IsoInv')
<1>1. Init => IsoInv
  BY DEF Init, IsoInv
<1> SUFFICES ASSUME Inv, IsoInv, [Next]_vars PROVE IsoInv'
  BY <1>1
<1> USE DEF Retrying, Piping
<1>2. CASE Polling \/ API \/ UNCHANGED vars
  <2>1. UNCHANGED <<pc, cur, batch, rest, stage>>
    BY <1>2 DEF Polling, API, PollStep, Poll, Send, KickFails, SetConfig, Cancel, StopAll,
                vars, locals
  <2>2. QED BY <2>1 DEF IsoInv
<1>3. CASE Dequeue \/ Refuse \/ Register \/ Gate \/ CoalesceTake \/ CoalesceEnd
  <2>1. pc' \notin {"reopen", "announce", "investigate"} \cup Piping
        /\ UNCHANGED <<batch, rest, stage>>
    BY <1>3 DEF Dequeue, Refuse, Register, Gate, CoalesceTake, CoalesceEnd, locals
  <2>2. CASE pc' = "attempt"
    <3>1. pc = "gate"
      BY <1>3, <2>2 DEF Dequeue, Refuse, Register, Gate, CoalesceTake, CoalesceEnd
    <3>2. stage # "isolating"
      BY <3>1 DEF Inv, Shape, StageShape
    <3>3. QED BY <2>1, <3>2, QuietKeepsIso
  <2>3. CASE pc' # "attempt"
    BY <2>1, <2>3, QuietKeepsIso
  <2>4. QED BY <2>2, <2>3
<1>4. CASE BeginBatch
  BY <1>4 DEF BeginBatch, IsoInv, Inv, Shape, StageShape, Outside
<1>5. CASE BeginAttempt \/ Announce \/ Launch \/ Reopen \/ Promote
  BY <1>5, QuietKeepsIso DEF BeginAttempt, Announce, Launch, Reopen, Promote, locals
<1>6. CASE InvestigationCancelled \/ NotApplied \/ (\E ok \in BOOLEAN : ProposeOnly(ok))
  BY <1>6, QuietKeepsIso DEF InvestigationCancelled, NotApplied, ProposeOnly
<1>7. CASE Applied
  <2>1. CASE stage = "applying"
    BY <1>7, <2>1 DEF Applied, IsoInv
  <2>2. CASE stage # "applying"
    BY <1>7, <2>2, QuietKeepsIso DEF Applied
  <2>3. QED BY <2>1, <2>2
<1>8. CASE Settle \/ MarkHalted \/ WriteHalted
  <2>1. pc' \notin Retrying /\ UNCHANGED <<batch, rest, stage>>
    BY <1>8 DEF Settle, MarkHalted, WriteHalted, Advance, Onward, Inv, TypeOK, Stages
  <2>2. QED BY <2>1, QuietKeepsIso
<1>9. CASE Decide
  <2>1. stage' # "isolating" /\ UNCHANGED <<batch, rest>>
    BY <1>9 DEF Decide, Inv, Shape, StageShape
  <2>2. QED BY <2>1, QuietKeepsIso
<1>10. CASE (\E success \in BOOLEAN : PipelineReturns(success)) \/ Verdict
  BY <1>10, QuietKeepsIso DEF PipelineReturns, Verdict
<1>11. CASE \E ok \in BOOLEAN : ResetSource(ok)
  BY <1>11 DEF ResetSource, IsoInv
<1>12. CASE NextIsolated
  <2>1. UNCHANGED <<batch, stage>> /\ stage = "isolating"
    BY <1>12 DEF NextIsolated, Inv, Shape, StageShape
  <2>2. CASE rest = <<>>
    BY <1>12, <2>1, <2>2 DEF NextIsolated, IsoInv
  <2>3. CASE rest # <<>>
    <3>1. Range(rest) = {Head(rest)} \cup Range(Tail(rest))
      BY <2>3, HeadTail DEF Inv, TypeOK
    <3>2. QED BY <1>12, <2>1, <2>3, <3>1 DEF NextIsolated, IsoInv
  <2>4. QED BY <2>2, <2>3
<1>13. CASE CleanUp
  BY <1>13 DEF CleanUp, IsoInv
<1>14. QED
  BY <1>2, <1>3, <1>4, <1>5, <1>6, <1>7, <1>8, <1>9, <1>10, <1>11, <1>12, <1>13
     DEF Next, Worker, InvestigationReturns

Launched == {"promote", "launch", "pipeline"}

\* A step that touches no part of the promise is none of its steps.
LEMMA QuietStep ==
  ASSUME UNCHANGED <<enabled, skip, ctx, batch, shipped>>,
         \/ pc \notin Launched /\ pc' \notin Launched
         \/ pc \in Launched /\ pc' \in Launched /\ UNCHANGED <<stage, cur>>
  PROVE  UNCHANGED Engine!patchVars
<1>1. Range(batch)' = Range(batch)
  BY DEF Range
<1>2. Running' = Running
  BY <1>1 DEF Running, Subject, Launched, Range
<1>3. QED BY <1>1, <1>2 DEF Engine!patchVars

\* What pollers and API calls do is at most a change of hands, of the switch or
\* of the target.
LEMMA OthersImplement ==
  ASSUME Inv, LiveInv, Polling \/ API \/ UNCHANGED vars
  PROVE  [Engine!Next]_(Engine!patchVars)
<1>1. UNCHANGED <<pc, cur, batch, stage, shipped>>
  BY DEF Polling, API, PollStep, Poll, Send, KickFails, SetConfig, Cancel, StopAll, vars,
         locals, history
<1>2. Range(batch)' = Range(batch) /\ Running' = Running
  BY <1>1 DEF Running, Subject, Range
<1>3. CASE Polling \/ UNCHANGED vars
  <2>1. UNCHANGED <<enabled, skip, ctx>>
    BY <1>3 DEF Polling, PollStep, Poll, Send, KickFails, vars, config, control
  <2>2. QED BY <1>1, <1>2, <2>1 DEF Engine!patchVars
<1>4. ASSUME NEW on \in BOOLEAN, NEW deploy, SetConfig(on, deploy)
      PROVE  Engine!Switch(on)
  <2>1. ctx' = IF on THEN ctx ELSE Cancelled
    <3>1. ~enabled => ctx # "live"
      BY DEF LiveInv, LiveBatchIsWanted
    <3>2. QED BY <1>4, <3>1 DEF SetConfig, Cancelled, Inv, TypeOK
  <2>2. QED BY <1>1, <1>2, <1>4, <2>1 DEF SetConfig, Engine!Switch, Engine!Cancelled, Cancelled
<1>5. ASSUME NEW p \in Problems, Cancel(p) PROVE Engine!TakeOver(p)
  <2>1. p \in Range(batch) => ctx' = Cancelled
    <3>1. ctx = "nil" => Cancelled = ctx
      BY DEF Cancelled
    <3>2. ctx # "nil" => Range(batch) \subseteq activeIDs
      BY DEF LiveInv, LiveShape
    <3>3. QED BY <1>5, <3>1, <3>2 DEF Cancel, CtxAfterCancel
  <2>2. QED BY <1>1, <1>2, <1>5, <2>1 DEF Cancel, CtxAfterCancel, Engine!TakeOver, Engine!Cancelled,
                                        Cancelled, config
<1>6. CASE StopAll
  <2>1. ctx' = Cancelled /\ skip' = {}
    BY <1>6 DEF StopAll
  <2>2. enabled' = enabled
    BY <1>6 DEF StopAll, config
  <2>3. Engine!StopAll
    BY <1>1, <1>2, <2>1, <2>2 DEF Engine!StopAll, Engine!Cancelled, Cancelled
  <2>4. QED BY <2>3 DEF Engine!Next
<1>7. QED BY <1>3, <1>4, <1>5, <1>6 DEF API, Engine!Next

\* What the worker does is gather, start, return and end, or hand over what a
\* cancelled batch still held.
LEMMA WorkerImplements ==
  ASSUME Inv, LiveInv, IsoInv, Worker
  PROVE  [Engine!Next]_(Engine!patchVars)
<1> USE DEF Launched
<1>1. CASE Dequeue \/ Refuse \/ Register \/ Gate \/ BeginAttempt \/ Announce
  BY <1>1, QuietStep DEF Dequeue, Refuse, Register, Gate, BeginAttempt, Announce, config,
     control, locals, history
<1>2. CASE BeginBatch
  <2>1. CASE enabled
    <3>1. pc' \notin Launched /\ pc \notin Launched
      BY <1>2, <2>1 DEF BeginBatch
    <3>2. batch = <<>> /\ ctx = "nil"
      BY <1>2 DEF BeginBatch, Inv, Shape, StageShape, BatchShape, Outside
    <3>3. Range(batch)' = Range(batch) /\ Running' = Running
      BY <1>2, <2>1, <3>1, <3>2 DEF BeginBatch, Running, Range
    <3>4. Engine!Begin
      BY <1>2, <2>1, <3>2, <3>3 DEF BeginBatch, Engine!Begin, config, history
    <3>5. QED BY <3>4 DEF Engine!Next
  <2>2. CASE ~enabled
    BY <1>2, <2>2, QuietStep DEF BeginBatch, config, history
  <2>3. QED BY <2>1, <2>2
<1>3. CASE InvestigationCancelled \/ NotApplied \/ (\E ok \in BOOLEAN : ProposeOnly(ok))
  BY <1>3, QuietStep DEF InvestigationCancelled, NotApplied, ProposeOnly, config, control,
     history
<1>4. CASE Applied
  <2>1. cur \in Problems /\ ctx = "live" /\ pc \notin Launched
    BY <1>4, AtHand DEF Applied, Carrying
  <2>2. UNCHANGED <<enabled, skip, ctx, shipped>> /\ Running = {}
    BY <1>4, <2>1 DEF Applied, config, control, history, Running
  <2>3. CASE stage = "applying"
    <3>1. enabled /\ cur \notin skip
      BY <1>4, <2>1, <2>3 DEF Applied, LiveInv, LiveShape, LiveBatchIsWanted
    <3>2. batch' = Append(batch, cur) /\ pc' \notin Launched
      BY <1>4, <2>3 DEF Applied
    <3>3. Range(batch') = Range(batch) \cup {cur}
      BY <2>1, <3>2, AppendRange DEF Inv, TypeOK
    <3>4. Running' = {} /\ Range(batch)' = Range(batch')
      BY <3>2 DEF Running, Range
    <3>5. Engine!Join(cur)
      BY <2>1, <2>2, <3>1, <3>3, <3>4 DEF Engine!Join
    <3>6. QED BY <2>1, <3>5 DEF Engine!Next
  <2>4. CASE stage # "applying"
    <3>1. stage = "isolating"
      BY <1>4, <2>4 DEF Applied, Inv, TypeOK, Stages, Shape, StageShape
    <3>2. UNCHANGED <<stage, cur, batch>> /\ pc' = "promote"
      BY <1>4, <2>4 DEF Applied
    <3>3. cur \in Range(batch)
      BY <1>4, <3>1 DEF Applied, IsoInv, Retrying
    <3>4. Range(<<cur>>) = {cur}
      BY <2>1, Singleton
    <3>5. Running' = {cur} /\ Range(batch)' = Range(batch)
      BY <3>1, <3>2, <3>4 DEF Running, Subject, Range
    <3>6. Engine!Start({cur})
      BY <2>1, <2>2, <3>3, <3>5 DEF Engine!Start
    <3>7. QED BY <3>3, <3>6 DEF Engine!Next
  <2>5. QED BY <2>3, <2>4
<1>5. CASE Settle \/ WriteHalted
  BY <1>5, QuietStep DEF Settle, WriteHalted, Advance, Onward, Inv, TypeOK, Stages, config,
     control, history
<1>6. CASE MarkHalted
  <2>1. pc \notin Launched /\ pc' \notin Launched
        /\ UNCHANGED <<enabled, ctx, batch, shipped>>
    BY <1>6 DEF MarkHalted, Advance, Onward, Inv, TypeOK, Stages, config, control, history
  <2>2. Head(todo) \in Problems
    BY <1>6, HeadTail DEF MarkHalted, Inv, TypeOK, Shape, LoopShape, Looping
  <2>3. CASE skip' = skip
    BY <2>1, <2>3, QuietStep
  <2>4. CASE skip' # skip
    <3>1. skip' = skip \cup {Head(todo)} /\ Head(todo) \notin skip
      BY <1>6, <2>4 DEF MarkHalted, Skipped
    <3>2. ctx = "done"
      <4>1. ctx # "nil"
        BY <1>6 DEF MarkHalted, Inv, Shape, BatchShape, Outside
      <4>2. ctx # "live"
        BY <1>6, <3>1 DEF MarkHalted, LiveInv, LiveShape
      <4>3. QED BY <4>1, <4>2 DEF Inv, TypeOK
    <3>3. Running' = Running /\ Range(batch)' = Range(batch)
      BY <2>1 DEF Running, Range
    <3>4. Engine!GiveUp(Head(todo))
      BY <2>1, <3>1, <3>2, <3>3 DEF Engine!GiveUp
    <3>5. QED BY <2>2, <3>4 DEF Engine!Next
  <2>5. QED BY <2>3, <2>4
<1>7. CASE CoalesceTake \/ CoalesceEnd
  BY <1>7, QuietStep DEF CoalesceTake, CoalesceEnd, config, control, locals, history
<1>8. CASE Decide
  <2>1. CASE pc' = "promote"
    <3>1. ~NothingToDo /\ ctx # "done" /\ stage' = "shipping" /\ UNCHANGED batch
          /\ pc = "decide"
      BY <1>8, <2>1 DEF Decide
    <3>2. ctx = "live" /\ batch # <<>>
      BY <3>1 DEF NothingToDo, Inv, TypeOK, Shape, BatchShape, Outside
    <3>3. Range(batch) # {}
      <4>1. batch \in Seq(Problems) BY DEF Inv, TypeOK
      <4>2. QED BY <3>2, <4>1, NonEmptyRange
    <3>4. Running' = Range(batch) /\ Range(batch)' = Range(batch) /\ Running = {}
      BY <2>1, <3>1 DEF Running, Subject, Range
    <3>5. Engine!Start(Range(batch))
      BY <1>8, <3>2, <3>3, <3>4 DEF Engine!Start, Decide, config, control, history
    <3>6. QED BY <3>5 DEF Engine!Next
  <2>2. CASE pc' # "promote"
    BY <1>8, <2>2, QuietStep DEF Decide, config, control, history
  <2>3. QED BY <2>1, <2>2
<1>9. CASE Promote \/ Launch
  BY <1>9, QuietStep DEF Promote, Launch, config, control, history
<1>10. ASSUME NEW success \in BOOLEAN, PipelineReturns(success)
       PROVE  Engine!Return(success /\ runDeploy)
  <2>1. Running = Range(Subject) /\ Running' = {}
    BY <1>10 DEF PipelineReturns, Running
  <2>2. Range(batch)' = Range(batch)
    BY <1>10 DEF PipelineReturns, Range
  <2>3. Range(Subject) # {}
    <3>1. CASE stage = "isolating"
      BY <1>10, <3>1, AtHand DEF PipelineReturns, Piping, Subject
    <3>2. CASE stage # "isolating"
      <4>1. Subject = batch /\ batch # <<>>
        BY <1>10, <3>2 DEF PipelineReturns, Subject, Inv, Shape, StageShape, Piping
      <4>2. batch \in Seq(Problems) BY DEF Inv, TypeOK
      <4>3. QED BY <4>1, <4>2, NonEmptyRange
    <3>3. QED BY <3>1, <3>2
  <2>4. QED BY <1>10, <2>1, <2>2, <2>3 DEF PipelineReturns, Engine!Return, config, control
<1>11. CASE Verdict \/ (\E ok \in BOOLEAN : ResetSource(ok)) \/ NextIsolated \/ Reopen
  BY <1>11, QuietStep DEF Verdict, ResetSource, NextIsolated, Reopen, config, control, locals,
     history
<1>12. CASE CleanUp
  <2>1. ctx # "nil" /\ Running = {} /\ Running' = {}
    BY <1>12 DEF CleanUp, Running, Inv, Shape, BatchShape, Outside
  <2>2. Range(batch)' = {}
    BY <1>12 DEF CleanUp, Range
  <2>3. Engine!End
    BY <1>12, <2>1, <2>2 DEF CleanUp, Engine!End, config, history
  <2>4. QED BY <2>3 DEF Engine!Next
<1>13. ASSUME NEW success \in BOOLEAN, PipelineReturns(success)
       PROVE  Engine!Next
  <2>1. (success /\ runDeploy) \in BOOLEAN
    BY DEF Inv, TypeOK
  <2>2. QED BY <1>10, <1>13, <2>1 DEF Engine!Next
<1>14. QED
  BY <1>1, <1>2, <1>3, <1>4, <1>5, <1>6, <1>7, <1>8, <1>9, <1>11, <1>12, <1>13
     DEF Worker, InvestigationReturns

\* Every invariant the refinement rests on, together.
LEMMA EngineInvariance == Spec => [](Inv /\ LiveInv /\ IsoInv)
BY ShapeHolds, InitLive, StepLive, IsoSteps, PTL DEF Spec

\* Every interleaving of the engine's lock sections is a behaviour of AutoPatch.
THEOREM AutopilotImplementsAutoPatch == Spec => ImplementsAutoPatch
<1>1. Init => Engine!Init
  BY EmptyRange DEF Init, Engine!Init, Running
<1>2. Inv /\ LiveInv /\ IsoInv /\ [Next]_vars => [Engine!Next]_(Engine!patchVars)
  BY OthersImplement, WorkerImplements DEF Next
<1>3. QED
  BY <1>1, <1>2, EngineInvariance, PTL DEF Spec, ImplementsAutoPatch, Engine!Spec

-----------------------------------------------------------------------------
(* What StopAll halts, and when it stays halted *)

\* Picks that wait for their send, and the problem the worker has taken from the queue
\* and not yet checked: StopAll reaches neither.
Unsent   == UNION {toEnqueue[t] : t \in Pollers}
OnTheWay == Unsent \cup IF pc = "start" THEN {cur} ELSE {}

\* What the worker carries through the batch in progress.
InBatch == {cur} \cup Range(batch) \cup Range(rest)

\* What StopAll halted, and no poll has picked since, is nowhere a live batch gets it.
SweptAside ==
  /\ swept \cap Range(queue) = {}
  /\ swept \cap OnTheWay = {}
  /\ ctx = "live" => swept \cap InBatch = {}

\* A step that brings nothing swept nearer to a batch.
LEMMA QuietKeepsAside ==
  ASSUME Inv, SweptAside, swept' \subseteq swept,
         Range(queue') \subseteq Range(queue) \cup (Problems \ swept'),
         \A t \in Pollers : toEnqueue'[t] \subseteq toEnqueue[t] \cup (Problems \ swept'),
         pc' = "start" => pc = "start" /\ cur' = cur,
         ctx' = "live" => ctx = "live" /\ InBatch' \subseteq InBatch \cup {NoProblem} \cup Range(queue)
  PROVE  SweptAside'
<1>1. NoProblem \notin swept
  BY AutopilotAssumption DEF Inv, TypeOK
<1>2. swept' \cap Range(queue)' = {}
  BY DEF SweptAside, Range
<1>3. swept' \cap OnTheWay' = {}
  BY DEF SweptAside, OnTheWay, Unsent
<1>4. ctx' = "live" => swept' \cap InBatch' = {}
  BY <1>1 DEF SweptAside
<1>5. QED BY <1>2, <1>3, <1>4 DEF SweptAside, Range

\* Polls and calls, as long as StopAll finds nothing on the way.
LEMMA OthersKeepAside ==
  ASSUME Inv, SweptAside, Polling \/ API, StopAll => OnTheWay = {}
  PROVE  SweptAside'
<1>1. ASSUME NEW t \in Pollers, NEW listed \in SUBSET Problems,
             NEW climbed \in SUBSET listed, Poll(t, listed, climbed)
      PROVE  SweptAside'
  <2>1. Picks(listed, climbed) \subseteq Problems
    BY DEF Picks
  <2>2. /\ swept' = swept \ Picks(listed, climbed)
        /\ \A u \in Pollers : toEnqueue'[u] \subseteq toEnqueue[u] \cup Picks(listed, climbed)
        /\ UNCHANGED <<queue, pc, cur, batch, rest, ctx>>
    BY <1>1 DEF Poll, Inv, TypeOK, control, locals
  <2>3. QED BY <2>1, <2>2, QuietKeepsAside DEF InBatch
<1>2. ASSUME NEW t \in Pollers, NEW p \in Problems, Send(t, p) PROVE SweptAside'
  <2>1. p \in OnTheWay
    BY <1>2 DEF Send, OnTheWay, Unsent
  <2>2. queue \in Seq(Problems)
    BY DEF Inv, TypeOK
  <2>3. Range(Append(queue, p)) = Range(queue) \cup {p}
    BY <2>2, AppendRange
  <2>4. Range(queue') \subseteq Range(queue) \cup {p}
    BY <1>2, <2>3 DEF Send
  <2>5. /\ UNCHANGED <<swept, pc, cur, batch, rest, ctx>>
        /\ \A u \in Pollers : toEnqueue'[u] \subseteq toEnqueue[u]
    BY <1>2 DEF Send, Inv, TypeOK, control, locals
  <2>6. QED BY <2>1, <2>4, <2>5, QuietKeepsAside DEF InBatch, SweptAside
<1>3. CASE KickFails
  BY <1>3, QuietKeepsAside DEF KickFails, control, locals, history, InBatch
<1>4. ASSUME NEW on \in BOOLEAN, NEW deploy \in DeployChoices, SetConfig(on, deploy)
      PROVE  SweptAside'
  <2>1. queue' = queue \/ queue' = <<>>
    BY <1>4 DEF SetConfig
  <2>2. Range(queue') \subseteq Range(queue)
    BY <2>1, EmptyRange
  <2>3. ctx' = "live" => ctx = "live"
    BY <1>4 DEF SetConfig, Cancelled
  <2>4. QED BY <1>4, <2>2, <2>3, QuietKeepsAside DEF SetConfig, locals, history, InBatch
<1>5. ASSUME NEW p \in Problems, Cancel(p) PROVE SweptAside'
  <2>1. ctx' = "live" => ctx = "live"
    BY <1>5 DEF Cancel, CtxAfterCancel, Cancelled
  <2>2. QED BY <1>5, <2>1, QuietKeepsAside DEF Cancel, polls, locals, history, InBatch
<1>6. CASE StopAll
  <2>1. Range(queue') = {}
    BY <1>6, EmptyRange DEF StopAll
  <2>2. ctx' # "live"
    BY <1>6 DEF StopAll, Cancelled
  <2>3. OnTheWay' = {}
    BY <1>6 DEF StopAll, OnTheWay, Unsent, polls, locals
  <2>4. QED BY <2>1, <2>2, <2>3 DEF SweptAside, Range
<1>7. QED BY <1>1, <1>2, <1>3, <1>4, <1>5, <1>6 DEF Polling, API, PollStep

\* The worker takes from the queue and from its own lists only.
LEMMA WorkerKeepsAside ==
  ASSUME Inv, SweptAside, Worker
  PROVE  SweptAside'
<1> USE DEF control, polls, history
<1>1. /\ queue \in Seq(Problems) /\ batch \in Seq(Problems) /\ rest \in Seq(Problems)
      /\ ctx = "nil" <=> pc \in Outside
  BY DEF Inv, TypeOK, Shape, BatchShape
<1>2. CASE Dequeue
  <2>1. /\ Range(queue') \subseteq Range(queue) /\ cur' \in Range(queue)
        /\ UNCHANGED <<swept, toEnqueue, ctx>> /\ ctx # "live"
    BY <1>1, <1>2, HeadTail DEF Dequeue, Outside
  <2>2. Unsent' = Unsent
    BY <2>1 DEF Unsent
  <2>3. swept' \cap OnTheWay' = {}
    BY <2>1, <2>2 DEF SweptAside, OnTheWay, Range
  <2>4. swept' \cap Range(queue)' = {}
    BY <2>1 DEF SweptAside, Range
  <2>5. QED BY <2>1, <2>3, <2>4 DEF SweptAside
<1>3. CASE BeginBatch
  <2>1. /\ pc = "start" /\ cur' = cur /\ rest' = rest /\ pc' # "start"
        /\ UNCHANGED <<swept, queue, toEnqueue>>
    BY <1>3 DEF BeginBatch
  <2>2. ctx' = "live" => batch' = <<>>
    BY <1>1, <1>3 DEF BeginBatch, Outside
  <2>3. rest = <<>>
    BY <2>1 DEF Inv, Shape, LoopShape, StageShape, Outside
  <2>4. ctx' = "live" => InBatch' = {cur}
    BY <2>1, <2>2, <2>3, EmptyRange DEF InBatch, Range
  <2>5. Unsent' = Unsent
    BY <2>1 DEF Unsent
  <2>6. OnTheWay' \subseteq OnTheWay /\ cur \in OnTheWay
    BY <2>1, <2>5 DEF OnTheWay
  <2>7. swept' \cap Range(queue)' = {}
    BY <2>1 DEF SweptAside, Range
  <2>8. QED BY <2>1, <2>4, <2>6, <2>7 DEF SweptAside
<1>4. CASE \/ Refuse \/ Register \/ Gate \/ BeginAttempt \/ Announce
           \/ InvestigationCancelled \/ NotApplied
  BY <1>4, QuietKeepsAside DEF Refuse, Register, Gate, BeginAttempt, Announce,
     InvestigationCancelled, NotApplied, InBatch, locals
<1>5. CASE \E ok \in BOOLEAN : ProposeOnly(ok)
  BY <1>5, QuietKeepsAside DEF ProposeOnly, InBatch
<1>6. CASE Applied
  <2>1. CASE stage = "applying"
    <3>1. cur \in Problems
      BY <1>6 DEF Applied, Inv, Shape, HandShape, Carrying
    <3>2. Range(Append(batch, cur)) = Range(batch) \cup {cur}
      BY <1>1, <3>1, AppendRange
    <3>3. InBatch' \subseteq InBatch \cup {NoProblem}
      BY <1>6, <2>1, <3>2 DEF Applied, InBatch, Range
    <3>4. QED BY <1>6, <2>1, <3>3, QuietKeepsAside DEF Applied
  <2>2. CASE stage # "applying"
    BY <1>6, <2>2, QuietKeepsAside DEF Applied, InBatch
  <2>3. QED BY <2>1, <2>2
<1>7. CASE Settle
  BY <1>7, AdvanceFacts, QuietKeepsAside DEF Settle, InBatch
<1>8. CASE MarkHalted
  <2>1. cur' \in {cur, NoProblem} /\ pc' # "start"
    BY <1>8, AdvanceFacts DEF MarkHalted
  <2>2. QED BY <1>8, <2>1, QuietKeepsAside DEF MarkHalted, InBatch
<1>9. CASE WriteHalted
  BY <1>9, AdvanceFacts, QuietKeepsAside DEF WriteHalted, InBatch
<1>10. CASE CoalesceTake
  <2>1. Range(queue') \subseteq Range(queue) /\ cur' \in Range(queue)
    BY <1>1, <1>10, HeadTail DEF CoalesceTake
  <2>2. QED BY <1>10, <2>1, QuietKeepsAside DEF CoalesceTake, InBatch
<1>11. CASE CoalesceEnd \/ Decide \/ Promote \/ Launch \/ Verdict \/ Reopen
  BY <1>11, QuietKeepsAside DEF CoalesceEnd, Decide, Promote, Launch, Verdict, Reopen, InBatch,
     locals
<1>12. CASE \E success \in BOOLEAN : PipelineReturns(success)
  BY <1>12, QuietKeepsAside DEF PipelineReturns, InBatch
<1>13. CASE \E ok \in BOOLEAN : ResetSource(ok)
  BY <1>13, QuietKeepsAside DEF ResetSource, InBatch
<1>14. CASE NextIsolated
  <2>1. CASE rest = <<>>
    BY <1>14, <2>1, QuietKeepsAside DEF NextIsolated, InBatch
  <2>2. CASE rest # <<>>
    <3>1. Range(rest) = {Head(rest)} \cup Range(Tail(rest))
      BY <1>1, <2>2, HeadTail
    <3>2. InBatch' \subseteq InBatch /\ pc' # "start"
      BY <1>14, <2>2, <3>1 DEF NextIsolated, InBatch, Range
    <3>3. QED BY <1>14, <3>2, QuietKeepsAside DEF NextIsolated
  <2>3. QED BY <2>1, <2>2
<1>15. CASE CleanUp
  BY <1>15, QuietKeepsAside DEF CleanUp
<1>16. QED
  BY <1>2, <1>3, <1>4, <1>5, <1>6, <1>7, <1>8, <1>9, <1>10, <1>11, <1>12, <1>13, <1>14, <1>15
     DEF Worker, InvestigationReturns

\* StopAll keeps the promise of its comment, to halt everything, unless it strikes while
\* a poller holds picks it has not sent, or the worker a problem whose batch it has not
\* begun: then no live pipeline carries what it halted, before a poll re-picks it.
THEOREM HaltedStayHalted ==
  Spec /\ [][StopAll => OnTheWay = {}]_vars => []HaltedStaysHalted
<1>1. Init => SweptAside
  BY DEF Init, SweptAside
<1>2. Inv /\ SweptAside /\ [Next]_vars /\ [StopAll => OnTheWay = {}]_vars => SweptAside'
  <2>1. Inv /\ SweptAside /\ Next /\ (StopAll => OnTheWay = {}) => SweptAside'
    BY OthersKeepAside, WorkerKeepsAside DEF Next
  <2>2. SweptAside /\ UNCHANGED vars => SweptAside'
    BY DEF SweptAside, OnTheWay, Unsent, InBatch, Range, vars, control, polls, locals, history
  <2>3. QED BY <2>1, <2>2
<1>3. SweptAside => HaltedStaysHalted
  <2>1. Range(Subject) \subseteq InBatch
    BY DEF Subject, InBatch, Range
  <2>2. QED BY <2>1 DEF SweptAside, HaltedStaysHalted
<1>4. QED BY <1>1, <1>2, <1>3, ShapeHolds, PTL DEF Spec
=============================================================================
