------------------------------- MODULE MCDigest -------------------------------
(***************************************************************************)
(* Digest with the events of a behaviour capped: changes of the world and  *)
(* of the configuration, queries and posts that fail or fall short.        *)
(***************************************************************************)
EXTENDS Digest

CONSTANT MaxEvents

VARIABLE events

MCInit == Init /\ events = 0

Event ==
  \/ \E how \in {"failed", "perfFailed", "short"} : OtherConsumer(how) \/ List(how)
  \/ PollFails
  \/ PostFails
  \/ \E on \in BOOLEAN, url \in Webhooks \cup {None} : SetConfig(on, url)
  \/ \E now \in Lists : Change(now)

MCNext ==
  \/ events < MaxEvents /\ events' = events + 1 /\ Event
  \/ (\E how \in {"none", "ok"} : OtherConsumer(how)) /\ UNCHANGED events
  \/ (\E how \in {"none", "ok"} : List(how)) /\ UNCHANGED events
  \/ Sync /\ UNCHANGED events
  \/ Post /\ UNCHANGED events
  \/ TimePasses /\ UNCHANGED events

MCSpec == MCInit /\ [][MCNext]_<<vars, events>> /\ Fairness
=============================================================================
