-------------------------------- MODULE MCFixes --------------------------------
(***************************************************************************)
(* Fixes with the number of requests, of proposals and of the events that  *)
(* belong to no request capped.                                            *)
(***************************************************************************)
EXTENDS Fixes

CONSTANTS MaxRequests, MaxProposals, MaxEvents

VARIABLES requests, proposals, events

bounds == <<requests, proposals, events>>

MCInit == Init /\ requests = 0 /\ proposals = 0 /\ events = 0

Event ==
  /\ events < MaxEvents /\ events' = events + 1
  /\ UNCHANGED <<requests, proposals>>

MCNext ==
  \/ /\ requests < MaxRequests /\ requests' = requests + 1
     /\ \E c \in Callers : Requests(c)
     /\ UNCHANGED <<proposals, events>>
  \/ (\E c \in Callers : Proceed(c)) /\ UNCHANGED bounds
  \/ /\ proposals < MaxProposals /\ proposals' = proposals + 1
     /\ \E c \in Callers, prop \in Proposal : Proposes(c, prop)
     /\ UNCHANGED <<requests, events>>
  \/ (\E c \in Callers : AppendStep(c)) /\ UNCHANGED bounds
  \/ (\E p \in Problems : Unstage(p) \/ RecordConfirmed(p)) /\ Event
  \/ ClearStaged /\ Event
  \/ ChangeTarget /\ Event
  \/ ClearLatest /\ Event
  \/ (\E clear \in BOOLEAN : Restart(clear)) /\ Event

MCSpec == MCInit /\ [][MCNext]_<<vars, bounds>> /\ Fairness

=============================================================================
