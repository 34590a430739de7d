---------------------------- MODULE MCCloudRunner ----------------------------
(***************************************************************************)
(* CloudRunner on small instances: at most MaxBuilds builds and MaxCalls   *)
(* calls, and MaxEvents halts, re-points and restarts in a behaviour.      *)
(***************************************************************************)
EXTENDS CloudRunner, TLC

CONSTANTS MaxBuilds, MaxCalls, MaxEvents

VARIABLES calls, events

MCInit == Init /\ calls = 0 /\ events = 0

Free    == UNCHANGED <<calls, events>>
Calling == calls < MaxCalls /\ calls' = calls + 1 /\ UNCHANGED events
Event   == events < MaxEvents /\ events' = events + 1 /\ UNCHANGED calls
Room    == Len(builds) < MaxBuilds

\* One fix to deploy or only to check; and, from a handler, a forced re-sync of
\* the source as it is.
Asks(c) == [fixes : {{p} : p \in Patches}, force : {FALSE}, deploy : BOOLEAN]
             \cup IF c \in Haltable THEN {}
                  ELSE {[fixes |-> {}, force |-> TRUE, deploy |-> TRUE]}

MCNext ==
  \/ (\E c \in Callers : \E asked \in Asks(c) : Begin(c, asked)) /\ Calling
  \/ (\E c \in Callers : Prepare(c)) /\ Free
  \/ (\E c \in Callers : GivesUp(c)) /\ Free
  \/ (\E c \in Callers, found \in BOOLEAN : Decide(c, found)) /\ Free
  \/ (\E c \in Callers : UploadOverlay(c)) /\ Free
  \/ (\E c \in Callers : UploadSource(c)) /\ Free
  \/ (\E c \in Callers : UploadTruncated(c)) /\ Free
  \/ (\E c \in Callers : MarkSynced(c)) /\ Free
  \/ (\E c \in Callers : Submit(c)) /\ Room /\ Free
  \/ (\E c \in Callers, accepted \in BOOLEAN : (accepted => Room) /\ Resubmit(c, accepted)) /\ Free
  \/ (\E c \in Callers, accepted \in BOOLEAN : (accepted => Room) /\ SubmitFails(c, accepted)) /\ Free
  \/ (\E c \in Callers : SetActiveBuild(c)) /\ Free
  \/ (\E c \in Callers : PollBuild(c)) /\ Free
  \/ (\E c \in Callers : LoseContact(c)) /\ Free
  \/ (\E c \in Callers : Return(c)) /\ Free
  \/ (\E c \in Callers : Halt(c)) /\ Event
  \/ CancelActive /\ Free
  \/ (\E landed \in BOOLEAN : CancelBuild(landed)) /\ Free
  \/ (\E dir \in Roots : SetSourceRoot(dir)) /\ Event
  \/ Restart /\ Event
  \/ (\E b \in DOMAIN builds : Fetch(b)) /\ Free
  \/ (\E b \in DOMAIN builds : ApplyPatch(b)) /\ Free
  \/ (\E b \in DOMAIN builds : Verify(b)) /\ Free
  \/ (\E b \in DOMAIN builds : Deploy(b)) /\ Free
  \/ (\E b \in DOMAIN builds : SaveBase(b)) /\ Free
  \/ (\E b \in DOMAIN builds : BuildFails(b)) /\ Free

MCSpec == MCInit /\ [][MCNext]_<<vars, calls, events>>

=============================================================================
