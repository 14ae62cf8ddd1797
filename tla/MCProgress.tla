------------------------------ MODULE MCProgress ------------------------------
(***************************************************************************)
(* Liveness, in two scenarios chosen at the start.  In "REQUESTS" a client *)
(* asks us and we ask a server.  In "UPDATES" the client has registered    *)
(* first, acknowledges some notifications (not confirmable ones: their     *)
(* acknowledgement is optional) and leaves others unanswered, while the    *)
(* resource changes for ever.                                              *)
(* Message IDs wrap (no bound on them), so nothing but the code limits how *)
(* long an interaction lives.                                              *)
(***************************************************************************)
EXTENDS CoapPaced, TLC

CONSTANTS e1, r1

VARIABLE scenario

MCMethods == [r \in Resources |-> {"GET"}]

MCPacket(type, kind, m, obs) ==
  [ep |-> e1, type |-> type, kind |-> kind, mid |-> m, tok |-> 7,
   method |-> "GET", res |-> r1, obs |-> obs, crit |-> FALSE,
   code |-> "EMPTY"]

MCPackets ==
  {MCPacket("CON", "REQUEST", 1, "ABSENT"), MCPacket("CON", "REQUEST", 1, "REGISTER"),
   MCPacket("ACK", "EMPTY", 0, "ABSENT")}

mcVars == <<pacedVars, scenario>>

Postponed(a) ==
  a.role = "SERVER" /\ (a.sleep # 0 \/ a.st = "RESOURCE_POSTPONE_EMPTY_ACK_SENT")

\* What belongs to one scenario only.
InScenario ==
  IF scenario = "REQUESTS"
  THEN /\ \A s \in Slots : ia'[s].role = "SERVER" => ia'[s].req.obs = "ABSENT"
       /\ updateCnt' = updateCnt
  ELSE /\ ownTok' = ownTok
       /\ \A s \in Slots : /\ ia'[s].role # "CLIENT"
                           /\ ia'[s].role = "SERVER" => ia'[s].req.obs = "REGISTER"
                           /\ ~Postponed(ia'[s])

MCNext == PacedNext /\ UNCHANGED scenario /\ InScenario

MCInit == PacedInit /\ scenario \in {"REQUESTS", "UPDATES"}

MCSpec ==
  /\ MCInit /\ [][MCNext]_mcVars
  /\ SF_mcVars(PacedTick /\ UNCHANGED scenario)
  /\ SF_mcVars(PacedWork /\ UNCHANGED scenario /\ InScenario)
  /\ WF_mcVars(StartNotifyInteractions /\ UNCHANGED <<calls, scenario>>)
=============================================================================
