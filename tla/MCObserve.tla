------------------------------ MODULE MCObserve ------------------------------
(***************************************************************************)
(* Two scenarios of observation, chosen at the start.  In "NOTIFY" two     *)
(* clients observe a resource that changes again and again while earlier   *)
(* notifications are unsent, in flight, acknowledged, reset or out of      *)
(* attempts.  In "REGISTER" one client registers, registers again, cancels *)
(* and resets observations of a changing resource, from the start of the   *)
(* program; there the clock is bounded.                                    *)
(***************************************************************************)
EXTENDS CoapMain, TLC

CONSTANTS e1, e2, r1, o1, o2, o3

VARIABLE scenario

MCSymmetry == Permutations(Slots)
MCMethods == [r \in Resources |-> {"GET"}]

MCPacket(ep, type, kind, m, tok, obs) ==
  [ep |-> ep, type |-> type, kind |-> kind, mid |-> m, tok |-> tok,
   method |-> "GET", res |-> r1, obs |-> obs, crit |-> FALSE,
   code |-> "EMPTY"]

\* Message IDs of the peer are 5 and above, ours are 1..MaxMid.
Registrations ==
  {MCPacket(e1, "CON", "REQUEST", 5, 7, "REGISTER"),
   MCPacket(e1, "CON", "REQUEST", 6, 8, "REGISTER"),
   MCPacket(e1, "CON", "REQUEST", 7, 7, "DEREGISTER")}
Answers ==
  {MCPacket(ep, type, "EMPTY", m, 0, "ABSENT") :
     ep \in Eps, type \in {"ACK", "RST"}, m \in 1..MaxMid}
MCPackets == Registrations \cup Answers

BothObserve ==
  [r \in Resources |-> <<[id |-> o1, ep |-> e1, tok |-> 7],
                         [id |-> o2, ep |-> e2, tok |-> 8]>>]

NotifyInit ==
  /\ scenario = "NOTIFY" /\ observers = BothObserve
  /\ now = 0 /\ mid = 0 /\ list = <<>>
  /\ ia = [s \in Slots |-> NewInteraction]
  /\ updateCnt = [r \in Resources |-> 0]
  /\ notifying = NoNotify /\ ownTok = TokenStart /\ tx = NoDatagram
  /\ lost = FALSE /\ fault = FALSE

RegisterInit == scenario = "REGISTER" /\ Init

\* The bounds of the scenarios: in "NOTIFY" no request arrives, in "REGISTER"
\* one second passes.
MCNext ==
  /\ Next /\ UNCHANGED scenario
  /\ IF scenario = "NOTIFY" THEN \A s \in Slots : ia'[s].role # "SERVER"
     ELSE now' <= 1

MCSpec == (NotifyInit \/ RegisterInit) /\ [][MCNext]_<<vars, scenario>>
=============================================================================
