------------------------------ MODULE MCClaims ------------------------------
(***************************************************************************)
(* The inputs of the run that refutes the claim of CoapClaims.             *)
(***************************************************************************)
EXTENDS CoapClaims, TLC

CONSTANTS e1, r1

MCSymmetry == Permutations(Slots) \cup Permutations(ObsSlots)
MCMethods == [r \in Resources |-> {"GET"}]

MCPacket(type, kind, m, obs) ==
  [ep |-> e1, type |-> type, kind |-> kind, mid |-> m, tok |-> 7,
   method |-> "GET", res |-> r1, obs |-> obs, crit |-> FALSE,
   code |-> "EMPTY"]

\* A peer that asks us with the message ID we use to ask it.
ClashPackets ==
  {MCPacket("CON", "REQUEST", 1, "ABSENT"), MCPacket("ACK", "EMPTY", 1, "ABSENT")}
=============================================================================
