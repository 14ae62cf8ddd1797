------------------------------- MODULE MCServer -------------------------------
(***************************************************************************)
(* The server role alone: requests of both types, retransmitted requests,  *)
(* postponed resources, answers to messages of ours that arrive late or    *)
(* never.                                                                  *)
(***************************************************************************)
EXTENDS CoapMain, TLC

CONSTANTS e1, r1

MCSymmetry == Permutations(Slots)
MCMethods == [r \in Resources |-> {"GET"}]

MCPacket(type, kind, m) ==
  [ep |-> e1, type |-> type, kind |-> kind, mid |-> m, tok |-> 7,
   method |-> "GET", res |-> r1, obs |-> "ABSENT", crit |-> FALSE,
   code |-> "EMPTY"]

\* Message IDs of the peer are 5 and above, ours are 1..MaxMid.
MCPackets ==
  {MCPacket("CON", "REQUEST", 6), MCPacket("NON", "REQUEST", 7)}
  \cup {MCPacket(type, "EMPTY", m) : type \in {"ACK", "RST"}, m \in 1..MaxMid}
=============================================================================
