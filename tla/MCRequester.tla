------------------------------ MODULE MCRequester ------------------------------
(***************************************************************************)
(* The client role beside a server request, with a socket that may refuse  *)
(* datagrams: responses piggybacked, separate (before or after the ACK,    *)
(* duplicated, late), foreign or reset, and every packet the dispatcher    *)
(* turns away.                                                             *)
(***************************************************************************)
EXTENDS CoapMain, TLC

CONSTANTS e1, r1

MCSymmetry == Permutations(Slots)
MCMethods == [r \in Resources |-> {"GET"}]

MCPacket(type, kind, m, tok) ==
  [ep |-> e1, type |-> type, kind |-> kind, mid |-> m, tok |-> tok,
   method |-> "GET", res |-> r1, obs |-> "ABSENT", crit |-> FALSE,
   code |-> IF kind = "RESPONSE" THEN "CONTENT" ELSE "EMPTY"]

\* Our requests have the tokens 251, 252 and the message IDs 1, 2.  Both get
\* ACKs and resets; the first gets piggybacked and separate responses.
Answers ==
  {MCPacket(type, "EMPTY", m, 0) : type \in {"ACK", "RST"}, m \in 1..MaxMid}
  \cup {MCPacket("ACK", "RESPONSE", 1, t) : t \in {251, 252}}
  \cup {MCPacket("CON", "RESPONSE", 7, 251), MCPacket("NON", "RESPONSE", 7, 9)}

\* A method the resource does not allow, and packets no interaction gets.
Rejected ==
  LET con == MCPacket("CON", "REQUEST", 6, 5)
      non == MCPacket("NON", "REQUEST", 6, 5)
  IN {[con EXCEPT !.method = "PUT"], MCPacket("CON", "EMPTY", 6, 0),
      MCPacket("ACK", "REQUEST", 6, 5), [non EXCEPT !.crit = TRUE],
      [con EXCEPT !.res = NULL], [non EXCEPT !.res = NULL],
      [con EXCEPT !.crit = TRUE],
      [MCPacket("CON", "RESPONSE", 6, 5) EXCEPT !.crit = TRUE]}

MCPackets == Answers \cup Rejected
=============================================================================
