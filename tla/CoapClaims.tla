------------------------------ MODULE CoapClaims ------------------------------
(***************************************************************************)
(* What a comment of the code says of the stack and the code does not      *)
(* keep: a run refutes it.                                                 *)
(***************************************************************************)
EXTENDS CoapPaced

\* "find corresponding (by mID) message send by us before" and "A received ACK
\* message acknowledges a former send CON message" (coap_interaction.c:246 and
\* 253): an ACK or RST for a confirmable message of ours in flight is applied
\* to the interaction that sent it.
AnswerFindsItsMessage ==
  \A s \in Linked :
    LET a == ia[s] IN
    InFlight(a) => list[First(ReliabilityTargets(a.ep, OwnMid(a)))] = s
=============================================================================
