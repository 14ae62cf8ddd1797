------------------------------- MODULE MCClient -------------------------------
(***************************************************************************)
(* The client of app/network.cpp: requests to 192.168.1.1:5683, each with  *)
(* the id createTransactionID really gives its message id.                 *)
(***************************************************************************)
EXTENDS CoapClient, CoapHash

MCServerPort == <<51, 22, 0, 0>>
MCServerIP == <<192, 168, 1, 1>>
MCId(m) == createTransactionID(MCServerPort, MCServerIP, <<m, 0>>)
MCTransactionID == 0 :> 9608 @@ 1 :> 41609 @@ 2 :> 9097

ASSUME IdsAreHashes == \A m \in Mids : MCTransactionID[m] = MCId(m)

\* 256 requests in a row never share an id.
ASSUME IdsDiffer ==
  Cardinality({MCId(m) : m \in Byte}) = Cardinality(Byte)
=============================================================================
