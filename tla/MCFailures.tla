------------------------------ MODULE MCFailures ------------------------------
(***************************************************************************)
(* Everything that can fail does: the socket refuses datagrams, messages   *)
(* and blocks are not available, handlers postpone until it is too late,   *)
(* notifiers refuse or report errors.  One client registers two            *)
(* observations, again and again.  A null pointer may be dereferenced: the *)
(* device stops there, so deadlock is not an error in this run.            *)
(***************************************************************************)
EXTENDS CoapMain, TLC

CONSTANTS e1, r1

MCSymmetry == Permutations(Slots) \cup Permutations(ObsSlots)
MCMethods == [r \in Resources |-> {"GET"}]

MCRegistration(m, tok) ==
  [ep |-> e1, type |-> "CON", kind |-> "REQUEST", mid |-> m, tok |-> tok,
   method |-> "GET", res |-> r1, obs |-> "REGISTER", crit |-> FALSE,
   code |-> "EMPTY"]

MCPackets ==
  {MCRegistration(5, 7), MCRegistration(6, 8)}
=============================================================================
