------------------------------- MODULE CoapHash -------------------------------
(***************************************************************************)
(* The transaction id of the C++ client (Hash.cpp): a four byte state      *)
(* coap_key_t, updated by every byte of port, address and message id, and  *)
(* folded to 16 bits.                                                      *)
(***************************************************************************)
EXTENDS Integers, Sequences, SequencesExt, Bitwise

Byte == 0..255

\* One round of coap_hash; h[j - 1] is the old value, because j runs down.
coap_hash(h, s) ==
  [j \in 0..3 |->
     IF j = 0 THEN (h[0] * 128 + h[0] + s) % 256
              ELSE ((h[j] % 2) * 128 + h[j - 1] \div 2 + h[j]) % 256]

\* port, ip and mid are the bytes in memory.
createTransactionID(port, ip, mid) ==
  LET h == FoldLeft(coap_hash, [j \in 0..3 |-> 0], port \o ip \o mid) IN
  (h[0] ^^ h[2]) * 256 + (h[1] ^^ h[3])
=============================================================================
