----------------------------- MODULE CoapMessage -----------------------------
(***************************************************************************)
(* CoAP messages of the Lobaro stack (coap_message.c/.h, coap_main.h): the *)
(* part of a CoAP_Message_t the protocol engine looks at, the 1 Hz clock   *)
(* arithmetic on its Timestamp, and the two counters messages draw from.   *)
(*                                                                         *)
(* A null pMsg pointer is the message whose type is "NULL".  Options and   *)
(* payload are abstracted to the one option the engine reads (Observe).    *)
(***************************************************************************)
EXTENDS Integers, Sequences

CONSTANTS
  Eps,        \* remote endpoints; one stands for a pair (ifID, NetEp_t)
  Resources,  \* the registered resources (CoAP_Res_t)
  NULL,       \* a null pointer to an endpoint, resource or observer
  MidMod,     \* message IDs are 0..MidMod-1 (uint16_t: 65536)
  MaxMid,     \* bound: no message ID above MaxMid is drawn (MidMod-1: none)
  RtcMod,     \* the 1 Hz clock counts 0..RtcMod-1 and wraps
  CntMod      \* UpdateCnt counts 0..CntMod-1 and wraps (uint32_t)

\* coap_main.h:25-34
CONSTANTS ACK_TIMEOUT, MAX_RETRANSMIT, POSTPONE_WAIT_TIME_SEK,
          POSTPONE_MAX_WAIT_TIME, CLIENT_MAX_RESP_WAIT_TIME,
          HOLDTIME_AFTER_NON_TRANSACTION_END

ASSUME MessageAssumption ==
  /\ NULL \notin Eps /\ NULL \notin Resources
  /\ MidMod \in Nat \ {0} /\ MaxMid \in 0..MidMod-1
  /\ RtcMod \in Nat \ {0} /\ CntMod \in Nat \ {0}
  /\ ACK_TIMEOUT \in Nat /\ MAX_RETRANSMIT \in Nat
  /\ POSTPONE_WAIT_TIME_SEK \in Nat /\ POSTPONE_MAX_WAIT_TIME \in Nat
  /\ CLIENT_MAX_RESP_WAIT_TIME \in Nat
  /\ HOLDTIME_AFTER_NON_TRANSACTION_END \in Nat

\* A postponed interaction sleeps (3 s in coap_main.h).
ASSUME PostponeAssumption == POSTPONE_WAIT_TIME_SEK # 0

\* The waiting times of CoAP_EnableAckTimeout are numbers (the provers know
\* nothing of powers).
ASSUME BackoffAssumption ==
  \A n \in 0..MAX_RETRANSMIT+1 : ACK_TIMEOUT ^ n \in Nat

Mid == 0..MidMod-1
Time == 0..RtcMod-1
MsgType == {"CON", "NON", "ACK", "RST"}
Method == {"GET", "POST", "PUT", "DELETE"}

\* The Observe option of a request: absent, 0, 1, or another value.
ObserveOpt == {"ABSENT", "REGISTER", "DEREGISTER", "BAD"}

\* Response codes, as far as the engine tells them apart: EMPTY, 2.05, and
\* 4.00 and above (a 2.xx other than 2.05 is not produced by any resource).
RespCode == {"EMPTY", "CONTENT", "ERROR"}

NoObserve == -1     \* a response without an Observe option
ObserveVal == Nat \cup {NoObserve}

ReqMsg == [type: {"CON", "NON"}, method: Method, mid: Mid, tok: Nat,
           obs: ObserveOpt, ts: Time]
NoReq == [type |-> "NULL", method |-> "GET", mid |-> 0, tok |-> 0,
          obs |-> "ABSENT", ts |-> 0]

RespMsg == [type: MsgType, code: RespCode, mid: Mid, tok: Nat,
            obs: ObserveVal, ts: Time]
NoResp == [type |-> "NULL", code |-> "EMPTY", mid |-> 0, tok |-> 0,
           obs |-> NoObserve, ts |-> 0]

(***************************************************************************)
(* CoAP_MsgIsOlderThan subtracts two uint32_t: when the clock has wrapped  *)
(* past the timestamp the difference is huge.                              *)
(***************************************************************************)
IsOlderThan(ts, t, timespan) == t < ts \/ t - ts > timespan

\* CoAP_GetNextMid: the counter is incremented, then returned.
GetNextMid(m) == (m + 1) % MidMod

\* CoAP_AllocRespMsg: type, message ID and token are matched to the request,
\* m is the counter's next value.
AllocRespMsg(req, code, m) ==
  [type |-> IF req.type = "CON" THEN "ACK" ELSE "NON",
   code |-> code,
   mid  |-> IF req.type = "CON" THEN req.mid ELSE m,
   tok  |-> req.tok, obs |-> NoObserve, ts |-> 0]

(***************************************************************************)
(* What goes out on the wire.  NoDatagram: the step sent nothing.          *)
(***************************************************************************)
Datagram == [to: Eps, type: MsgType, code: RespCode \cup Method, mid: Mid,
             tok: Nat, obs: ObserveVal]
NoDatagram == [to |-> NULL, type |-> "NULL", code |-> "EMPTY", mid |-> 0,
               tok |-> 0, obs |-> NoObserve]

RespDatagram(ep, r) == [to |-> ep, type |-> r.type, code |-> r.code,
                        mid |-> r.mid, tok |-> r.tok, obs |-> r.obs]
ReqDatagram(ep, q) == [to |-> ep, type |-> q.type, code |-> q.method,
                       mid |-> q.mid, tok |-> q.tok, obs |-> NoObserve]

\* CoAP_SendEmptyAck, CoAP_SendEmptyRST, CoAP_SendShortResp
ShortDatagram(ep, type, code, m, tok) ==
  [to |-> ep, type |-> type, code |-> code, mid |-> m, tok |-> tok,
   obs |-> NoObserve]
=============================================================================
