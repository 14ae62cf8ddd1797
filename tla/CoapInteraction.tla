--------------------------- MODULE CoapInteraction ---------------------------
(***************************************************************************)
(* The interactions of the Lobaro stack (coap_interaction.c/.h): the pool  *)
(* of CoAP_Interaction_t blocks, the linked list CoAP.pInteractions, and   *)
(* the transmission helpers of coap_main.c every role shares.              *)
(*                                                                         *)
(* An interaction is a slot of the pool.  A slot that is not in the list   *)
(* and not free is memory no pointer leads to any more.                    *)
(***************************************************************************)
EXTENDS CoapMessage, SequencesExt

CONSTANTS
  Slots,        \* how many interactions the memory pool has room for
  ObsSlots,     \* how many observers it has room for
  SendMayFail,  \* the socket may refuse a datagram
  MemMayFail    \* the allocation of a message may fail

VARIABLES
  now,        \* hal_rtc_1Hz_Cnt()
  mid,        \* the counter in CoAP_GetNextMid
  list,       \* CoAP.pInteractions, first element first
  ia,         \* the interaction in each slot
  observers,  \* pListObservers of each resource
  updateCnt,  \* UpdateCnt of each resource
  notifying,  \* the StartNotifyInteractions loop that is running, if any
  ownTok,     \* the counter in CoAP_GenerateToken
  tx,         \* the datagram the last step gave to the socket
  lost,       \* some message is still allocated and no pointer leads to it
  fault       \* a null pointer has been dereferenced

vars == <<now, mid, list, ia, observers, updateCnt, notifying, ownTok, tx,
          lost, fault>>

ASSUME InteractionAssumption ==
  /\ NULL \notin ObsSlots
  /\ SendMayFail \in BOOLEAN /\ MemMayFail \in BOOLEAN

Role == {"FREE", "SERVER", "NOTIFICATION", "CLIENT"}
State == {"NOT_SET", "HANDLE_REQUEST", "RESOURCE_POSTPONE_EMPTY_ACK_SENT",
          "RESPONSE_SENT", "READY_TO_NOTIFY", "NOTIFICATION_SENT",
          "READY_TO_REQUEST", "WAITING_RESPONSE", "HANDLE_RESPONSE"}
Reliability == {"NOT_SET", "ACK_SET", "RST_SET"}

Interaction ==
  [role: Role, st: State, ep: Eps \cup {NULL}, res: Resources \cup {NULL},
   observer: ObsSlots \cup {NULL}, upd: BOOLEAN, retrans: Nat, ackTo: Nat,
   sleep: Nat, req: ReqMsg \cup {NoReq}, reqRel: Reliability,
   resp: RespMsg \cup {NoResp}, respRel: Reliability]

\* CoAP_AllocNewInteraction zeroes the block; a free slot has this value too.
NewInteraction ==
  [role |-> "FREE", st |-> "NOT_SET", ep |-> NULL, res |-> NULL,
   observer |-> NULL, upd |-> FALSE, retrans |-> 0, ackTo |-> 0, sleep |-> 0,
   req |-> NoReq, reqRel |-> "NOT_SET", resp |-> NoResp,
   respRel |-> "NOT_SET"]

Observer == [id: ObsSlots, ep: Eps, tok: Nat]

\* The notify loop: the resource, and the position of pObserver in its list.
NoNotify == [res |-> NULL, pos |-> 0]

FreeSlots == {s \in Slots : ia[s].role = "FREE"}
Linked == {list[i] : i \in 1..Len(list)}

(***************************************************************************)
(* The list.                                                               *)
(***************************************************************************)
Unlink(q, s) == RemoveFirst(q, s)
MoveToListEnd(q, s) == Append(Unlink(q, s), s)

\* CoAP_DeleteInteraction on the heap: the block and its messages are freed.
Freed(heap, s) == [heap EXCEPT ![s] = NewInteraction]

\* The positions of the interactions a search loop would stop at; it stops
\* at the first one.
Matching(Test(_)) == {i \in 1..Len(list) : Test(ia[list[i]])}
First(S) == CHOOSE i \in S : \A j \in S : i <= j

(***************************************************************************)
(* CoAP_EnableAckTimeout: waitTime = ACK_TIMEOUT, multiplied by            *)
(* ACK_TIMEOUT once for every retry so far.                                *)
(***************************************************************************)
\* Variant: the backoff loop starts one round too late.
AckDeadlineOneShort(retryNum) == now + ACK_TIMEOUT ^ retryNum

AckDeadline(retryNum) == now + ACK_TIMEOUT ^ (retryNum + 1)

\* Variant of CheckRespStatus: the timer is looked at before the ACK.
CheckRespTimerFirst(a) ==
  IF a.respRel = "RST_SET" THEN "REMOTE_RST"
  ELSE IF a.resp.type \in {"NON", "ACK"}
    THEN IF IsOlderThan(a.resp.ts, now, HOLDTIME_AFTER_NON_TRANSACTION_END)
           THEN "OK" ELSE "HOLDING_BACK"
  ELSE IF now > a.ackTo /\ a.retrans + 1 <= MAX_RETRANSMIT THEN "RETRY"
  ELSE IF a.respRel = "ACK_SET" THEN "OK"
  ELSE IF now > a.ackTo THEN "OUT_OF_ATTEMPTS" ELSE "WAITING"

\* CheckRespStatus of coap_main.c, the test order included.
CheckRespStatus(a) ==
  IF a.respRel = "RST_SET" THEN "REMOTE_RST"
  ELSE IF a.resp.type \in {"NON", "ACK"}
    THEN IF IsOlderThan(a.resp.ts, now, HOLDTIME_AFTER_NON_TRANSACTION_END)
           THEN "OK" ELSE "HOLDING_BACK"
  ELSE IF a.respRel = "ACK_SET" THEN "OK"
  ELSE IF ~(now > a.ackTo) THEN "WAITING"
  ELSE IF a.retrans + 1 > MAX_RETRANSMIT THEN "OUT_OF_ATTEMPTS" ELSE "RETRY"

\* Variant of CheckReqStatus: the timer is looked at before the ACK.
CheckReqTimerFirst(a) ==
  IF a.reqRel = "RST_SET" THEN "REMOTE_RST"
  ELSE IF now > a.ackTo
    THEN IF a.retrans + 1 > MAX_RETRANSMIT THEN "OUT_OF_ATTEMPTS" ELSE "RETRY"
  ELSE "WAITING"

\* Variant of CheckReqStatus: an acknowledged request waits without a limit.
CheckReqWithoutLimit(a) ==
  IF a.reqRel = "RST_SET" THEN "REMOTE_RST"
  ELSE IF a.req.type = "NON" \/ a.reqRel = "ACK_SET" THEN "WAITING"
  ELSE IF ~(now > a.ackTo) THEN "WAITING"
  ELSE IF a.retrans + 1 > MAX_RETRANSMIT THEN "OUT_OF_ATTEMPTS" ELSE "RETRY"

\* CheckReqStatus of coap_main.c, for the client role.
CheckReqStatus(a) ==
  LET tooOld == IsOlderThan(a.req.ts, now, CLIENT_MAX_RESP_WAIT_TIME) IN
  IF a.reqRel = "RST_SET" THEN "REMOTE_RST"
  ELSE IF a.req.type = "NON" \/ a.reqRel = "ACK_SET"
    THEN IF tooOld THEN "TIMEOUT" ELSE "WAITING"
  ELSE IF ~(now > a.ackTo) THEN "WAITING"
  ELSE IF a.retrans + 1 > MAX_RETRANSMIT THEN "OUT_OF_ATTEMPTS" ELSE "RETRY"

(***************************************************************************)
(* Who may act.  Callbacks of the event loop run to completion: nothing    *)
(* else happens while a notify loop is under way.  CoAP_doWork serves the  *)
(* head of the list, unless it is asleep.                                  *)
(***************************************************************************)
Running == ~fault /\ notifying = NoNotify
Head1 == list[1]
Turn(role, states) ==
  /\ Running /\ list # <<>>
  /\ ia[Head1].sleep <= now
  /\ ia[Head1].role = role /\ ia[Head1].st \in states

\* Variant of Requeue: the interaction keeps its place.
StayAtHead(a) == list' = list /\ ia' = [ia EXCEPT ![Head1] = a]

\* CoAP_EnqueueLastInteraction on the head, keeping a as its contents.
Requeue(a) ==
  /\ list' = MoveToListEnd(list, Head1)
  /\ ia' = [ia EXCEPT ![Head1] = a]

\* Variant of Delete: the block is unlinked but not freed.
UnlinkOnly == list' = Unlink(list, Head1) /\ ia' = ia

\* CoAP_DeleteInteraction on the head.
Delete ==
  /\ list' = Unlink(list, Head1)
  /\ ia' = Freed(ia, Head1)

Silent == tx' = NoDatagram
NoLoss == lost' = lost

\* The bound on message IDs: n more may be drawn.
MidsLeft(n) == MaxMid = MidMod - 1 \/ mid + n <= MaxMid
\* Variant of DrawMid: the incremented counter is not stored.
PeekMid == MidsLeft(1) /\ mid' = mid

DrawMid == MidsLeft(1) /\ mid' = GetNextMid(mid)

\* AddObserveOptionToMsg: without memory for the option it is left out.
ObserveOption(v) == {v} \cup (IF MemMayFail THEN {NoObserve} ELSE {})

(***************************************************************************)
(* SendResp: transmit the response of a, the head's contents, from list q  *)
(* and heap h.  When the socket refuses, the log line reads the request's  *)
(* message ID before the interaction is deleted, and a notification has no *)
(* request.                                                                *)
(***************************************************************************)
Transmitted(a, next) ==
  [a EXCEPT !.resp.ts = now,
            !.reqRel = IF a.resp.type = "ACK" THEN "ACK_SET" ELSE @,
            !.ackTo = IF a.resp.type = "CON" THEN AckDeadline(a.retrans)
                                             ELSE @,
            !.st = next]

\* Variant of RespRefused: the interaction is freed but stays in the list.
RefusedStaysLinked(a, q, h) ==
  /\ SendMayFail /\ Silent
  /\ IF a.req = NoReq
       THEN fault' = TRUE /\ list' = q /\ ia' = h
       ELSE fault' = fault /\ list' = q /\ ia' = Freed(h, Head1)

\* Variant of RespRefused: the interaction goes on as if it had been sent.
RefusedGoesUnseen(a, q, h) ==
  /\ SendMayFail /\ Silent
  /\ fault' = fault /\ list' = MoveToListEnd(q, Head1)
  /\ ia' = [h EXCEPT ![Head1] = Transmitted(a, "RESPONSE_SENT")]

RespRefused(a, q, h) ==
  /\ SendMayFail /\ Silent
  /\ IF a.req = NoReq
       THEN fault' = TRUE /\ list' = q /\ ia' = h
       ELSE /\ fault' = fault
            /\ list' = Unlink(q, Head1) /\ ia' = Freed(h, Head1)

SendResp(a, next, q, h) ==
  \/ /\ tx' = RespDatagram(a.ep, a.resp)
     /\ list' = MoveToListEnd(q, Head1)
     /\ ia' = [h EXCEPT ![Head1] = Transmitted(a, next)]
     /\ fault' = fault
  \/ RespRefused(a, q, h)

\* The retry branches of CoAP_doWork: the interaction stays at the head.
ResendResp(a) ==
  \/ /\ tx' = RespDatagram(a.ep, a.resp)
     /\ ia' = [ia EXCEPT ![Head1] =
                 [a EXCEPT !.resp.ts = now, !.retrans = @ + 1,
                           !.ackTo = AckDeadline(a.retrans + 1)]]
     /\ UNCHANGED <<list, fault>>
  \/ RespRefused(a, list, ia)

(***************************************************************************)
(* CoAP_ApplyReliabilityStateToInteraction: the first interaction whose    *)
(* own message carries this message ID and peer.  Servers and notificators *)
(* are looked up by their response, clients by their request.              *)
(***************************************************************************)
AppliesTo(a, ep, m) ==
  /\ a.ep = ep
  /\ IF a.role = "CLIENT" THEN a.req # NoReq /\ a.req.mid = m
                          ELSE a.resp # NoResp /\ a.resp.mid = m

ReliabilityTargets(ep, m) ==
  Matching(LAMBDA a : AppliesTo(a, ep, m))

WithReliability(a, r) ==
  IF a.role = "CLIENT" THEN [a EXCEPT !.reqRel = r]
                       ELSE [a EXCEPT !.respRel = r]

(***************************************************************************)
(* CoAP_RemoveObserverFromResource: the first observer with this endpoint  *)
(* and token is unlinked and freed.                                        *)
(***************************************************************************)
WithoutObserver(q, ep, tok) ==
  RemoveFirstMatch(q, LAMBDA o : o.ep = ep /\ o.tok = tok)
=============================================================================
