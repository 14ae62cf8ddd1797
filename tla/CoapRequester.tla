----------------------------- MODULE CoapRequester -----------------------------
(***************************************************************************)
(* The client role of the Lobaro stack: CoAP_StartNewGetRequest, the       *)
(* transmission of the request, and the wait for a piggybacked or separate *)
(* response.                                                               *)
(***************************************************************************)
EXTENDS CoapInteraction

CONSTANTS
  Servers,     \* the endpoints the application sends GET requests to
  MaxRequests  \* bound: how many requests it starts

ASSUME RequesterAssumption == Servers \subseteq Eps /\ MaxRequests \in Nat

\* CoAP_GenerateToken increments a 64-bit counter, from the start value.
TokenStart == 250

GetRequest == [type |-> "CON", method |-> "GET", mid |-> GetNextMid(mid),
               tok |-> ownTok + 1, obs |-> "ABSENT", ts |-> 0]

(***************************************************************************)
(* CoAP_StartNewGetRequest and CoAP_StartNewClientInteraction.  Without    *)
(* room for the interaction, the request message stays behind.             *)
(***************************************************************************)
StartNewGetRequest(ep) ==
  /\ Running
  /\ ownTok - TokenStart < MaxRequests
  /\ DrawMid /\ ownTok' = ownTok + 1
  /\ \/ \E s \in FreeSlots :
          /\ ia' = [ia EXCEPT ![s] =
                      [NewInteraction EXCEPT !.role = "CLIENT",
                         !.st = "READY_TO_REQUEST", !.ep = ep,
                         !.req = GetRequest]]
          /\ list' = Append(list, s)
          /\ NoLoss
     \/ /\ MemMayFail /\ NoLoss      \* no message: nothing started
        /\ UNCHANGED <<list, ia>>
     \/ /\ FreeSlots = {} /\ lost' = TRUE
        /\ UNCHANGED <<list, ia>>
  /\ Silent
  /\ UNCHANGED <<now, observers, updateCnt, notifying, fault>>

\* SendReq, and the retry of WAITING_RESPONSE.
ReadyToRequest ==
  LET a == ia[Head1] IN
  /\ Turn("CLIENT", {"READY_TO_REQUEST"})
  /\ \/ /\ tx' = ReqDatagram(a.ep, a.req)
        /\ Requeue([a EXCEPT !.req.ts = now, !.st = "WAITING_RESPONSE",
                      !.ackTo = IF a.req.type = "CON"
                                  THEN AckDeadline(a.retrans) ELSE @])
     \/ SendMayFail /\ Silent /\ Delete
  /\ UNCHANGED <<now, mid, observers, updateCnt, notifying, ownTok, lost,
                 fault>>

\* Variant of ResendReq: a refused retry is counted and waited for.
ResendReqUnseen(a) ==
  /\ tx' = ReqDatagram(a.ep, a.req) \/ (SendMayFail /\ Silent)
  /\ ia' = [ia EXCEPT ![Head1] =
               [a EXCEPT !.req.ts = now, !.retrans = @ + 1,
                         !.ackTo = AckDeadline(a.retrans + 1)]]
  /\ UNCHANGED list

ResendReq(a) ==
  \/ /\ tx' = ReqDatagram(a.ep, a.req)
     /\ ia' = [ia EXCEPT ![Head1] =
                 [a EXCEPT !.req.ts = now, !.retrans = @ + 1,
                           !.ackTo = AckDeadline(a.retrans + 1)]]
     /\ UNCHANGED list
  \/ SendMayFail /\ Silent /\ Delete

WaitingResponse ==
  LET a == ia[Head1]
      status == CheckReqStatus(a)
  IN /\ Turn("CLIENT", {"WAITING_RESPONSE"})
     /\ CASE status = "WAITING" -> Requeue(a) /\ Silent
          [] status = "RETRY" -> ResendReq(a)
          [] OTHER -> Delete /\ Silent
     /\ UNCHANGED <<now, mid, observers, updateCnt, notifying, ownTok, lost,
                    fault>>

\* The application's callback is called with the response.
HandleResponse ==
  /\ Turn("CLIENT", {"HANDLE_RESPONSE"})
  /\ Delete /\ Silent
  /\ UNCHANGED <<now, mid, observers, updateCnt, notifying, ownTok, lost,
                 fault>>

RequesterWork == ReadyToRequest \/ WaitingResponse \/ HandleResponse

(***************************************************************************)
(* The response branches of CoAP_onNewPacketHandler.                       *)
(***************************************************************************)
\* Packet p becomes the interaction's response; an older one is freed.
ResponseOf(p) ==
  [type |-> p.type, code |-> IF p.kind = "EMPTY" THEN "EMPTY" ELSE p.code,
   mid |-> p.mid, tok |-> p.tok, obs |-> NoObserve, ts |-> now]

WithResponse(a, p) ==
  [a EXCEPT !.resp = ResponseOf(p), !.st = "HANDLE_RESPONSE"]

\* Variant of Acknowledged: the token is not compared.
AcknowledgedAnyToken(a, p) ==
  LET b == WithReliability(a, "ACK_SET") IN
  IF p.kind = "RESPONSE" /\ a.role = "CLIENT" /\ a.st = "WAITING_RESPONSE"
    THEN WithResponse(b, p) ELSE b

\* An ACK, empty or with a piggybacked response, has been applied to a.
Acknowledged(a, p) ==
  LET b == WithReliability(a, "ACK_SET") IN
  IF /\ p.kind = "RESPONSE" /\ a.role = "CLIENT" /\ a.req.tok = p.tok
     /\ a.st = "WAITING_RESPONSE"
    THEN WithResponse(b, p) ELSE b

\* The interaction a separate response belongs to.
AwaitingToken(ep, tok) ==
  Matching(LAMBDA a : a.role = "CLIENT" /\ a.req.tok = tok /\ a.ep = ep)
=============================================================================
