------------------------------ MODULE CoapServer ------------------------------
(***************************************************************************)
(* The server role of the Lobaro stack: a request becomes an interaction   *)
(* (CoAP_StartNewServerInteraction), CoAP_doWork calls the resource's      *)
(* handler, answers piggybacked, postponed or separately, registers and    *)
(* removes observers, and retransmits or ends the interaction.             *)
(***************************************************************************)
EXTENDS CoapInteraction

CONSTANTS
  Methods,         \* the Options.Flags of each resource
  Observable,      \* the resources with a Notifier
  HandlerResults   \* what handlers do: a code they answer with, or POSTPONE

ASSUME ServerAssumption ==
  /\ Methods \in [Resources -> SUBSET Method]
  /\ Observable \subseteq Resources
  /\ HandlerResults \subseteq {"CONTENT", "ERROR", "POSTPONE"}

FreeObsSlots ==
  {o \in ObsSlots : \A r \in Resources : \A i \in 1..Len(observers[r]) :
                      observers[r][i].id # o}

(***************************************************************************)
(* CoAP_StartNewServerInteraction, with the branch of                      *)
(* CoAP_onNewPacketHandler that reports the lack of memory.                *)
(***************************************************************************)
\* Variant of SameRequest: a request already answered is not recognised.
SameRequestUnanswered(p) ==
  Matching(LAMBDA a : /\ a.role = "SERVER" /\ a.ep = p.ep
                      /\ a.req.mid = p.mid /\ a.st # "RESPONSE_SENT")

SameRequest(p) ==
  Matching(LAMBDA a : a.role = "SERVER" /\ a.ep = p.ep /\ a.req.mid = p.mid)

RequestOf(p) == [type |-> p.type, method |-> p.method, mid |-> p.mid,
                 tok |-> p.tok, obs |-> p.obs, ts |-> now]

\* A short message: the socket takes it or refuses it, nobody looks.
SendShort(d) == tx' = d \/ (SendMayFail /\ Silent)

DuplicateRequest(p) ==
  /\ SameRequest(p) # {}
  /\ LET a == ia[list[First(SameRequest(p))]] IN
       IF a.req.type = "CON" /\ a.st = "RESOURCE_POSTPONE_EMPTY_ACK_SENT"
         THEN SendShort(ShortDatagram(a.ep, "ACK", "EMPTY", a.req.mid, 0))
         ELSE Silent
  /\ UNCHANGED <<list, ia>>

NewServerInteraction(p) ==
  /\ SameRequest(p) = {}
  /\ \E s \in FreeSlots :
       /\ ia' = [ia EXCEPT ![s] =
                   [NewInteraction EXCEPT !.role = "SERVER",
                      !.st = "HANDLE_REQUEST", !.ep = p.ep, !.res = p.res,
                      !.req = RequestOf(p)]]
       /\ list' = Append(list, s)
  /\ Silent

NoRoomForRequest(p) ==
  /\ SameRequest(p) = {} /\ FreeSlots = {}
  /\ IF p.type = "CON"
       THEN SendShort(ShortDatagram(p.ep, "ACK", "ERROR", p.mid, p.tok))
       ELSE Silent
  /\ UNCHANGED <<list, ia>>

StartNewServerInteraction(p) ==
  /\ \/ DuplicateRequest(p) \/ NewServerInteraction(p) \/ NoRoomForRequest(p)
  /\ UNCHANGED <<now, mid, observers, updateCnt, notifying, ownTok, lost,
                 fault>>

(***************************************************************************)
(* CoAP_HandleObservationInReq, for a GET answered with 2.05.  r is the    *)
(* response so far; a is the head's contents.                              *)
(***************************************************************************)
Observes(a, code, opt) ==
  /\ a.req.method = "GET" /\ code = "CONTENT"
  /\ a.res \in Observable /\ a.req.obs = opt

\* Variant of Register: an earlier observation is not looked for.
RegisterAgain(a, r) ==
  \E o \in FreeObsSlots :
    /\ observers' = [observers EXCEPT ![a.res] =
         Append(@, [id |-> o, ep |-> a.ep, tok |-> a.req.tok])]
    /\ SendResp([a EXCEPT !.resp = [r EXCEPT !.obs = 0]],
                "RESPONSE_SENT", list, ia)

\* Variant of Register: the old observation is removed before there is memory
\* for the new one.
RegisterFreesFirst(a, r) ==
  LET q == WithoutObserver(observers[a.res], a.ep, a.req.tok) IN
  \/ \E o \in FreeObsSlots :
       /\ observers' = [observers EXCEPT ![a.res] =
            Append(q, [id |-> o, ep |-> a.ep, tok |-> a.req.tok])]
       /\ SendResp([a EXCEPT !.resp = [r EXCEPT !.obs = 0]],
                   "RESPONSE_SENT", list, ia)
  \/ /\ FreeObsSlots = {} \/ MemMayFail
     /\ observers' = [observers EXCEPT ![a.res] = q]
     /\ SendResp([a EXCEPT !.resp = r], "RESPONSE_SENT", list, ia)

\* The new observer's block is taken before the old one is freed.
Register(a, r) ==
  \/ \E o \in FreeObsSlots :
       /\ observers' = [observers EXCEPT ![a.res] =
            Append(WithoutObserver(@, a.ep, a.req.tok),
                   [id |-> o, ep |-> a.ep, tok |-> a.req.tok])]
       /\ \E obs \in ObserveOption(0) :
            SendResp([a EXCEPT !.resp = [r EXCEPT !.obs = obs]],
                     "RESPONSE_SENT", list, ia)
  \/ /\ FreeObsSlots = {} \/ MemMayFail
     /\ UNCHANGED observers
     /\ SendResp([a EXCEPT !.resp = r], "RESPONSE_SENT", list, ia)

\* The first pending notification with this token and peer is aborted,
\* whatever its resource.
PendingWithToken(ep, tok) ==
  Matching(LAMBDA a : a.role = "NOTIFICATION" /\ a.resp.tok = tok /\ a.ep = ep)

\* Variant of Deregister: the aborted notification is freed in the list.
DeregisterInPlace(a, r) ==
  LET pending == PendingWithToken(a.ep, a.req.tok) IN
  /\ observers' = [observers EXCEPT ![a.res] =
                      WithoutObserver(@, a.ep, a.req.tok)]
  /\ SendResp([a EXCEPT !.resp = r], "RESPONSE_SENT", list,
              IF pending = {} THEN ia ELSE Freed(ia, list[First(pending)]))

\* Variant of Deregister: the aborted notification is only unlinked.
DeregisterUnfreed(a, r) ==
  LET pending == PendingWithToken(a.ep, a.req.tok) IN
  /\ observers' = [observers EXCEPT ![a.res] =
                      WithoutObserver(@, a.ep, a.req.tok)]
  /\ SendResp([a EXCEPT !.resp = r], "RESPONSE_SENT",
              IF pending = {} THEN list
              ELSE Unlink(list, list[First(pending)]), ia)

Deregister(a, r) ==
  LET pending == PendingWithToken(a.ep, a.req.tok)
      s == list[First(pending)]
  IN /\ observers' = [observers EXCEPT ![a.res] =
                        WithoutObserver(@, a.ep, a.req.tok)]
     /\ IF pending = {}
          THEN SendResp([a EXCEPT !.resp = r], "RESPONSE_SENT", list, ia)
          ELSE SendResp([a EXCEPT !.resp = r], "RESPONSE_SENT",
                        Unlink(list, s), Freed(ia, s))

(***************************************************************************)
(* CoAP_doWork, server role: the head has a request to handle.             *)
(***************************************************************************)
Handling == Turn("SERVER",
                 {"HANDLE_REQUEST", "RESOURCE_POSTPONE_EMPTY_ACK_SENT"})
Allowed(a) == a.req.method \in Methods[a.res]

\* The response's message is allocated at the first visit; a NON response
\* draws a message ID there.
AllocDraws(a) ==
  IF a.resp = NoResp /\ a.req.type = "NON" THEN DrawMid ELSE UNCHANGED mid
Allocated(a) ==
  IF a.resp = NoResp
    THEN [a EXCEPT !.resp = AllocRespMsg(a.req, "EMPTY", GetNextMid(mid))]
    ELSE a

MethodNotAllowed ==
  LET a == ia[Head1] IN
  /\ Handling /\ ~Allowed(a)
  /\ AllocDraws(a)
  /\ SendResp([a EXCEPT !.resp = AllocRespMsg(a.req, "ERROR",
                                              GetNextMid(mid))],
              "RESPONSE_SENT", list, ia)
  /\ UNCHANGED <<now, observers, updateCnt, notifying, ownTok, lost>>

\* Out of memory for the response: the handler is given a null pointer.
RespAllocFails ==
  /\ Handling /\ MemMayFail /\ ia[Head1].resp = NoResp
  /\ AllocDraws(ia[Head1])
  /\ fault' = TRUE /\ Silent
  /\ UNCHANGED <<now, list, ia, observers, updateCnt, notifying, ownTok, lost>>

CanStillAck(a) == a.req.type = "CON" /\ a.reqRel # "ACK_SET"
PostponedTooLong(a) == IsOlderThan(a.req.ts, now, POSTPONE_MAX_WAIT_TIME)

\* The handler needs time: an empty ACK goes out first.
PostponeWithAck ==
  LET a == Allocated(ia[Head1]) IN
  /\ Handling /\ Allowed(a) /\ "POSTPONE" \in HandlerResults
  /\ CanStillAck(a)
  /\ \/ /\ tx' = ShortDatagram(a.ep, "ACK", "EMPTY", a.req.mid, 0)
        /\ Requeue([a EXCEPT !.reqRel = "ACK_SET",
                             !.st = "RESOURCE_POSTPONE_EMPTY_ACK_SENT",
                             !.sleep = now + POSTPONE_WAIT_TIME_SEK])
     \/ SendMayFail /\ Silent /\ Delete
  /\ UNCHANGED <<now, mid, observers, updateCnt, notifying, ownTok, lost,
                 fault>>

\* Variant of PostponeAgain: a request postponed for too long is dropped.
PostponeOrDrop ==
  LET a == Allocated(ia[Head1]) IN
  /\ Handling /\ Allowed(a) /\ "POSTPONE" \in HandlerResults
  /\ ~CanStillAck(a)
  /\ AllocDraws(ia[Head1])
  /\ IF PostponedTooLong(a)
       THEN Delete
       ELSE Requeue([a EXCEPT !.sleep = now + POSTPONE_WAIT_TIME_SEK])
  /\ Silent
  /\ UNCHANGED <<now, observers, updateCnt, notifying, ownTok, lost, fault>>

PostponeAgain ==
  LET a == Allocated(ia[Head1]) IN
  /\ Handling /\ Allowed(a) /\ "POSTPONE" \in HandlerResults
  /\ ~CanStillAck(a) /\ ~PostponedTooLong(a)
  /\ AllocDraws(ia[Head1])
  /\ Requeue([a EXCEPT !.sleep = now + POSTPONE_WAIT_TIME_SEK])
  /\ Silent
  /\ UNCHANGED <<now, observers, updateCnt, notifying, ownTok, lost, fault>>

\* The handler answers, or has postponed for too long (5.03).  It may choose
\* the type of a response to a NON request.
AnswerCodes(a) ==
  (HandlerResults \ {"POSTPONE"}) \cup
  (IF "POSTPONE" \in HandlerResults /\ ~CanStillAck(a) /\ PostponedTooLong(a)
     THEN {"ERROR"} ELSE {})

IsSeparate(a) == a.req.type = "CON" /\ a.reqRel = "ACK_SET"

\* Variant of AnswerMsg: the type is left as it was allocated.
AnswerMsgAsAllocated(a, code, type) ==
  [a.resp EXCEPT !.code = code,
                 !.mid  = IF IsSeparate(a) THEN GetNextMid(mid) ELSE @]

AnswerMsg(a, code, type) ==
  [a.resp EXCEPT
     !.code = code,
     !.type = IF IsSeparate(a) THEN "CON"
              ELSE IF a.req.type = "CON" THEN "ACK" ELSE type,
     !.mid  = IF IsSeparate(a) THEN GetNextMid(mid) ELSE @]

Answer(code, type) ==
  LET a == Allocated(ia[Head1])
      r == AnswerMsg(a, code, type)
  IN /\ Handling /\ Allowed(a) /\ code \in AnswerCodes(a)
     /\ a.req.type = "CON" => type = "NON"
     /\ IF IsSeparate(a) THEN DrawMid ELSE AllocDraws(ia[Head1])
     /\ IF Observes(a, code, "REGISTER") THEN Register(a, r)
        ELSE IF Observes(a, code, "DEREGISTER") THEN Deregister(a, r)
        ELSE /\ UNCHANGED observers
             /\ SendResp([a EXCEPT !.resp = r], "RESPONSE_SENT", list, ia)
     /\ UNCHANGED <<now, updateCnt, notifying, ownTok, lost>>

(***************************************************************************)
(* CoAP_doWork, server role: the response has been sent.                   *)
(***************************************************************************)
ResponseSent ==
  LET a == ia[Head1]
      status == CheckRespStatus(a)
  IN /\ Turn("SERVER", {"RESPONSE_SENT"})
     /\ CASE status \in {"WAITING", "HOLDING_BACK"} ->
               Requeue(a) /\ Silent /\ UNCHANGED fault
          [] status = "RETRY" -> ResendResp(a)
          [] OTHER -> Delete /\ Silent /\ UNCHANGED fault
     /\ UNCHANGED <<now, mid, observers, updateCnt, notifying, ownTok, lost>>

ServerWork ==
  \/ MethodNotAllowed \/ RespAllocFails \/ PostponeWithAck \/ PostponeAgain
  \/ \E code \in {"CONTENT", "ERROR"}, type \in {"CON", "NON"} :
       Answer(code, type)
  \/ ResponseSent
=============================================================================
