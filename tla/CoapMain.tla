------------------------------- MODULE CoapMain -------------------------------
(***************************************************************************)
(* The Lobaro CoAP stack as a whole (coap_main.c): packets arrive          *)
(* (CoAP_onNewPacketHandler), the main loop serves the head of the list    *)
(* (CoAP_doWork), resources change, the application asks for resources of  *)
(* other servers, the clock ticks.                                         *)
(*                                                                         *)
(* The network is any sender of the packets in Packets, at any time and    *)
(* any number of times: loss, duplication and reordering need no actions   *)
(* of their own.                                                           *)
(***************************************************************************)
EXTENDS CoapServer, CoapNotify, CoapRequester

CONSTANTS
  Packets,    \* what may arrive
  Changing    \* the resources that change and notify their observers

PacketSet ==
  [ep: Eps, type: MsgType, kind: {"EMPTY", "REQUEST", "RESPONSE"}, mid: Mid,
   tok: Nat, method: Method, res: Resources \cup {NULL}, obs: ObserveOpt,
   crit: BOOLEAN, code: RespCode]

ASSUME MainAssumption ==
  /\ Packets \subseteq PacketSet
  /\ Changing \subseteq Resources

Init ==
  /\ now = 0 /\ mid = 0
  /\ list = <<>>
  /\ ia = [s \in Slots |-> NewInteraction]
  /\ observers = [r \in Resources |-> <<>>]
  /\ updateCnt = [r \in Resources |-> 0]
  /\ notifying = NoNotify
  /\ ownTok = TokenStart
  /\ tx = NoDatagram
  /\ lost = FALSE /\ fault = FALSE

-----------------------------------------------------------------------------
(***************************************************************************)
(* CoAP_onNewPacketHandler, branch by branch.                              *)
(***************************************************************************)
IsRequest(p) == p.kind = "REQUEST"

\* Table 1 of RFC 7252, 4.3: silently ignored combinations.
BadCombination(p) ==
  \/ p.type = "ACK" /\ IsRequest(p)
  \/ p.type = "RST" /\ p.kind # "EMPTY"

IsPing(p) == p.type = "CON" /\ p.kind = "EMPTY"

\* Variant of UnknownResource: the failed lookup goes unnoticed.
LookupUnchecked(p) == FALSE

UnknownResource(p) == IsRequest(p) /\ p.res = NULL

\* What the remaining branches see.
Accepted(p) == ~IsPing(p) /\ ~BadCombination(p) /\ ~UnknownResource(p) /\ ~p.crit

StateUnchanged == UNCHANGED <<now, list, ia, observers, updateCnt, notifying,
                              ownTok, lost, fault>>

ReceivePing(p) ==
  /\ IsPing(p)
  /\ SendShort(ShortDatagram(p.ep, "RST", "EMPTY", p.mid, 0))
  /\ StateUnchanged /\ UNCHANGED mid

ReceiveIgnored(p) ==
  /\ ~IsPing(p)
  /\ BadCombination(p) \/ (p.crit /\ ~UnknownResource(p) /\ p.type # "CON")
  /\ Silent
  /\ StateUnchanged /\ UNCHANGED mid

ReceiveUnknownResource(p) ==
  /\ UnknownResource(p) /\ ~BadCombination(p)
  /\ IF p.type = "CON"
       THEN /\ SendShort(ShortDatagram(p.ep, "ACK", "ERROR", p.mid, p.tok))
            /\ UNCHANGED mid
       ELSE /\ DrawMid
            /\ SendShort(ShortDatagram(p.ep, "NON", "ERROR", mid', p.tok))
  /\ StateUnchanged

ReceiveBadOption(p) ==
  /\ p.crit /\ p.type = "CON" /\ ~IsPing(p) /\ ~UnknownResource(p)
  /\ SendShort(IF IsRequest(p)
                 THEN ShortDatagram(p.ep, "ACK", "ERROR", p.mid, p.tok)
                 ELSE ShortDatagram(p.ep, "RST", "EMPTY", p.mid, 0))
  /\ StateUnchanged /\ UNCHANGED mid

\* RST and ACK: applied to the first interaction they fit, if any.
Apply(p, Update(_)) ==
  LET targets == ReliabilityTargets(p.ep, p.mid) IN
  IF targets = {} THEN UNCHANGED ia
  ELSE LET s == list[First(targets)] IN ia' = [ia EXCEPT ![s] = Update(@)]

ReceiveReset(p) ==
  /\ Accepted(p) /\ p.type = "RST"
  /\ Apply(p, LAMBDA a : WithReliability(a, "RST_SET"))
  /\ Silent
  /\ UNCHANGED <<now, mid, list, observers, updateCnt, notifying, ownTok,
                 lost, fault>>

ReceiveAck(p) ==
  /\ Accepted(p) /\ p.type = "ACK"
  /\ Apply(p, LAMBDA a : Acknowledged(a, p))
  /\ Silent
  /\ UNCHANGED <<now, mid, list, observers, updateCnt, notifying, ownTok,
                 lost, fault>>

ReceiveRequest(p) ==
  /\ Accepted(p) /\ IsRequest(p) /\ p.type \in {"CON", "NON"}
  /\ StartNewServerInteraction(p)

\* A separate response of a server we asked: attached to its request, and
\* acknowledged when confirmable, or rejected.
SeparateAccepted(p, s) ==
  LET a == ia[s]
      b == IF a.st \in {"WAITING_RESPONSE", "HANDLE_RESPONSE"}
             THEN WithResponse(a, p) ELSE a
  IN /\ lost' = (lost \/ a.st = "READY_TO_REQUEST")
     /\ \/ /\ p.type = "CON"
           /\ tx' = ShortDatagram(p.ep, "ACK", "EMPTY", p.mid, p.tok)
           /\ ia' = [ia EXCEPT ![s] = [b EXCEPT !.respRel = "ACK_SET"]]
        \/ /\ p.type = "NON" \/ SendMayFail
           /\ Silent
           /\ ia' = [ia EXCEPT ![s] = b]

ReceiveSeparate(p) ==
  LET waiting == AwaitingToken(p.ep, p.tok) IN
  /\ Accepted(p) /\ ~IsRequest(p) /\ p.type \in {"CON", "NON"}
  /\ IF waiting # {}
       THEN SeparateAccepted(p, list[First(waiting)])
       ELSE /\ SendShort(ShortDatagram(p.ep, "RST", "EMPTY", p.mid, p.tok))
            /\ UNCHANGED <<ia, lost>>
  /\ UNCHANGED <<now, mid, list, observers, updateCnt, notifying, ownTok,
                 fault>>

onNewPacketHandler ==
  /\ Running
  /\ \E p \in Packets :
       \/ ReceivePing(p) \/ ReceiveIgnored(p) \/ ReceiveUnknownResource(p)
       \/ ReceiveBadOption(p) \/ ReceiveReset(p) \/ ReceiveAck(p)
       \/ ReceiveRequest(p) \/ ReceiveSeparate(p)

-----------------------------------------------------------------------------
(***************************************************************************)
(* CoAP_doWork: a sleeping head goes to the end, any other is served.      *)
(***************************************************************************)
StillSleeping ==
  /\ Running /\ list # <<>>
  /\ ia[Head1].sleep > now
  /\ Requeue(ia[Head1]) /\ Silent
  /\ UNCHANGED <<now, mid, observers, updateCnt, notifying, ownTok, lost,
                 fault>>

doWork == StillSleeping \/ ServerWork \/ NotifyWork \/ RequesterWork

Tick ==
  /\ Running
  /\ now' = (now + 1) % RtcMod
  /\ Silent
  /\ UNCHANGED <<mid, list, ia, observers, updateCnt, notifying, ownTok,
                 lost, fault>>

Next ==
  \/ onNewPacketHandler
  \/ doWork
  \/ \E r \in Changing : NotifyResourceObservers(r)
  \/ StartNotifyInteractions
  \/ \E ep \in Servers : StartNewGetRequest(ep)
  \/ Tick

Spec == Init /\ [][Next]_vars
-----------------------------------------------------------------------------
(***************************************************************************)
(* Invariants.                                                             *)
(***************************************************************************)
\* Every variable has the type its C counterpart declares.
TypeOK ==
  /\ now \in Time /\ mid \in Mid
  /\ list \in Seq(Slots)
  /\ ia \in [Slots -> Interaction]
  /\ observers \in [Resources -> Seq(Observer)]
  /\ updateCnt \in [Resources -> 0..CntMod-1]
  /\ notifying \in [res: Resources, pos: Nat \ {0}] \cup {NoNotify}
  /\ ownTok \in Nat
  /\ tx \in Datagram \cup {NoDatagram}
  /\ lost \in BOOLEAN /\ fault \in BOOLEAN

\* Whatever CoAP_doWork and CoAP_onNewPacketHandler dereference without a
\* check is there: a peer, the messages and the resource each role and state
\* needs, and no more retries than there are waiting times for.  The notify
\* loop stands at an observer that is still in the list.
FitsRole(a) ==
  /\ a.retrans <= MAX_RETRANSMIT
  /\ a.role # "FREE" => a.ep \in Eps
  /\ a.role = "SERVER" => a.res \in Resources /\ a.req \in ReqMsg
  /\ a.role = "SERVER" /\ a.st = "RESPONSE_SENT" => a.resp \in RespMsg
  /\ a.role = "NOTIFICATION" => a.res \in Resources /\ a.resp \in RespMsg
  /\ a.role = "CLIENT" => a.req \in ReqMsg
LoopAtObserver ==
  notifying # NoNotify =>
    /\ notifying.res \in Resources
    /\ notifying.pos \in 1..Len(observers[notifying.res])
PointersOK == LoopAtObserver /\ \A s \in Slots : FitsRole(ia[s])

\* The linked list stays a list of allocated blocks: unlinking, moving to the
\* end and freeing (also of a block in the middle) never leave a block in it
\* twice or a freed one in it.
ListOK ==
  /\ \A i, j \in 1..Len(list) : list[i] = list[j] => i = j
  /\ \A i \in 1..Len(list) : ia[list[i]].role # "FREE"

\* Every allocated interaction can be reached from the list's head, and every
\* message from its interaction: nothing leaks.
NoLeak == ~lost /\ \A s \in Slots : ia[s].role # "FREE" => s \in Linked

\* However often a request is duplicated, at most one interaction works on it
\* (the duplicate detection of CoAP_StartNewServerInteraction).
OneInteractionPerRequest ==
  \A s, t \in Linked :
    /\ ia[s].role = "SERVER" /\ ia[t].role = "SERVER"
    /\ ia[s].ep = ia[t].ep /\ ia[s].req.mid = ia[t].req.mid
    => s = t

\* At most one notification per resource and endpoint is under way, also
\* while registrations, cancellations and updates interleave with it.
OneNotificationPerObserver ==
  \A s, t \in Linked :
    /\ ia[s].role = "NOTIFICATION" /\ ia[t].role = "NOTIFICATION"
    /\ ia[s].ep = ia[t].ep /\ ia[s].res = ia[t].res
    => s = t

\* A notification is only ever under way to a client that observes: whatever
\* registrations without memory, cancellations, errors and refused datagrams do
\* to the observers, none is removed and leaves its notification behind
\* (CoAP_HandleObservationInReq, CoAP_StartNotifyInteractions, CoAP_doWork).
IsObserver(r, ep, tok) ==
  \E i \in 1..Len(observers[r]) :
    observers[r][i].ep = ep /\ observers[r][i].tok = tok
NotifiedIsObserver ==
  \A s \in Linked :
    ia[s].role = "NOTIFICATION" =>
      IsObserver(ia[s].res, ia[s].ep, ia[s].resp.tok)

\* A resource never has the same observation (endpoint, token) twice, and no
\* observer block is in two places.
ObserversUnique ==
  \A r, q \in Resources :
    \A i \in 1..Len(observers[r]), j \in 1..Len(observers[q]) :
      LET o == observers[r][i]
          p == observers[q][j]
      IN \/ o.id = p.id \/ (r = q /\ o.ep = p.ep /\ o.tok = p.tok)
         => r = q /\ i = j

\* Once a change has been announced to all observers, every notification still
\* under way carries the newest state or is marked to be refreshed.
PendingIsFresh ==
  notifying = NoNotify =>
    \A s \in Linked :
      ia[s].role = "NOTIFICATION" =>
        ia[s].upd \/ ia[s].resp.obs = updateCnt[ia[s].res]

\* Two interactions never share a message ID of our own, as long as the counter
\* has not come round to one still in use.  (The IDs a peer chose, which our
\* piggybacked ACKs carry, may clash with it: AnswerFindsItsMessage.)
UsesOwnMid(a) ==
  CASE a.role = "SERVER" -> a.resp.type \in {"CON", "NON"}
    [] a.role = "NOTIFICATION" -> TRUE
    [] a.role = "CLIENT" -> TRUE
    [] OTHER -> FALSE
OwnMid(a) == IF a.role = "CLIENT" THEN a.req.mid ELSE a.resp.mid
OwnMidsDistinct ==
  \A s, t \in Linked :
    /\ UsesOwnMid(ia[s]) /\ UsesOwnMid(ia[t])
    /\ OwnMid(ia[s]) = OwnMid(ia[t])
    => s = t

\* The retransmission timer of a confirmable message in flight is the one its
\* retry counter and last transmission call for, and the counter keeps to
\* MAX_RETRANSMIT.
InFlight(a) ==
  \/ a.st \in {"RESPONSE_SENT", "NOTIFICATION_SENT"} /\ a.resp.type = "CON"
  \/ a.st = "WAITING_RESPONSE"
LastSent(a) == IF a.role = "CLIENT" THEN a.req.ts ELSE a.resp.ts
BackoffFitsRetries ==
  \A s \in Linked :
    /\ ia[s].retrans <= MAX_RETRANSMIT
    /\ InFlight(ia[s]) =>
         ia[s].ackTo = LastSent(ia[s]) + ACK_TIMEOUT ^ (ia[s].retrans + 1)

\* A response that has left fits its request: the same token, the request's
\* message ID on a piggybacked ACK (only when no empty ACK went out before),
\* and a confirmable separate response only after the empty ACK.
ResponseFitsRequest ==
  \A s \in Linked :
    LET a == ia[s] IN
    a.st = "RESPONSE_SENT" =>
      /\ a.resp.tok = a.req.tok /\ a.resp.code # "EMPTY"
      /\ a.req.type = "CON" => a.reqRel = "ACK_SET"
      /\ a.resp.type = "ACK" <=> (a.req.type = "CON" /\ a.sleep = 0)

\* A client interaction hands its callback only a response to its own request.
CallbackFitsRequest ==
  \A s \in Linked :
    ia[s].st = "HANDLE_RESPONSE" =>
      /\ ia[s].resp # NoResp
      /\ ia[s].resp.tok = ia[s].req.tok

(***************************************************************************)
(* Action properties.                                                      *)
(***************************************************************************)
\* d is the message of interaction a: its request or its response.
SentAs(a, d) ==
  d = IF a.role = "CLIENT" THEN ReqDatagram(a.ep, a.req)
                           ELSE RespDatagram(a.ep, a.resp)

\* After the ACK or the RST for a message in flight has arrived, that message
\* is not sent again, whatever the timer says.
Answered(a) ==
  IF a.role = "CLIENT" THEN a.reqRel # "NOT_SET" \/ a.resp # NoResp
                       ELSE a.respRel # "NOT_SET"
NoResendAfterAnswer ==
  [][\A s \in Linked :
       InFlight(ia[s]) /\ Answered(ia[s]) => ~SentAs(ia[s], tx')]_vars

\* The stack waits for the ACK of a message, or counts a retransmission of it,
\* only when the socket has just taken that very message.
StartsWaiting(s) ==
  /\ InFlight(ia[s])'
  /\ ~InFlight(ia[s]) \/ ia'[s].retrans > ia[s].retrans
WaitsOnlyForSent ==
  [][\A s \in Slots : StartsWaiting(s) => SentAs(ia'[s], tx')]_vars

\* A request the stack accepted is not forgotten before it is answered.
AnsweredBeforeForgotten ==
  [][\A s \in Linked :
       /\ ia[s].role = "SERVER" /\ ia'[s].role # "SERVER"
       => ia[s].st = "RESPONSE_SENT"]_vars

\* The notify loop passes no observer over and visits none twice, whatever a
\* Notifier's error removes under it: the observers it has still to visit are
\* those behind the one it is at.  It ends before them only for want of an
\* interaction (CoAP_StartNotifyInteractions, the saved successor included).
StillToNotify ==
  IF notifying = NoNotify THEN <<>>
  ELSE SubSeq(observers[LoopRes], notifying.pos, Len(observers[LoopRes]))
NobodyPassedOver ==
  [][notifying # NoNotify =>
       \/ StillToNotify' = Tail(StillToNotify)
       \/ PendingNotification(LoopRes, LoopObserver) = {} /\ FreeSlots = {}]_vars

\* A notification that was reset or never acknowledged ends together with the
\* observation it belongs to.
FailedNotificationEndsObservation ==
  [][\A s \in Linked :
       LET a == ia[s] IN
       /\ a.st = "NOTIFICATION_SENT" /\ ia'[s].role = "FREE"
       /\ CheckRespStatus(a) # "OK"
       => \A i \in 1..Len(observers'[a.res]) :
            LET o == observers'[a.res][i] IN
            ~(o.ep = a.ep /\ o.tok = a.resp.tok)]_vars
=============================================================================
