---------------------------- MODULE CoapListProofs ----------------------------
(***************************************************************************)
(* The linked list stays sound (ListOK), and duplicates never make two     *)
(* interactions of one request or one observer                             *)
(* (OneInteractionPerRequest, OneNotificationPerObserver).  The message    *)
(* IDs in use are distinct, and an answered message is not sent again      *)
(* (OwnMidsDistinct, NoResendAfterAnswer).                                 *)
(*                                                                         *)
(* The argument: a step either keeps the list to interactions it had       *)
(* already, with their role, peer, resource and message ID (Keeps), or it  *)
(* adds one interaction, after a search that found none like it (Adds).    *)
(***************************************************************************)
EXTENDS CoapTypeProofs

USE MessageAssumption

ListInv == NoDup(list) /\ \A s \in Elems(list) : ia[s].role # "FREE"

\* A notification stays that of its observer, and carries what it carried, is
\* flagged, or has been given the newest state.
SameObservation(a, b) ==
  /\ b.req = a.req /\ b.resp.tok = a.resp.tok
  /\ \/ MemMayFail \/ b.upd \/ b.resp.obs = updateCnt[a.res]
     \/ (a.upd => b.upd) /\ b.resp.obs = a.resp.obs

\* What identifies the request or the observer an interaction works for.
SameKey(a, b) ==
  /\ a.role = b.role /\ a.ep = b.ep /\ a.res = b.res
  /\ a.req.mid = b.req.mid /\ a.req.tok = b.req.tok /\ a.req.obs = b.req.obs
  /\ a.role = "NOTIFICATION" => SameObservation(a, b)

Keeps ==
  /\ NoDup(list')
  /\ \A s \in Elems(list') : s \in Elems(list) /\ SameKey(ia[s], ia'[s])

Adds(t) ==
  /\ NoDup(list') /\ t \notin Elems(list) /\ ia[t].role = "FREE"
  /\ Elems(list') = Elems(list) \cup {t}
  /\ \A s \in Elems(list) : SameKey(ia[s], ia'[s])

LEMMA ListInvIsListOK == ListInv <=> ListOK
BY DEF ListInv, ListOK, NoDup, Elems

LEMMA LinkedIsElems == Linked = Elems(list)
BY DEF Linked, Elems

LEMMA ElemsAreSlots ==
  ASSUME NEW q \in Seq(Slots)
  PROVE  Elems(q) \subseteq Slots
BY ElementOfSeq DEF Elems

LEMMA HeadIsElem ==
  ASSUME list \in Seq(Slots), list # <<>>
  PROVE  Head1 \in Elems(list)
<1>1. 1 \in 1..Len(list)
  BY EmptySeq
<1> QED BY <1>1 DEF Head1, Elems

LEMMA SameKeyReflexive == \A a : SameKey(a, a)
BY DEF SameKey, SameObservation

LEMMA SameKeyTransitive ==
  ASSUME NEW a, NEW b, NEW c, SameKey(a, b), SameKey(b, c)
  PROVE  SameKey(a, c)
BY DEF SameKey, SameObservation

(***************************************************************************)
(* The helpers.                                                            *)
(***************************************************************************)
Base == Typing /\ ListInv

LEMMA SameListKeeps ==
  ASSUME Base, list' = list, ia' = ia
  PROVE  Keeps
BY SameKeyReflexive DEF Base, ListInv, Keeps

\* One interaction of the heap is changed, its key is not; the list stays.
LEMMA UpdateKeeps ==
  ASSUME Base, list' = list, NEW s \in Slots, NEW a, ia' = [ia EXCEPT ![s] = a],
         SameKey(ia[s], a)
  PROVE  Keeps
<1>1. \A t \in Elems(list) : SameKey(ia[t], ia'[t])
  BY ElemsAreSlots, SameKeyReflexive DEF Base, Typing, GoodHeap
<1> QED BY <1>1 DEF Base, ListInv, Keeps

LEMMA RequeueKeeps ==
  ASSUME Base, Head1 \in Elems(list), NEW a, SameKey(ia[Head1], a), Requeue(a)
  PROVE  Keeps
<1>0. Elems(list) \subseteq Slots
  BY ElemsAreSlots DEF Base, Typing
<1>1. NoDup(list') /\ Elems(list') = Elems(list) \cup {Head1}
  BY <1>0, MoveToListEndElems DEF Base, ListInv, Typing, Requeue
<1>2. \A t \in Elems(list) : SameKey(ia[t], ia'[t])
  BY <1>0, SameKeyReflexive DEF Base, Typing, GoodHeap, Requeue
<1> QED BY <1>1, <1>2 DEF Keeps

LEMMA DeleteKeeps ==
  ASSUME Base, Delete
  PROVE  Keeps
<1>0. Elems(list) \subseteq Slots
  BY ElemsAreSlots DEF Base, Typing
<1>1. NoDup(list') /\ Elems(list') = Elems(list) \ {Head1}
  BY UnlinkElems DEF Base, ListInv, Typing, Delete
<1>2. \A t \in Elems(list) \ {Head1} : ia'[t] = ia[t]
  BY <1>0 DEF Base, Typing, GoodHeap, Delete, Freed
<1> QED BY <1>1, <1>2, SameKeyReflexive DEF Keeps

\* A list and a heap with fewer interactions than the present ones.
Below(q, h) ==
  /\ q \in Seq(Slots) /\ NoDup(q) /\ Elems(q) \subseteq Elems(list)
  /\ h \in [Slots -> Interaction]
  /\ \A t \in Elems(q) : h[t] = ia[t]

LEMMA RespRefusedKeeps ==
  ASSUME Base, NEW a, NEW q, NEW h, Below(q, h), RespRefused(a, q, h)
  PROVE  Keeps
<1>0. Elems(list) \subseteq Slots
  BY ElemsAreSlots DEF Base, Typing
<1>1. CASE a.req = NoReq
  BY <1>1, SameKeyReflexive DEF RespRefused, Below, Keeps
<1>2. CASE a.req # NoReq
  <2>1. list' = Unlink(q, Head1) /\ ia' = Freed(h, Head1)
    BY <1>2 DEF RespRefused
  <2>2. NoDup(list') /\ Elems(list') = Elems(q) \ {Head1}
    BY <2>1, UnlinkElems DEF Below
  <2>3. \A t \in Elems(q) \ {Head1} : ia'[t] = ia[t]
    BY <1>0, <2>1 DEF Below, Freed
  <2> QED BY <2>2, <2>3, SameKeyReflexive DEF Below, Keeps
<1> QED BY <1>1, <1>2

LEMMA SendRespKeeps ==
  ASSUME Base, Head1 \in Elems(list), NEW a, a \in Interaction,
         SameKey(ia[Head1], a), NEW next, NEW q, NEW h, Below(q, h),
         SendResp(a, next, q, h)
  PROVE  Keeps
<1>0. Elems(list) \subseteq Slots
  BY ElemsAreSlots DEF Base, Typing
<1>1. CASE RespRefused(a, q, h)
  BY <1>1, RespRefusedKeeps
<1>2. ASSUME list' = MoveToListEnd(q, Head1),
             ia' = [h EXCEPT ![Head1] = Transmitted(a, next)]
      PROVE  Keeps
  <2>1. SameKey(a, Transmitted(a, next))
    BY DEF SameKey, SameObservation, Transmitted, Interaction, RespMsg, NoResp
  <2>2. SameKey(ia[Head1], Transmitted(a, next))
    BY <2>1, SameKeyTransitive
  <2>3. NoDup(list') /\ Elems(list') = Elems(q) \cup {Head1}
    BY <1>0, <1>2, MoveToListEndElems DEF Below
  <2>4. \A t \in Elems(q) \ {Head1} : ia'[t] = ia[t]
    BY <1>0, <1>2 DEF Below
  <2>5. ia'[Head1] = Transmitted(a, next)
    BY <1>0, <1>2 DEF Below
  <2> QED BY <2>2, <2>3, <2>4, <2>5, SameKeyReflexive DEF Below, Keeps
<1> QED BY <1>1, <1>2 DEF SendResp

LEMMA SelfBelow ==
  ASSUME Base
  PROVE  Below(list, ia)
BY DEF Base, ListInv, Typing, GoodHeap, Below

LEMMA ResendRespKeeps ==
  ASSUME Base, Head1 \in Elems(list), NEW a, a \in Interaction,
         SameKey(ia[Head1], a), ResendResp(a)
  PROVE  Keeps
<1>0. Head1 \in Slots
  BY ElemsAreSlots DEF Base, Typing
<1> DEFINE b == [a EXCEPT !.resp.ts = now, !.retrans = @ + 1,
                          !.ackTo = AckDeadline(a.retrans + 1)]
<1>1. SameKey(a, b)
  BY DEF SameKey, SameObservation, Interaction, RespMsg, NoResp
<1>2. \/ ia' = [ia EXCEPT ![Head1] = b] /\ list' = list
      \/ RespRefused(a, list, ia)
  BY DEF ResendResp
<1> HIDE DEF b
<1>3. SameKey(ia[Head1], b)
  BY <1>1, SameKeyTransitive
<1> QED BY <1>0, <1>2, <1>3, UpdateKeeps, RespRefusedKeeps, SelfBelow

LEMMA InvBase ==
  ASSUME TypeInv, ListInv
  PROVE  Base
BY TypeInvTyping DEF Base

\* The head, when it is some role's turn.
LEMMA TurnElem ==
  ASSUME Base, NEW role, NEW states, Turn(role, states)
  PROVE  /\ Head1 \in Elems(list) /\ Head1 \in Slots
         /\ ia[Head1] \in Interaction /\ ia[Head1].role = role
BY HeadIsElem, TurnType DEF Base, Typing, Turn, Good

(***************************************************************************)
(* The server role.                                                        *)
(***************************************************************************)
\* The head is sent a response of its own.
LEMMA OwnResponseKeeps ==
  ASSUME Base, Head1 \in Elems(list), NEW a, a \in Interaction,
         SameKey(ia[Head1], a), a.role = "SERVER", NEW r \in RespMsg, NEW q, NEW h, Below(q, h),
         SendResp([a EXCEPT !.resp = r], "RESPONSE_SENT", q, h)
  PROVE  Keeps
<1> DEFINE b == [a EXCEPT !.resp = r]
<1>1. b \in Interaction /\ SameKey(ia[Head1], b)
  BY DEF Interaction, SameKey
<1>2. SendResp(b, "RESPONSE_SENT", q, h)
  OBVIOUS
<1> HIDE DEF b
<1> QED BY <1>1, <1>2, SendRespKeeps

LEMMA AllocatedKey ==
  ASSUME NEW a \in Interaction, a.role = "SERVER"
  PROVE  SameKey(a, Allocated(a)) /\ Allocated(a).role = "SERVER"
BY DEF SameKey, Allocated, Interaction

LEMMA RegisterKeeps ==
  ASSUME Base, Head1 \in Elems(list), NEW a, a \in Interaction,
         SameKey(ia[Head1], a), a.role = "SERVER", NEW r \in RespMsg, Register(a, r)
  PROVE  Keeps
<1>1. ASSUME NEW obs \in ObserveOption(0),
             SendResp([a EXCEPT !.resp = [r EXCEPT !.obs = obs]],
                      "RESPONSE_SENT", list, ia)
      PROVE  Keeps
  <2>1. [r EXCEPT !.obs = obs] \in RespMsg
    BY DEF RespMsg, ObserveVal, ObserveOption, NoObserve
  <2> QED BY <1>1, <2>1, OwnResponseKeeps, SelfBelow
<1>2. CASE SendResp([a EXCEPT !.resp = r], "RESPONSE_SENT", list, ia)
  BY <1>2, OwnResponseKeeps, SelfBelow
<1> QED BY <1>1, <1>2 DEF Register

\* The aborted notification is another interaction than the head.
LEMMA DeregisterKeeps ==
  ASSUME Base, Head1 \in Elems(list), NEW a, a \in Interaction,
         SameKey(ia[Head1], a), a.role = "SERVER", NEW r \in RespMsg, Deregister(a, r)
  PROVE  Keeps
<1> DEFINE P == PendingWithToken(a.ep, a.req.tok)
           s == list[First(P)]
<1>1. CASE SendResp([a EXCEPT !.resp = r], "RESPONSE_SENT", list, ia)
  BY <1>1, OwnResponseKeeps, SelfBelow
<1>2. CASE SendResp([a EXCEPT !.resp = r], "RESPONSE_SENT",
                    Unlink(list, s), Freed(ia, s))
  <2> HIDE DEF s
  <2>1. /\ Unlink(list, s) \in Seq(Slots) /\ NoDup(Unlink(list, s))
        /\ Elems(Unlink(list, s)) = Elems(list) \ {s}
    BY UnlinkType, UnlinkElems DEF Base, Typing, ListInv
  <2>2. /\ Freed(ia, s) \in [Slots -> Interaction]
        /\ \A t \in Elems(list) \ {s} : Freed(ia, s)[t] = ia[t]
    <3>1. GoodHeap(Freed(ia, s))
      BY HeapFreed DEF Base, Typing
    <3>2. Elems(list) \subseteq Slots
      BY ElemsAreSlots DEF Base, Typing
    <3> QED BY <3>1, <3>2 DEF GoodHeap, Freed, Base, Typing
  <2>3. Below(Unlink(list, s), Freed(ia, s))
    BY <2>1, <2>2 DEF Below
  <2> QED BY <1>2, <2>3, OwnResponseKeeps
<1> QED BY <1>1, <1>2 DEF Deregister

LEMMA ServerWorkKeeps ==
  ASSUME TypeInv, ListInv, ServerWork
  PROVE  Keeps
<1> USE InvBase
<1> DEFINE a == Allocated(ia[Head1])
<1>1. ASSUME Handling
      PROVE  /\ Head1 \in Elems(list) /\ Head1 \in Slots
             /\ ia[Head1] \in Interaction /\ ia[Head1].req \in ReqMsg
             /\ a \in Interaction /\ a.resp \in RespMsg
             /\ SameKey(ia[Head1], a) /\ a.role = "SERVER"
             /\ ia[Head1].role = "SERVER"
  BY <1>1, TurnElem, AllocatedKey, AllocatedGood DEF Handling, Good
<1>2. CASE MethodNotAllowed
  <2>1. AllocRespMsg(ia[Head1].req, "ERROR", GetNextMid(mid)) \in RespMsg
    BY <1>1, <1>2, AllocRespMsgType, NextMidType, TypeInvTyping
    DEF MethodNotAllowed, RespCode
  <2> QED BY <1>1, <1>2, <2>1, SameKeyReflexive, OwnResponseKeeps, SelfBelow
          DEF MethodNotAllowed
<1>3. CASE RespAllocFails
  BY <1>3, SameListKeeps DEF RespAllocFails
<1>4. CASE PostponeWithAck
  <2> DEFINE b == [a EXCEPT !.reqRel = "ACK_SET",
                            !.st = "RESOURCE_POSTPONE_EMPTY_ACK_SENT",
                            !.sleep = now + POSTPONE_WAIT_TIME_SEK]
  <2>1. Handling /\ (Requeue(b) \/ Delete)
    BY <1>4 DEF PostponeWithAck
  <2>2. SameKey(ia[Head1], b)
    <3> HIDE DEF a
    <3> QED BY <1>1, <2>1 DEF SameKey, Interaction
  <2> HIDE DEF b
  <2> QED BY <1>1, <2>1, <2>2, RequeueKeeps, DeleteKeeps
<1>5. CASE PostponeAgain
  <2> DEFINE b == [a EXCEPT !.sleep = now + POSTPONE_WAIT_TIME_SEK]
  <2>1. Handling /\ Requeue(b)
    BY <1>5 DEF PostponeAgain
  <2>2. SameKey(ia[Head1], b)
    <3> HIDE DEF a
    <3> QED BY <1>1, <2>1 DEF SameKey, Interaction
  <2> HIDE DEF b
  <2> QED BY <1>1, <2>1, <2>2, RequeueKeeps
<1>6. ASSUME NEW code \in {"CONTENT", "ERROR"}, NEW type \in {"CON", "NON"},
             Answer(code, type)
      PROVE  Keeps
  <2> DEFINE r == AnswerMsg(a, code, type)
  <2>1. /\ Handling
        /\ \/ Register(a, r) \/ Deregister(a, r)
           \/ SendResp([a EXCEPT !.resp = r], "RESPONSE_SENT", list, ia)
    BY <1>6 DEF Answer
  <2>2. r \in RespMsg
    <3>1. a.resp \in RespMsg
      BY <1>1, <2>1
    <3> HIDE DEF a
    <3> QED BY <3>1, AnswerMsgType, TypeInvTyping DEF RespCode
  <2> HIDE DEF r
  <2>3. /\ Head1 \in Elems(list) /\ a \in Interaction
        /\ SameKey(ia[Head1], a) /\ a.role = "SERVER"
    BY <1>1, <2>1
  <2> HIDE DEF a
  <2> QED BY <2>1, <2>2, <2>3, RegisterKeeps, DeregisterKeeps,
             OwnResponseKeeps, SelfBelow
<1>7. CASE ResponseSent
  <2>1. Head1 \in Elems(list) /\ ia[Head1] \in Interaction
    BY <1>7, TurnElem DEF ResponseSent
  <2>2. Requeue(ia[Head1]) \/ ResendResp(ia[Head1]) \/ Delete
    BY <1>7 DEF ResponseSent
  <2> QED BY <2>1, <2>2, SameKeyReflexive, RequeueKeeps, ResendRespKeeps,
             DeleteKeeps
<1> QED BY <1>2, <1>3, <1>4, <1>5, <1>6, <1>7 DEF ServerWork

(***************************************************************************)
(* The notification role.                                                  *)
(***************************************************************************)
LEMMA RefreshedKey ==
  ASSUME NEW a \in Interaction, a.resp \in RespMsg, NEW code, NEW type,
         NEW obs \in ObserveOption(updateCnt[a.res])
  PROVE  /\ SameKey(a, Refreshed(a, code, type, obs))
         /\ SameKey(a, Restarted(Refreshed(a, code, type, obs)))
<1>1. MemMayFail \/ obs = updateCnt[a.res]
  BY DEF ObserveOption
<1> QED BY <1>1
        DEF SameKey, SameObservation, Refreshed, Restarted, Interaction, RespMsg

LEMMA NotifyWorkKeeps ==
  ASSUME TypeInv, ListInv, NotifyWork
  PROVE  Keeps
<1> USE InvBase
<1> DEFINE a == ia[Head1]
<1>1. Head1 \in Elems(list) /\ a \in Interaction /\ Good(a) /\ a.role = "NOTIFICATION"
  BY TurnElem, TurnType DEF NotifyWork, ReadyToNotify, NotificationSent, Base
<1>2. CASE ReadyToNotify
  BY <1>1, <1>2, SameKeyReflexive, SendRespKeeps, SelfBelow DEF ReadyToNotify
<1>3. CASE NotificationWaiting(a)
  BY <1>1, <1>3, SameKeyReflexive, RequeueKeeps DEF NotificationWaiting
<1>4. CASE NotificationRetry(a)
  <2>1. CASE ~a.upd
    BY <1>1, <1>4, <2>1, SameKeyReflexive, ResendRespKeeps DEF NotificationRetry
  <2>2. CASE a.upd
    <3>1. PICK code \in NotifierCodes, obs \in ObserveOption(updateCnt[a.res]) :
            ResendResp(Refreshed(a, code, a.resp.type, obs))
      BY <1>4, <2>2 DEF NotificationRetry
    <3> DEFINE b == Refreshed(a, code, a.resp.type, obs)
    <3>2. b \in Interaction
      <4>1. /\ code \in RespCode /\ a.resp.type \in MsgType /\ a.res \in Resources
        BY <1>1, NotifyAssumption DEF RespCode, Good, FitsRole, RespMsg
      <4>2. obs \in ObserveVal
        BY <4>1, ObserveOptionType
      <4> QED BY <1>1, <4>1, <4>2, RefreshedGood, TypeInvTyping DEF Good
    <3>3. SameKey(a, b) /\ ResendResp(b)
      <4>1. a.resp \in RespMsg
        BY <1>1 DEF Good, FitsRole
      <4> QED BY <1>1, <3>1, <4>1, RefreshedKey
    <3> HIDE DEF b
    <3> QED BY <1>1, <3>2, <3>3, ResendRespKeeps
  <2> QED BY <2>1, <2>2
<1>5. CASE NotificationDone(a)
  <2>1. CASE ~a.upd
    BY <1>5, <2>1, DeleteKeeps DEF NotificationDone
  <2>2. CASE a.upd
    <3>1. PICK code \in NotifierCodes, type \in NotifierTypes \cup {a.resp.type},
               obs \in ObserveOption(updateCnt[a.res]) :
            Requeue(Restarted(Refreshed(a, code, type, obs)))
      BY <1>5, <2>2 DEF NotificationDone
    <3> DEFINE b == Restarted(Refreshed(a, code, type, obs))
    <3>2. SameKey(a, b) /\ Requeue(b)
      <4>1. a.resp \in RespMsg
        BY <1>1 DEF Good, FitsRole
      <4> QED BY <1>1, <3>1, <4>1, RefreshedKey
    <3> HIDE DEF b
    <3> QED BY <1>1, <3>2, RequeueKeeps
  <2> QED BY <2>1, <2>2
<1>6. CASE NotificationAborted(a)
  BY <1>6, DeleteKeeps DEF NotificationAborted
<1> QED BY <1>2, <1>3, <1>4, <1>5, <1>6 DEF NotifyWork, NotificationSent

(***************************************************************************)
(* The client role.                                                        *)
(***************************************************************************)
LEMMA RequesterWorkKeeps ==
  ASSUME TypeInv, ListInv, RequesterWork
  PROVE  Keeps
<1> USE InvBase
<1> DEFINE a == ia[Head1]
<1>0. /\ Head1 \in Elems(list) /\ Head1 \in Slots /\ a \in Interaction
      /\ a.req \in ReqMsg /\ a.role = "CLIENT"
  BY TurnElem, TurnType
  DEF RequesterWork, ReadyToRequest, WaitingResponse, HandleResponse, Base,
      Good, FitsRole
<1>1. CASE ReadyToRequest
  <2> DEFINE b == [a EXCEPT !.req.ts = now, !.st = "WAITING_RESPONSE",
                            !.ackTo = IF a.req.type = "CON"
                                        THEN AckDeadline(a.retrans) ELSE @]
  <2>1. SameKey(a, b)
    <3>1. /\ [a.req EXCEPT !.ts = now].mid = a.req.mid
          /\ [a.req EXCEPT !.ts = now].tok = a.req.tok
          /\ [a.req EXCEPT !.ts = now].obs = a.req.obs
      BY <1>0 DEF ReqMsg
    <3>2. /\ b.role = a.role /\ b.ep = a.ep /\ b.res = a.res
          /\ b.req = [a.req EXCEPT !.ts = now]
      BY <1>0 DEF Interaction
    <3> HIDE DEF b
    <3> QED BY <1>0, <3>1, <3>2 DEF SameKey
  <2>2. Requeue(b) \/ Delete
    BY <1>1 DEF ReadyToRequest
  <2> HIDE DEF b
  <2> QED BY <1>0, <2>1, <2>2, RequeueKeeps, DeleteKeeps
<1>2. CASE WaitingResponse
  <2> DEFINE b == [a EXCEPT !.req.ts = now, !.retrans = @ + 1,
                            !.ackTo = AckDeadline(a.retrans + 1)]
  <2>1. SameKey(a, b)
    <3>1. /\ [a.req EXCEPT !.ts = now].mid = a.req.mid
          /\ [a.req EXCEPT !.ts = now].tok = a.req.tok
          /\ [a.req EXCEPT !.ts = now].obs = a.req.obs
      BY <1>0 DEF ReqMsg
    <3>2. /\ b.role = a.role /\ b.ep = a.ep /\ b.res = a.res
          /\ b.req = [a.req EXCEPT !.ts = now]
      BY <1>0 DEF Interaction
    <3> HIDE DEF b
    <3> QED BY <1>0, <3>1, <3>2 DEF SameKey
  <2>2. \/ Requeue(a) \/ Delete
        \/ ia' = [ia EXCEPT ![Head1] = b] /\ list' = list
    BY <1>2 DEF WaitingResponse, ResendReq
  <2> HIDE DEF b
  <2> QED BY <1>0, <2>1, <2>2, SameKeyReflexive, RequeueKeeps, DeleteKeeps,
             UpdateKeeps
<1>3. CASE HandleResponse
  BY <1>3, DeleteKeeps DEF HandleResponse
<1> QED BY <1>1, <1>2, <1>3 DEF RequesterWork

(***************************************************************************)
(* Packets that are no request, the clock, and the notify loop when it     *)
(* starts no notification.                                                 *)
(***************************************************************************)
LEMMA AcknowledgedKey ==
  ASSUME NEW a \in Interaction, NEW p
  PROVE  /\ SameKey(a, WithReliability(a, "RST_SET"))
         /\ SameKey(a, Acknowledged(a, p))
<1>1. \A r : SameKey(a, WithReliability(a, r))
  BY DEF SameKey, SameObservation, WithReliability, Interaction
<1>2. CASE a.role = "CLIENT"
  BY <1>1, <1>2
  DEF SameKey, Acknowledged, WithReliability, WithResponse, Interaction
<1>3. CASE a.role # "CLIENT"
  BY <1>1, <1>3 DEF Acknowledged
<1> QED BY <1>1, <1>2, <1>3

LEMMA PacketKeeps ==
  ASSUME TypeInv, ListInv, NEW p \in PacketSet,
         \/ ReceivePing(p) \/ ReceiveIgnored(p) \/ ReceiveUnknownResource(p)
         \/ ReceiveBadOption(p) \/ ReceiveReset(p) \/ ReceiveAck(p)
         \/ ReceiveSeparate(p)
  PROVE  Keeps
<1> USE InvBase
<1>0. \A s \in Slots : ia[s] \in Interaction
  BY DEF Base, Typing, GoodHeap
<1>1. CASE \/ ReceivePing(p) \/ ReceiveIgnored(p) \/ ReceiveUnknownResource(p)
           \/ ReceiveBadOption(p)
  BY <1>1, SameListKeeps
  DEF ReceivePing, ReceiveIgnored, ReceiveUnknownResource, ReceiveBadOption,
      StateUnchanged
<1> DEFINE T == ReliabilityTargets(p.ep, p.mid)
           s == list[First(T)]
<1>2. T # {} => s \in Slots
  BY TargetIsSlot DEF Base
<1>3. CASE ReceiveReset(p)
  <2>1. list' = list /\ (\/ ia' = ia
                         \/ /\ T # {}
                            /\ ia' = [ia EXCEPT ![s] =
                                        WithReliability(ia[s], "RST_SET")])
    BY <1>3 DEF ReceiveReset, Apply
  <2> HIDE DEF s, T
  <2> QED BY <1>0, <1>2, <2>1, AcknowledgedKey, UpdateKeeps, SameListKeeps
<1>4. CASE ReceiveAck(p)
  <2>1. list' = list /\ (\/ ia' = ia
                         \/ /\ T # {}
                            /\ ia' = [ia EXCEPT ![s] = Acknowledged(ia[s], p)])
    BY <1>4 DEF ReceiveAck, Apply
  <2> HIDE DEF s, T
  <2> QED BY <1>0, <1>2, <2>1, AcknowledgedKey, UpdateKeeps, SameListKeeps
<1>5. CASE ReceiveSeparate(p)
  <2> DEFINE W == AwaitingToken(p.ep, p.tok)
             w == list[First(W)]
  <2>1. W # {} => w \in Slots /\ ia[w].role = "CLIENT"
    <3>1. W \subseteq 1..Len(list) /\ \A i \in W : ia[list[i]].role = "CLIENT"
      BY DEF AwaitingToken, Matching
    <3> HIDE DEF W
    <3>2. W # {} => First(W) \in W
      BY <3>1, FirstIsFirst DEF Base, Typing
    <3> QED BY <3>1, <3>2, FirstMatchIsSlot DEF Base, Typing
  <2>2. list' = list /\ (ia' = ia \/ (W # {} /\ SeparateAccepted(p, w)))
    BY <1>5 DEF ReceiveSeparate
  <2> HIDE DEF W, w
  <2>3. CASE ia' = ia
    BY <2>2, <2>3, SameListKeeps
  <2>4. CASE W # {} /\ SeparateAccepted(p, w)
    <3> DEFINE b == IF ia[w].st \in {"WAITING_RESPONSE", "HANDLE_RESPONSE"}
                      THEN WithResponse(ia[w], p) ELSE ia[w]
    <3>1. w \in Slots /\ ia[w] \in Interaction /\ ia[w].role = "CLIENT"
      BY <1>0, <2>1, <2>4
    <3>2. SameKey(ia[w], b) /\ SameKey(ia[w], [b EXCEPT !.respRel = "ACK_SET"])
      BY <3>1 DEF SameKey, WithResponse, Interaction
    <3>3. \/ ia' = [ia EXCEPT ![w] = [b EXCEPT !.respRel = "ACK_SET"]]
          \/ ia' = [ia EXCEPT ![w] = b]
      BY <2>4 DEF SeparateAccepted
    <3> HIDE DEF b
    <3> QED BY <2>2, <3>1, <3>2, <3>3, UpdateKeeps
  <2> QED BY <2>2, <2>3, <2>4
<1> QED BY <1>1, <1>3, <1>4, <1>5

LEMMA LoopKeeps ==
  ASSUME TypeInv, ListInv,
         \/ FlagPending \/ NoRoomForNotification \/ NotificationDropped
         \/ \E type \in NotifierTypes : NotifierError(type)
  PROVE  Keeps
<1> USE InvBase
<1>1. CASE FlagPending
  <2> DEFINE P == PendingNotification(LoopRes, LoopObserver)
             s == list[First(P)]
  <2>1. P \subseteq 1..Len(list) /\ P # {}
    BY <1>1 DEF FlagPending, PendingNotification, Matching
  <2>2. s \in Slots
    <3> HIDE DEF P
    <3> QED BY <2>1, FirstMatchIsSlot DEF Base, Typing
  <2>3. ia' = [ia EXCEPT ![s] = [ia[s] EXCEPT !.upd = TRUE]] /\ list' = list
    BY <1>1 DEF FlagPending
  <2> HIDE DEF s
  <2>4. SameKey(ia[s], [ia[s] EXCEPT !.upd = TRUE])
    BY <2>2 DEF Base, Typing, GoodHeap, SameKey, SameObservation, Interaction
  <2> QED BY <2>2, <2>3, <2>4, UpdateKeeps
<1>2. CASE NoRoomForNotification \/ NotificationDropped
  BY <1>2, SameListKeeps DEF NoRoomForNotification, NotificationDropped
<1>3. ASSUME NEW type \in NotifierTypes, NotifierError(type)
      PROVE  Keeps
  <2>1. PICK s \in FreeSlots :
          ia' = [ia EXCEPT ![s] = NewNotification("ERROR", type, NoObserve)]
    BY <1>3 DEF NotifierError
  <2>2. list' = list
    BY <1>3 DEF NotifierError
  <2>3. s \in Slots /\ s \notin Elems(list)
    BY DEF FreeSlots, ListInv
  <2>4. \A t \in Elems(list) : ia'[t] = ia[t]
    BY <2>1, <2>3, ElemsAreSlots DEF Base, Typing, GoodHeap
  <2> QED BY <2>2, <2>4, SameKeyReflexive DEF ListInv, Keeps
<1> QED BY <1>1, <1>2, <1>3

(***************************************************************************)
(* The steps that add an interaction.                                      *)
(***************************************************************************)
LEMMA AppendAdds ==
  ASSUME Base, NEW s \in FreeSlots, NEW a, ia' = [ia EXCEPT ![s] = a],
         list' = Append(list, s)
  PROVE  Adds(s) /\ ia'[s] = a
<1>1. s \in Slots /\ s \notin Elems(list) /\ ia[s].role = "FREE"
  BY DEF FreeSlots, Base, ListInv
<1>2. NoDup(list') /\ Elems(list') = Elems(list) \cup {s}
  BY <1>1, AppendElems DEF Base, Typing, ListInv
<1>3. (\A t \in Elems(list) : ia'[t] = ia[t]) /\ ia'[s] = a
  BY <1>1, ElemsAreSlots DEF Base, Typing, GoodHeap
<1> QED BY <1>1, <1>2, <1>3, SameKeyReflexive DEF Adds

\* The duplicate search of CoAP_StartNewServerInteraction found nothing like
\* the request p.
AddsRequest(s, p) ==
  /\ Adds(s) /\ ia'[s].role = "SERVER"
  /\ ia'[s].ep = p.ep /\ ia'[s].res = p.res
  /\ ia'[s].req.tok = p.tok /\ ia'[s].req.obs = p.obs
  /\ \A t \in Elems(list) :
       ~(/\ ia[t].role = "SERVER" /\ ia[t].ep = ia'[s].ep
         /\ ia[t].req.mid = ia'[s].req.mid)

\* The search of CoAP_StartNotifyInteractions found nothing for the observer
\* the loop is at; the new notification is that observer's.
AddsNotification(s) ==
  /\ notifying # NoNotify /\ UNCHANGED observers
  /\ Adds(s) /\ ia'[s].role = "NOTIFICATION"
  /\ ia'[s].ep = LoopObserver.ep /\ ia'[s].res = LoopRes
  /\ ia'[s].req = NoReq /\ ia'[s].resp.tok = LoopObserver.tok
  /\ MemMayFail \/ ia'[s].resp.obs = updateCnt[LoopRes]
  /\ \A t \in Elems(list) :
       ~(/\ ia[t].role = "NOTIFICATION" /\ ia[t].ep = ia'[s].ep
         /\ ia[t].res = ia'[s].res)

AddsClient(s) == Servers # {} /\ Adds(s) /\ ia'[s].role = "CLIENT"

LEMMA ServerStarts ==
  ASSUME TypeInv, ListInv, NEW p \in PacketSet, StartNewServerInteraction(p)
  PROVE  Keeps \/ \E s \in Slots : AddsRequest(s, p)
<1> USE InvBase
<1>1. CASE DuplicateRequest(p) \/ NoRoomForRequest(p)
  BY <1>1, SameListKeeps DEF DuplicateRequest, NoRoomForRequest
<1>2. CASE NewServerInteraction(p)
  <2> DEFINE a == [NewInteraction EXCEPT !.role = "SERVER",
                      !.st = "HANDLE_REQUEST", !.ep = p.ep, !.res = p.res,
                      !.req = RequestOf(p)]
  <2>1. PICK s \in FreeSlots : ia' = [ia EXCEPT ![s] = a] /\ list' = Append(list, s)
    BY <1>2 DEF NewServerInteraction
  <2>2. /\ a.role = "SERVER" /\ a.ep = p.ep /\ a.res = p.res
        /\ a.req.mid = p.mid /\ a.req.tok = p.tok /\ a.req.obs = p.obs
    BY DEF NewInteraction, RequestOf
  <2> HIDE DEF a
  <2>3. Adds(s) /\ ia'[s] = a /\ s \in Slots
    BY <2>1, AppendAdds DEF FreeSlots
  <2>4. \A i \in 1..Len(list) :
          ~(/\ ia[list[i]].role = "SERVER" /\ ia[list[i]].ep = p.ep
            /\ ia[list[i]].req.mid = p.mid)
    BY <1>2 DEF NewServerInteraction, SameRequest, Matching
  <2> QED BY <2>2, <2>3, <2>4 DEF AddsRequest, Elems
<1> QED BY <1>1, <1>2 DEF StartNewServerInteraction

LEMMA NotificationStarts ==
  ASSUME TypeInv, ListInv, notifying # NoNotify, NEW type,
         StartNotification(type)
  PROVE  \E s \in Slots : AddsNotification(s)
<1> USE InvBase
<1>1. PICK s \in FreeSlots, obs \in ObserveOption(updateCnt[LoopRes]) :
        /\ ia' = [ia EXCEPT ![s] =
                    NewNotification("CONTENT", NotificationType(type), obs)]
        /\ list' = Append(list, s)
  BY DEF StartNotification
<1> DEFINE a == NewNotification("CONTENT", NotificationType(type), obs)
<1>2. /\ a.role = "NOTIFICATION" /\ a.ep = LoopObserver.ep /\ a.res = LoopRes
      /\ a.req = NoReq /\ a.resp.tok = LoopObserver.tok
      /\ MemMayFail \/ a.resp.obs = updateCnt[LoopRes]
  <2>1. MemMayFail \/ obs = updateCnt[LoopRes]
    BY DEF ObserveOption
  <2> QED BY <2>1 DEF NewNotification, NewInteraction
<1>3. Adds(s) /\ ia'[s] = a /\ s \in Slots
  <2> HIDE DEF a
  <2>1. ia' = [ia EXCEPT ![s] = a] /\ list' = Append(list, s)
    BY <1>1 DEF a
  <2> QED BY <2>1, AppendAdds DEF FreeSlots
<1>4. \A i \in 1..Len(list) :
        ~(/\ ia[list[i]].role = "NOTIFICATION" /\ ia[list[i]].res = LoopRes
          /\ ia[list[i]].ep = LoopObserver.ep)
  BY DEF StartNotification, PendingNotification, Matching
<1>5. UNCHANGED observers
  BY DEF StartNotification
<1> HIDE DEF a
<1> QED BY <1>2, <1>3, <1>4, <1>5 DEF AddsNotification, Elems

LEMMA RequestStarts ==
  ASSUME TypeInv, ListInv, NEW ep \in Servers, StartNewGetRequest(ep)
  PROVE  Keeps \/ \E s \in Slots : AddsClient(s)
<1> USE InvBase
<1> DEFINE a == [NewInteraction EXCEPT !.role = "CLIENT",
                   !.st = "READY_TO_REQUEST", !.ep = ep, !.req = GetRequest]
<1>1. a.role = "CLIENT"
  BY DEF NewInteraction
<1>2. \/ ia' = ia /\ list' = list
      \/ \E s \in FreeSlots : ia' = [ia EXCEPT ![s] = a] /\ list' = Append(list, s)
  BY DEF StartNewGetRequest
<1> HIDE DEF a
<1>3. ASSUME NEW s \in FreeSlots, ia' = [ia EXCEPT ![s] = a],
             list' = Append(list, s)
      PROVE  s \in Slots /\ AddsClient(s)
  BY <1>1, <1>3, AppendAdds DEF AddsClient, FreeSlots
<1> QED BY <1>2, <1>3, SameListKeeps

(***************************************************************************)
(* The stack: each step keeps, or adds one interaction.                    *)
(***************************************************************************)
AddsOne ==
  \E s \in Slots :
    \/ \E p \in Packets : IsRequest(p) /\ AddsRequest(s, p)
    \/ AddsNotification(s) \/ AddsClient(s)

LEMMA KeepsOrAdds ==
  ASSUME TypeInv, ListInv, [Next]_vars
  PROVE  Keeps \/ AddsOne
<1> USE InvBase
<1>1. CASE onNewPacketHandler
  <2>1. PICK p \in Packets :
         \/ ReceivePing(p) \/ ReceiveIgnored(p) \/ ReceiveUnknownResource(p)
         \/ ReceiveBadOption(p) \/ ReceiveReset(p) \/ ReceiveAck(p)
         \/ ReceiveRequest(p) \/ ReceiveSeparate(p)
    BY <1>1 DEF onNewPacketHandler
  <2>2. p \in PacketSet
    BY MainAssumption
  <2>3. CASE ReceiveRequest(p)
    BY <2>2, <2>3, ServerStarts DEF ReceiveRequest, AddsOne
  <2> QED BY <2>1, <2>2, <2>3, PacketKeeps
<1>2. CASE doWork
  <2>1. CASE StillSleeping
    BY <2>1, HeadIsElem, SameKeyReflexive, RequeueKeeps
    DEF StillSleeping, Base, Typing
  <2> QED BY <1>2, <2>1, ServerWorkKeeps, NotifyWorkKeeps, RequesterWorkKeeps
          DEF doWork
<1>3. ASSUME NEW r \in Changing, NotifyResourceObservers(r)
      PROVE  Keeps
  BY <1>3, SameListKeeps DEF NotifyResourceObservers
<1>4. CASE StartNotifyInteractions
  BY <1>4, LoopKeeps, NotificationStarts DEF StartNotifyInteractions, AddsOne
<1>5. ASSUME NEW ep \in Servers, StartNewGetRequest(ep)
      PROVE  Keeps \/ AddsOne
  BY <1>5, RequestStarts DEF AddsOne
<1>6. CASE Tick \/ UNCHANGED vars
  BY <1>6, SameListKeeps DEF Tick, vars
<1> QED BY <1>1, <1>2, <1>3, <1>4, <1>5, <1>6 DEF Next

(***************************************************************************)
(* The invariant: a sound list, no two interactions of one request, no two *)
(* notifications of one observer.                                          *)
(***************************************************************************)
UniqueInv ==
  ListInv /\ OneInteractionPerRequest /\ OneNotificationPerObserver

LEMMA InitUnique == Init => UniqueInv
<1> SUFFICES ASSUME Init PROVE UniqueInv
  OBVIOUS
<1>1. Elems(list) = {} /\ NoDup(list)
  BY DEF Init, Elems, NoDup
<1> QED BY <1>1, LinkedIsElems
        DEF UniqueInv, ListInv, OneInteractionPerRequest,
            OneNotificationPerObserver

LEMMA LinkedIsElemsNext ==
  ASSUME TRUE
  PROVE  Linked' = Elems(list')
BY DEF Linked, Elems

LEMMA KeepsUnique ==
  ASSUME UniqueInv, Keeps
  PROVE  UniqueInv'
<1>1. ListInv'
  BY DEF UniqueInv, ListInv, Keeps, SameKey
<1>2. OneInteractionPerRequest' /\ OneNotificationPerObserver'
  BY LinkedIsElems, LinkedIsElemsNext
  DEF UniqueInv, Keeps, SameKey, OneInteractionPerRequest,
      OneNotificationPerObserver
<1> QED BY <1>1, <1>2 DEF UniqueInv

LEMMA AddsOneUnique ==
  ASSUME UniqueInv, AddsOne
  PROVE  UniqueInv'
<1>1. PICK t \in Slots : \/ \E p : AddsRequest(t, p)
                         \/ AddsNotification(t) \/ AddsClient(t)
  BY DEF AddsOne
<1>2. Adds(t) /\ ia'[t].role \in {"SERVER", "NOTIFICATION", "CLIENT"}
  BY <1>1 DEF AddsRequest, AddsNotification, AddsClient
<1>3. ListInv'
  BY <1>2 DEF UniqueInv, ListInv, Adds, SameKey
<1>4. OneInteractionPerRequest'
  BY <1>1, LinkedIsElems, LinkedIsElemsNext
  DEF UniqueInv, Adds, AddsRequest, AddsNotification, AddsClient, SameKey,
      OneInteractionPerRequest
<1>5. OneNotificationPerObserver'
  BY <1>1, LinkedIsElems, LinkedIsElemsNext
  DEF UniqueInv, Adds, AddsRequest, AddsNotification, AddsClient, SameKey,
      OneNotificationPerObserver
<1> QED BY <1>3, <1>4, <1>5 DEF UniqueInv

LEMMA NextUnique ==
  ASSUME TypeInv, UniqueInv, [Next]_vars
  PROVE  UniqueInv'
BY KeepsOrAdds, KeepsUnique, AddsOneUnique DEF UniqueInv

\* UniqueInv is an invariant of the stack.
THEOREM UniqueInvariant == Spec => []UniqueInv
BY InitUnique, NextUnique, TypeInvariant, PTL DEF Spec

\* The linked list of interactions stays sound: unlinking, moving to the end
\* and freeing never leave a block in it twice or a freed one in it.
THEOREM ListCorrect == Spec => []ListOK
<1>1. UniqueInv => ListOK
  BY ListInvIsListOK DEF UniqueInv
<1> QED BY <1>1, UniqueInvariant, PTL

\* The duplicate detection of CoAP_StartNewServerInteraction suffices: however
\* often a request arrives, at most one interaction works on it.
THEOREM RequestsUnique == Spec => []OneInteractionPerRequest
<1>1. UniqueInv => OneInteractionPerRequest
  BY DEF UniqueInv
<1> QED BY <1>1, UniqueInvariant, PTL

\* The search of CoAP_StartNotifyInteractions suffices: no observer ever has
\* two notifications of one resource under way.
THEOREM NotificationsUnique == Spec => []OneNotificationPerObserver
<1>1. UniqueInv => OneNotificationPerObserver
  BY DEF UniqueInv
<1> QED BY <1>1, UniqueInvariant, PTL

(***************************************************************************)
(* Message IDs.  Every message of our own draws its ID from the counter of *)
(* CoAP_GetNextMid and keeps it until it is refreshed, so two of them can  *)
(* only clash when the counter comes round to an ID that is still in use   *)
(* (NextMidIsFree says it does not).                                       *)
(*                                                                         *)
(* The argument: a step gives a new ID to one interaction at most, and     *)
(* that ID is the counter's next value, which the step then draws; and a   *)
(* confirmable message that leaves carries either that value or the ID of  *)
(* the head of the list (MidSteps, Sends).                                 *)
(***************************************************************************)
NextMidIsFree ==
  \A s \in Linked : UsesOwnMid(ia[s]) => OwnMid(ia[s]) # GetNextMid(mid)

\* The response a request got at its handler's first visit: it is allocated
\* only for a method the resource allows, with the type of CoAP_AllocRespMsg;
\* requests of our own are confirmable, and their response is attached last.
Fitting(a) ==
  /\ a.role = "SERVER" /\ a.st # "RESPONSE_SENT" /\ a.resp # NoResp =>
       /\ Allowed(a)
       /\ a.resp.type = IF a.req.type = "CON" THEN "ACK" ELSE "NON"
  /\ a.role = "CLIENT" =>
       a.req.type = "CON" /\ (a.resp # NoResp => a.st = "HANDLE_RESPONSE")
  /\ a.st = "WAITING_RESPONSE" => a.role = "CLIENT"

FitInv == \A s \in Slots : Fitting(ia[s])

\* What a step may do to the message ID an interaction uses.
MidKept(a, b) ==
  UsesOwnMid(b) => UsesOwnMid(a) /\ OwnMid(b) = OwnMid(a)

MidDrawn(b) ==
  DrawMid /\ (UsesOwnMid(b) => OwnMid(b) = GetNextMid(mid))

MidStep(a, b) == Fitting(b) /\ (MidKept(a, b) \/ MidDrawn(b))

MidSteps ==
  \E d : \A s \in Slots :
    /\ Fitting(ia'[s])
    /\ MidKept(ia[s], ia'[s]) \/ (s = d /\ MidDrawn(ia'[s]))

\* The head may still send its message: it is not in flight and answered.
MaySend(a) == ~(InFlight(a) /\ Answered(a))

Sends ==
  tx'.type = "CON" =>
    \/ tx'.mid = GetNextMid(mid)
    \/ /\ Head1 \in Linked /\ UsesOwnMid(ia[Head1])
       /\ tx'.mid = OwnMid(ia[Head1]) /\ MaySend(ia[Head1])

-----------------------------------------------------------------------------
LEMMA EmptyFits == Fitting(NewInteraction) /\ ~UsesOwnMid(NewInteraction)
BY DEF Fitting, NewInteraction, UsesOwnMid

LEMMA KeptReflexive == \A a : MidKept(a, a)
BY DEF MidKept

\* A heap in which nothing happened but that blocks were freed.
Thinned(h) ==
  /\ h \in [Slots -> Interaction]
  /\ \A t \in Slots : h[t] = ia[t] \/ h[t] = NewInteraction

LEMMA SelfThinned ==
  ASSUME Base
  PROVE  Thinned(ia)
BY DEF Base, Typing, GoodHeap, Thinned

LEMMA FreedThinned ==
  ASSUME NEW h, Thinned(h), NEW s
  PROVE  Thinned(Freed(h, s))
<1>1. NewInteraction \in Interaction
  BY EmptyBlock DEF Good
<1>2. Freed(h, s) \in [Slots -> Interaction]
  BY <1>1 DEF Thinned, Freed
<1> QED BY <1>2 DEF Thinned, Freed

LEMMA ThinnedMids ==
  ASSUME FitInv, NEW h, Thinned(h), ia' = h
  PROVE  MidSteps
<1>1. \A s \in Slots : Fitting(h[s]) /\ MidKept(ia[s], h[s])
  BY EmptyFits, KeptReflexive DEF FitInv, Thinned, MidKept
<1> QED BY <1>1 DEF MidSteps

LEMMA SetMids ==
  ASSUME FitInv, NEW h, Thinned(h), NEW d \in Slots, NEW b, MidStep(ia[d], b),
         ia' = [h EXCEPT ![d] = b]
  PROVE  MidSteps
<1>1. \A s \in Slots : Fitting(h[s]) /\ MidKept(ia[s], h[s])
  BY EmptyFits, KeptReflexive DEF FitInv, Thinned, MidKept
<1>2. ia'[d] = b /\ \A s \in Slots \ {d} : ia'[s] = h[s]
  BY DEF Thinned
<1>3. \A s \in Slots : Fitting(ia'[s])
  BY <1>1, <1>2 DEF MidStep
<1>4. \A s \in Slots :
        MidKept(ia[s], ia'[s]) \/ (s = d /\ MidDrawn(ia'[s]))
  BY <1>1, <1>2 DEF MidStep
<1> QED BY <1>3, <1>4 DEF MidSteps

LEMMA SameMids ==
  ASSUME Base, FitInv, ia' = ia
  PROVE  MidSteps
BY SelfThinned, ThinnedMids

LEMMA UpdateMids ==
  ASSUME Base, FitInv, NEW d \in Slots, NEW b, MidStep(ia[d], b),
         ia' = [ia EXCEPT ![d] = b]
  PROVE  MidSteps
BY SelfThinned, SetMids

LEMMA DeleteMids ==
  ASSUME Base, FitInv, Delete
  PROVE  MidSteps
BY SelfThinned, FreedThinned, ThinnedMids DEF Delete

LEMMA SilentSends ==
  ASSUME Silent
  PROVE  Sends
BY DEF Silent, NoDatagram, Sends

LEMMA ShortSends ==
  ASSUME NEW ep, NEW type, type # "CON", NEW code, NEW m, NEW tok,
         SendShort(ShortDatagram(ep, type, code, m, tok))
  PROVE  Sends
BY SilentSends DEF SendShort, ShortDatagram, Sends

\* The response of the head is sent.
LEMMA ResponseSends ==
  ASSUME Head1 \in Linked, NEW a, a.role \in {"SERVER", "NOTIFICATION"},
         MidKept(ia[Head1], a) \/ MidDrawn(a), MaySend(ia[Head1]),
         tx' = RespDatagram(a.ep, a.resp)
  PROVE  Sends
<1>1. tx'.type = a.resp.type /\ tx'.mid = a.resp.mid
  BY DEF RespDatagram
<1>2. a.resp.type = "CON" => UsesOwnMid(a)
  BY DEF UsesOwnMid
<1>3. OwnMid(a) = a.resp.mid
  BY DEF OwnMid
<1> QED BY <1>1, <1>2, <1>3 DEF Sends, MidKept, MidDrawn

LEMMA RespRefusedMids ==
  ASSUME FitInv, NEW a, NEW q, NEW h, Thinned(h), RespRefused(a, q, h)
  PROVE  MidSteps /\ Sends
<1>1. ia' = h \/ ia' = Freed(h, Head1)
  BY DEF RespRefused
<1>2. MidSteps
  BY <1>1, FreedThinned, ThinnedMids
<1> QED BY <1>2, SilentSends DEF RespRefused

LEMMA TransmittedMids ==
  ASSUME NEW a, a \in Interaction, a.resp \in RespMsg, NEW next,
         a.role \in {"SERVER", "NOTIFICATION"},
         next \in {"RESPONSE_SENT", "NOTIFICATION_SENT"},
         a.role = "SERVER" => next = "RESPONSE_SENT"
  PROVE  /\ Fitting(Transmitted(a, next))
         /\ UsesOwnMid(Transmitted(a, next)) <=> UsesOwnMid(a)
         /\ OwnMid(Transmitted(a, next)) = OwnMid(a)
<1> DEFINE b == Transmitted(a, next)
<1>1. b.role = a.role /\ b.st = next
  BY DEF Transmitted, Interaction
<1>2. b.resp.type = a.resp.type /\ b.resp.mid = a.resp.mid
  BY DEF Transmitted, Interaction, RespMsg
<1> SUFFICES Fitting(b) /\ (UsesOwnMid(b) <=> UsesOwnMid(a))
               /\ OwnMid(b) = OwnMid(a)
  OBVIOUS
<1> HIDE DEF b
<1>3. Fitting(b)
  BY <1>1 DEF Fitting
<1>4. UsesOwnMid(b) <=> UsesOwnMid(a)
  BY <1>1, <1>2 DEF UsesOwnMid
<1>5. OwnMid(b) = OwnMid(a)
  BY <1>1, <1>2 DEF OwnMid
<1> QED BY <1>3, <1>4, <1>5

LEMMA SendRespMids ==
  ASSUME FitInv, Head1 \in Slots, Head1 \in Linked, MaySend(ia[Head1]),
         NEW a, a \in Interaction, a.resp \in RespMsg, NEW next,
         a.role \in {"SERVER", "NOTIFICATION"},
         next \in {"RESPONSE_SENT", "NOTIFICATION_SENT"},
         a.role = "SERVER" => next = "RESPONSE_SENT",
         MidKept(ia[Head1], a) \/ MidDrawn(a),
         NEW q, NEW h, Thinned(h), SendResp(a, next, q, h)
  PROVE  MidSteps /\ Sends
<1>1. CASE RespRefused(a, q, h)
  BY <1>1, RespRefusedMids
<1>2. ASSUME tx' = RespDatagram(a.ep, a.resp),
             ia' = [h EXCEPT ![Head1] = Transmitted(a, next)]
      PROVE  MidSteps /\ Sends
  <2>1. MidStep(ia[Head1], Transmitted(a, next))
    BY TransmittedMids DEF MidStep, MidKept, MidDrawn
  <2>2. MidSteps
    BY <1>2, <2>1, SetMids
  <2>3. Sends
    BY <1>2, ResponseSends
  <2> QED BY <2>2, <2>3
<1> QED BY <1>1, <1>2 DEF SendResp

LEMMA ResendRespMids ==
  ASSUME Base, FitInv, Head1 \in Slots, Head1 \in Linked, MaySend(ia[Head1]),
         NEW a, a \in Interaction, a.resp \in RespMsg,
         a.role \in {"SERVER", "NOTIFICATION"},
         a.st \in {"RESPONSE_SENT", "NOTIFICATION_SENT"},
         a.role = "SERVER" => a.st = "RESPONSE_SENT",
         MidKept(ia[Head1], a) \/ MidDrawn(a), ResendResp(a)
  PROVE  MidSteps /\ Sends
<1> DEFINE b == [a EXCEPT !.resp.ts = now, !.retrans = @ + 1,
                          !.ackTo = AckDeadline(a.retrans + 1)]
<1>1. CASE RespRefused(a, list, ia)
  BY <1>1, RespRefusedMids, SelfThinned
<1>2. ASSUME tx' = RespDatagram(a.ep, a.resp), ia' = [ia EXCEPT ![Head1] = b]
      PROVE  MidSteps /\ Sends
  <2>1. b.role = a.role /\ b.st = a.st /\ b.resp.type = a.resp.type
        /\ b.resp.mid = a.resp.mid
    BY DEF Interaction, RespMsg
  <2> HIDE DEF b
  <2>2. MidStep(ia[Head1], b)
    BY <2>1 DEF MidStep, MidKept, MidDrawn, Fitting, UsesOwnMid, OwnMid
  <2>3. MidSteps
    BY <1>2, <2>2, UpdateMids
  <2>4. Sends
    BY <1>2, ResponseSends
  <2> QED BY <2>3, <2>4
<1> QED BY <1>1, <1>2 DEF ResendResp

(***************************************************************************)
(* Message IDs: the server role.                                           *)
(***************************************************************************)
LEMMA TurnMids ==
  ASSUME Base, FitInv, NEW role, NEW states, Turn(role, states)
  PROVE  /\ Head1 \in Slots /\ Head1 \in Linked /\ Good(ia[Head1])
         /\ ia[Head1].role = role /\ ia[Head1].st \in states
         /\ Fitting(ia[Head1])
BY TurnElem, TurnType, LinkedIsElems DEF Base, FitInv

LEMMA RequeueMids ==
  ASSUME Base, FitInv, Head1 \in Slots, NEW b, MidStep(ia[Head1], b), Requeue(b)
  PROVE  MidSteps
BY UpdateMids DEF Requeue

\* The ID of response r: the request's, a new one, or the one in use.
FitMid(r) ==
  \/ r.type = "ACK"
  \/ DrawMid /\ r.mid = GetNextMid(mid)
  \/ UsesOwnMid(ia[Head1]) /\ r.mid = OwnMid(ia[Head1])

Answering(a) ==
  /\ Head1 \in Slots /\ Head1 \in Linked /\ MaySend(ia[Head1])
  /\ a \in Interaction /\ a.role = "SERVER"

LEMMA OwnResponseMids ==
  ASSUME FitInv, NEW a, Answering(a), NEW r \in RespMsg, FitMid(r),
         NEW q, NEW h, Thinned(h),
         SendResp([a EXCEPT !.resp = r], "RESPONSE_SENT", q, h)
  PROVE  MidSteps /\ Sends
<1> DEFINE b == [a EXCEPT !.resp = r]
<1>1. b \in Interaction /\ b.role = "SERVER" /\ b.resp = r
  BY DEF Interaction, Answering
<1>2. SendResp(b, "RESPONSE_SENT", q, h)
  OBVIOUS
<1> HIDE DEF b
<1>3. OwnMid(b) = r.mid /\ (UsesOwnMid(b) => r.type \in {"CON", "NON"})
  BY <1>1 DEF OwnMid, UsesOwnMid
<1>4. MidKept(ia[Head1], b) \/ MidDrawn(b)
  BY <1>3 DEF MidKept, MidDrawn, FitMid
<1> QED BY <1>1, <1>2, <1>4, SendRespMids DEF Answering

LEMMA RegisterMids ==
  ASSUME Base, FitInv, NEW a, Answering(a), NEW r \in RespMsg, FitMid(r),
         Register(a, r)
  PROVE  MidSteps /\ Sends
<1>1. ASSUME NEW obs \in ObserveOption(0),
             SendResp([a EXCEPT !.resp = [r EXCEPT !.obs = obs]],
                      "RESPONSE_SENT", list, ia)
      PROVE  MidSteps /\ Sends
  <2> DEFINE m == [r EXCEPT !.obs = obs]
  <2>1. m \in RespMsg /\ m.type = r.type /\ m.mid = r.mid
    BY DEF RespMsg, ObserveVal, ObserveOption, NoObserve
  <2>2. SendResp([a EXCEPT !.resp = m], "RESPONSE_SENT", list, ia)
    BY <1>1
  <2> HIDE DEF m
  <2>3. FitMid(m)
    BY <2>1 DEF FitMid
  <2> QED BY <2>1, <2>2, <2>3, OwnResponseMids, SelfThinned
<1>2. CASE SendResp([a EXCEPT !.resp = r], "RESPONSE_SENT", list, ia)
  BY <1>2, OwnResponseMids, SelfThinned
<1> QED BY <1>1, <1>2 DEF Register

LEMMA DeregisterMids ==
  ASSUME Base, FitInv, NEW a, Answering(a), NEW r \in RespMsg, FitMid(r),
         Deregister(a, r)
  PROVE  MidSteps /\ Sends
<1> DEFINE s == list[First(PendingWithToken(a.ep, a.req.tok))]
<1>1. \/ SendResp([a EXCEPT !.resp = r], "RESPONSE_SENT", list, ia)
      \/ SendResp([a EXCEPT !.resp = r], "RESPONSE_SENT",
                  Unlink(list, s), Freed(ia, s))
  BY DEF Deregister
<1> HIDE DEF s
<1>2. Thinned(ia) /\ Thinned(Freed(ia, s))
  BY SelfThinned, FreedThinned
<1> QED BY <1>1, <1>2, OwnResponseMids

\* The response of a request that is being handled.
LEMMA AllocatedMid ==
  ASSUME NEW a, a \in Interaction, Fitting(a), a.role = "SERVER",
         a.st # "RESPONSE_SENT", a.req \in ReqMsg
  PROVE  LET b == Allocated(a) IN
         /\ b.role = a.role /\ b.req = a.req /\ b.res = a.res /\ b.st = a.st
         /\ b.resp.type = IF a.req.type = "CON" THEN "ACK" ELSE "NON"
         /\ a.req.type # "CON" =>
              \/ a.resp = NoResp /\ b.resp.mid = GetNextMid(mid)
              \/ a.resp # NoResp /\ b.resp.mid = a.resp.mid
<1>1. CASE a.resp = NoResp
  <2> DEFINE m == AllocRespMsg(a.req, "EMPTY", GetNextMid(mid))
  <2>1. /\ m.type = IF a.req.type = "CON" THEN "ACK" ELSE "NON"
        /\ a.req.type # "CON" => m.mid = GetNextMid(mid)
    BY DEF AllocRespMsg
  <2>2. Allocated(a) = [a EXCEPT !.resp = m]
    BY <1>1 DEF Allocated
  <2> HIDE DEF m
  <2> QED BY <1>1, <2>1, <2>2 DEF Interaction
<1>2. CASE a.resp # NoResp
  BY <1>2 DEF Allocated, Fitting
<1> QED BY <1>1, <1>2

LEMMA HandlingMids ==
  ASSUME Base, FitInv, Handling
  PROVE  LET a == Allocated(ia[Head1]) IN
         /\ Answering(ia[Head1]) /\ ia[Head1].st # "RESPONSE_SENT"
         /\ ia[Head1].st # "WAITING_RESPONSE"
         /\ Fitting(ia[Head1]) /\ ia[Head1].req \in ReqMsg
         /\ a.resp.type = IF a.req.type = "CON" THEN "ACK" ELSE "NON"
         /\ a.role = "SERVER" /\ a.st = ia[Head1].st
         /\ a.req = ia[Head1].req /\ a.res = ia[Head1].res
         /\ AllocDraws(ia[Head1]) => FitMid(a.resp)
<1> DEFINE a == Allocated(ia[Head1])
<1>1. /\ Head1 \in Slots /\ Head1 \in Linked /\ ia[Head1] \in Interaction
      /\ ia[Head1].role = "SERVER" /\ Fitting(ia[Head1])
      /\ ia[Head1].st \in {"HANDLE_REQUEST", "RESOURCE_POSTPONE_EMPTY_ACK_SENT"}
      /\ ia[Head1].req \in ReqMsg
  BY TurnMids DEF Handling, Good, FitsRole
<1>2. MaySend(ia[Head1])
  BY <1>1 DEF MaySend, InFlight
<1>3. /\ a.role = "SERVER" /\ a.req = ia[Head1].req /\ a.res = ia[Head1].res
      /\ a.st = ia[Head1].st
      /\ a.resp.type = IF a.req.type = "CON" THEN "ACK" ELSE "NON"
      /\ a.req.type # "CON" =>
           \/ ia[Head1].resp = NoResp /\ a.resp.mid = GetNextMid(mid)
           \/ ia[Head1].resp # NoResp /\ a.resp.mid = ia[Head1].resp.mid
  BY <1>1, AllocatedMid
<1>4. ASSUME AllocDraws(ia[Head1]) PROVE FitMid(a.resp)
  <2> HIDE DEF a
  <2>1. CASE a.req.type = "CON"
    BY <1>3, <2>1 DEF FitMid
  <2>2. CASE a.req.type # "CON" /\ ia[Head1].resp = NoResp
    <3>1. a.req.type = "NON"
      BY <1>1, <1>3, <2>2 DEF ReqMsg
    <3> QED BY <1>3, <1>4, <2>2, <3>1 DEF AllocDraws, FitMid
  <2>3. CASE a.req.type # "CON" /\ ia[Head1].resp # NoResp
    <3>1. ia[Head1].resp.type = "NON"
      BY <1>1, <1>3, <2>3 DEF Fitting
    <3>2. UsesOwnMid(ia[Head1]) /\ OwnMid(ia[Head1]) = ia[Head1].resp.mid
      BY <1>1, <3>1 DEF UsesOwnMid, OwnMid
    <3> QED BY <1>3, <2>3, <3>2 DEF FitMid
  <2> QED BY <2>1, <2>2, <2>3
<1> HIDE DEF a
<1> QED BY <1>1, <1>2, <1>3, <1>4 DEF a, Answering

\* An interaction that waits for its handler keeps, or gets, its message ID.
LEMMA PostponedMids ==
  ASSUME Base, FitInv, Handling, Allowed(Allocated(ia[Head1])),
         AllocDraws(ia[Head1]), NEW b,
         LET a == Allocated(ia[Head1]) IN
         /\ b.role = a.role /\ b.req = a.req /\ b.res = a.res
         /\ b.resp = a.resp /\ b.st # "WAITING_RESPONSE"
  PROVE  MidStep(ia[Head1], b)
<1> DEFINE a == Allocated(ia[Head1])
<1>1. /\ ia[Head1].role = "SERVER"
      /\ a.resp.type = IF a.req.type = "CON" THEN "ACK" ELSE "NON"
      /\ a.role = "SERVER" /\ FitMid(a.resp)
  BY HandlingMids DEF Answering
<1>2. /\ b.role = "SERVER" /\ b.req = a.req /\ b.res = a.res
      /\ b.resp = a.resp /\ b.st # "WAITING_RESPONSE" /\ Allowed(a)
  BY <1>1
<1> HIDE DEF a
<1>3. Fitting(b)
  BY <1>1, <1>2 DEF Fitting, Allowed
<1>4. OwnMid(b) = a.resp.mid /\ (UsesOwnMid(b) => a.resp.type # "ACK")
  BY <1>2 DEF OwnMid, UsesOwnMid
<1>5. MidKept(ia[Head1], b) \/ MidDrawn(b)
  BY <1>1, <1>4 DEF FitMid, MidKept, MidDrawn
<1> QED BY <1>3, <1>5 DEF MidStep

LEMMA AnswerMids ==
  ASSUME TypeInv, Base, FitInv, NEW code \in {"CONTENT", "ERROR"},
         NEW type \in {"CON", "NON"}, Answer(code, type)
  PROVE  MidSteps /\ Sends
<1> DEFINE a == Allocated(ia[Head1])
           r == AnswerMsg(a, code, type)
<1>1. /\ Handling
      /\ IF IsSeparate(a) THEN DrawMid ELSE AllocDraws(ia[Head1])
      /\ \/ Register(a, r) \/ Deregister(a, r)
         \/ SendResp([a EXCEPT !.resp = r], "RESPONSE_SENT", list, ia)
  BY DEF Answer
<1>2. /\ Answering(ia[Head1]) /\ ia[Head1].st # "RESPONSE_SENT"
      /\ Fitting(ia[Head1]) /\ ia[Head1].req \in ReqMsg
      /\ a.resp.type = IF a.req.type = "CON" THEN "ACK" ELSE "NON"
      /\ a.role = "SERVER" /\ a.req = ia[Head1].req
      /\ AllocDraws(ia[Head1]) => FitMid(a.resp)
  BY <1>1, HandlingMids
<1>3. a \in Interaction /\ a.resp \in RespMsg
  BY <1>1, <1>2, TurnMids, AllocatedGood, TypeInvTyping DEF Good, Handling
<1>4. Answering(a)
  BY <1>2, <1>3 DEF Answering
<1> HIDE DEF a
<1>5. r \in RespMsg
  BY <1>3, AnswerMsgType, TypeInvTyping DEF RespCode
<1>6. FitMid(r)
  <2>1. CASE IsSeparate(a)
    <3>1. r.mid = GetNextMid(mid)
      BY <1>3, <2>1 DEF AnswerMsg, RespMsg
    <3> QED BY <1>1, <2>1, <3>1 DEF FitMid
  <2>2. CASE ~IsSeparate(a) /\ a.req.type = "CON"
    <3>1. r.type = "ACK"
      BY <1>3, <2>2 DEF AnswerMsg, RespMsg
    <3> QED BY <3>1 DEF FitMid
  <2>3. CASE ~IsSeparate(a) /\ a.req.type # "CON"
    <3>1. FitMid(a.resp) /\ a.resp.type = "NON"
      BY <1>1, <1>2, <2>3
    <3>2. r.mid = a.resp.mid
      BY <1>3, <2>3 DEF AnswerMsg, RespMsg
    <3> QED BY <3>1, <3>2 DEF FitMid
  <2> QED BY <2>1, <2>2, <2>3
<1> HIDE DEF r
<1> QED BY <1>1, <1>4, <1>5, <1>6, RegisterMids, DeregisterMids,
           OwnResponseMids, SelfThinned

\* A response is retransmitted only while no answer to it has come.
LEMMA RetryUnanswered ==
  ASSUME NEW a, a \in Interaction, a.role \in {"SERVER", "NOTIFICATION"},
         CheckRespStatus(a) = "RETRY"
  PROVE  MaySend(a)
<1>1. a.respRel \notin {"RST_SET", "ACK_SET"}
  BY DEF CheckRespStatus
<1>2. a.respRel = "NOT_SET"
  BY <1>1 DEF Interaction, Reliability
<1> QED BY <1>2 DEF MaySend, Answered

LEMMA ServerWorkMids ==
  ASSUME TypeInv, ListInv, FitInv, ServerWork
  PROVE  MidSteps /\ Sends
<1> USE InvBase
<1> DEFINE a == Allocated(ia[Head1])
<1>1. CASE MethodNotAllowed
  <2> DEFINE r == AllocRespMsg(ia[Head1].req, "ERROR", GetNextMid(mid))
  <2>1. /\ Handling /\ ~Allowed(ia[Head1]) /\ AllocDraws(ia[Head1])
        /\ SendResp([ia[Head1] EXCEPT !.resp = r], "RESPONSE_SENT", list, ia)
    BY <1>1 DEF MethodNotAllowed
  <2>2. /\ Answering(ia[Head1]) /\ ia[Head1].st # "RESPONSE_SENT"
        /\ Fitting(ia[Head1]) /\ ia[Head1].req \in ReqMsg
    BY <2>1, HandlingMids
  <2>3. ia[Head1].resp = NoResp
    BY <2>1, <2>2 DEF Fitting, Answering
  <2>4. FitMid(r)
    BY <2>1, <2>2, <2>3 DEF AllocDraws, AllocRespMsg, FitMid, ReqMsg
  <2>5. r \in RespMsg
    BY <2>2, AllocRespMsgType, NextMidType, TypeInvTyping DEF RespCode
  <2> HIDE DEF r
  <2> QED BY <2>1, <2>2, <2>4, <2>5, OwnResponseMids, SelfThinned
<1>2. CASE RespAllocFails
  BY <1>2, SameMids, SilentSends DEF RespAllocFails
<1>3. CASE PostponeWithAck
  <2> DEFINE b == [a EXCEPT !.reqRel = "ACK_SET",
                            !.st = "RESOURCE_POSTPONE_EMPTY_ACK_SENT",
                            !.sleep = now + POSTPONE_WAIT_TIME_SEK]
  <2>1. /\ Handling /\ Allowed(a) /\ a.req.type = "CON" /\ mid' = mid
        /\ \/ /\ tx' = ShortDatagram(a.ep, "ACK", "EMPTY", a.req.mid, 0)
              /\ Requeue(b)
           \/ Silent /\ Delete
    BY <1>3 DEF PostponeWithAck, CanStillAck
  <2>2. Head1 \in Slots /\ a \in Interaction /\ a.req = ia[Head1].req
    BY <2>1, HandlingMids, TurnMids, AllocatedGood, TypeInvTyping
    DEF Good, Handling, Answering
  <2>3. AllocDraws(ia[Head1])
    BY <2>1, <2>2 DEF AllocDraws
  <2>4. /\ b.role = a.role /\ b.req = a.req /\ b.res = a.res
        /\ b.resp = a.resp /\ b.st # "WAITING_RESPONSE"
    <3> HIDE DEF a
    <3> QED BY <2>2 DEF Interaction
  <2> HIDE DEF b
  <2>5. MidStep(ia[Head1], b)
    BY <2>1, <2>3, <2>4, PostponedMids
  <2>6. Sends
    BY <2>1, SilentSends, ShortSends DEF SendShort
  <2> HIDE DEF a
  <2> QED BY <2>1, <2>2, <2>5, <2>6, RequeueMids, DeleteMids
<1>4. CASE PostponeAgain
  <2> DEFINE b == [a EXCEPT !.sleep = now + POSTPONE_WAIT_TIME_SEK]
  <2>1. /\ Handling /\ Allowed(a) /\ AllocDraws(ia[Head1]) /\ Requeue(b)
        /\ Silent
    BY <1>4 DEF PostponeAgain
  <2>2. Head1 \in Slots /\ a \in Interaction /\ a.st # "WAITING_RESPONSE"
    BY <2>1, HandlingMids, TurnMids, AllocatedGood, TypeInvTyping
    DEF Good, Handling, Answering
  <2>3. /\ b.role = a.role /\ b.req = a.req /\ b.res = a.res
        /\ b.resp = a.resp /\ b.st # "WAITING_RESPONSE"
    <3> HIDE DEF a
    <3> QED BY <2>2 DEF Interaction
  <2> HIDE DEF b
  <2>4. MidStep(ia[Head1], b)
    BY <2>1, <2>3, PostponedMids
  <2> HIDE DEF a
  <2> QED BY <2>1, <2>2, <2>4, RequeueMids, SilentSends
<1>5. ASSUME NEW code \in {"CONTENT", "ERROR"}, NEW type \in {"CON", "NON"},
             Answer(code, type)
      PROVE  MidSteps /\ Sends
  BY <1>5, AnswerMids
<1>6. CASE ResponseSent
  <2>1. /\ Head1 \in Slots /\ Head1 \in Linked /\ Good(ia[Head1])
        /\ ia[Head1].role = "SERVER" /\ ia[Head1].st = "RESPONSE_SENT"
        /\ Fitting(ia[Head1])
    BY <1>6, TurnMids DEF ResponseSent
  <2>2. CASE Requeue(ia[Head1]) /\ Silent
    BY <2>1, <2>2, KeptReflexive, RequeueMids, SilentSends DEF MidStep
  <2>3. CASE CheckRespStatus(ia[Head1]) = "RETRY" /\ ResendResp(ia[Head1])
    <3>1. MaySend(ia[Head1])
      BY <2>1, <2>3, RetryUnanswered DEF Good
    <3>2. ia[Head1] \in Interaction /\ ia[Head1].resp \in RespMsg
      BY <2>1 DEF Good, FitsRole
    <3> QED BY <2>1, <2>3, <3>1, <3>2, KeptReflexive, ResendRespMids
  <2>4. CASE Delete /\ Silent
    BY <2>4, DeleteMids, SilentSends
  <2> QED BY <1>6, <2>2, <2>3, <2>4 DEF ResponseSent
<1> QED BY <1>1, <1>2, <1>3, <1>4, <1>5, <1>6 DEF ServerWork

(***************************************************************************)
(* Message IDs: the notification role and the client role.                 *)
(***************************************************************************)
LEMMA RefreshedMids ==
  ASSUME NEW a \in Interaction, a.role = "NOTIFICATION", a.resp \in RespMsg,
         NEW code, NEW type, NEW obs, NEW b,
         b \in {Refreshed(a, code, type, obs),
                Restarted(Refreshed(a, code, type, obs))}
  PROVE  /\ b.role = "NOTIFICATION" /\ OwnMid(b) = GetNextMid(mid)
         /\ b.st \in {a.st, "READY_TO_NOTIFY"}
<1> DEFINE m == [a.resp EXCEPT !.mid = GetNextMid(mid), !.code = code,
                               !.type = type, !.obs = obs]
           c == [a EXCEPT !.upd = FALSE, !.resp = m]
<1>1. Refreshed(a, code, type, obs) = c
  BY DEF Refreshed
<1>2. m.mid = GetNextMid(mid)
  BY DEF RespMsg
<1> HIDE DEF m
<1>3. c.resp = m /\ c.role = "NOTIFICATION" /\ c.st = a.st
  BY DEF Interaction
<1>4. /\ Restarted(c).role = "NOTIFICATION" /\ Restarted(c).resp = m
      /\ Restarted(c).st = "READY_TO_NOTIFY"
  BY <1>3 DEF Restarted, Interaction
<1> HIDE DEF c
<1> QED BY <1>1, <1>2, <1>3, <1>4 DEF OwnMid

LEMMA NotificationMidStep ==
  ASSUME NEW b, b.role = "NOTIFICATION", b.st # "WAITING_RESPONSE",
         OwnMid(b) = GetNextMid(mid), DrawMid
  PROVE  \A a : MidStep(a, b)
BY DEF MidStep, MidDrawn, Fitting

LEMMA NotifyWorkMids ==
  ASSUME TypeInv, ListInv, FitInv, NotifyWork
  PROVE  MidSteps /\ Sends
<1> USE InvBase
<1> DEFINE a == ia[Head1]
<1>1. /\ Head1 \in Slots /\ Head1 \in Linked /\ a \in Interaction
      /\ a.role = "NOTIFICATION" /\ a.resp \in RespMsg /\ Fitting(a)
      /\ a.st \in {"READY_TO_NOTIFY", "NOTIFICATION_SENT"}
  BY TurnMids DEF NotifyWork, ReadyToNotify, NotificationSent, Good, FitsRole
<1>2. CASE ReadyToNotify
  <2>1. a.st = "READY_TO_NOTIFY"
    BY <1>2, TurnMids DEF ReadyToNotify
  <2>2. MaySend(a)
    BY <2>1 DEF MaySend, InFlight
  <2> QED BY <1>1, <1>2, <2>2, KeptReflexive, SendRespMids, SelfThinned
          DEF ReadyToNotify
<1>3. CASE NotificationWaiting(a)
  BY <1>1, <1>3, KeptReflexive, RequeueMids, SilentSends
  DEF NotificationWaiting, MidStep
<1>4. CASE NotificationRetry(a) /\ a.st = "NOTIFICATION_SENT"
  <2>0. MaySend(a)
    BY <1>1, <1>4, RetryUnanswered DEF NotificationRetry
  <2>1. CASE ~a.upd
    BY <1>1, <1>4, <2>0, <2>1, KeptReflexive, ResendRespMids
    DEF NotificationRetry
  <2>2. CASE a.upd
    <3>1. PICK code \in NotifierCodes, obs \in ObserveOption(updateCnt[a.res]) :
            ResendResp(Refreshed(a, code, a.resp.type, obs))
      BY <1>4, <2>2 DEF NotificationRetry
    <3> DEFINE b == Refreshed(a, code, a.resp.type, obs)
    <3>2. DrawMid
      BY <1>4, <2>2 DEF NotificationRetry
    <3>3. b \in Interaction /\ b.resp \in RespMsg
      <4>1. /\ code \in RespCode /\ a.resp.type \in MsgType /\ a.res \in Resources
        BY <1>1, NotifyAssumption, TurnMids
        DEF RespCode, Good, FitsRole, RespMsg, NotifyWork, ReadyToNotify,
            NotificationSent
      <4>2. obs \in ObserveVal
        BY <4>1, ObserveOptionType
      <4>3. Good(a)
        BY TurnMids DEF NotifyWork, ReadyToNotify, NotificationSent
      <4> QED BY <1>1, <4>1, <4>2, <4>3, RefreshedGood, TypeInvTyping DEF Good
    <3>4. /\ b.role = "NOTIFICATION" /\ OwnMid(b) = GetNextMid(mid)
          /\ b.st = "NOTIFICATION_SENT" /\ ResendResp(b)
      <4>1. b.st = a.st
        BY <1>1 DEF Refreshed, Interaction
      <4>2. b.role = "NOTIFICATION" /\ OwnMid(b) = GetNextMid(mid)
        BY <1>1, RefreshedMids
      <4> QED BY <1>4, <3>1, <4>1, <4>2
    <3> HIDE DEF b
    <3>5. MidDrawn(b)
      BY <3>2, <3>4 DEF MidDrawn
    <3> QED BY <1>1, <2>0, <3>3, <3>4, <3>5, ResendRespMids
  <2> QED BY <2>1, <2>2
<1>5. CASE NotificationDone(a)
  <2>1. CASE ~a.upd
    BY <1>5, <2>1, DeleteMids, SilentSends DEF NotificationDone
  <2>2. CASE a.upd
    <3>1. PICK code \in NotifierCodes, type \in NotifierTypes \cup {a.resp.type},
               obs \in ObserveOption(updateCnt[a.res]) :
            Requeue(Restarted(Refreshed(a, code, type, obs)))
      BY <1>5, <2>2 DEF NotificationDone
    <3> DEFINE b == Restarted(Refreshed(a, code, type, obs))
    <3>2. DrawMid /\ Silent
      BY <1>5, <2>2 DEF NotificationDone
    <3>3. /\ b.role = "NOTIFICATION" /\ OwnMid(b) = GetNextMid(mid)
          /\ b.st # "WAITING_RESPONSE" /\ Requeue(b)
      BY <1>1, <3>1, RefreshedMids
    <3> HIDE DEF b
    <3>4. MidStep(a, b)
      BY <3>2, <3>3, NotificationMidStep
    <3> QED BY <1>1, <3>2, <3>3, <3>4, RequeueMids, SilentSends
  <2> QED BY <2>1, <2>2
<1>6. CASE NotificationAborted(a)
  BY <1>6, DeleteMids, SilentSends DEF NotificationAborted
<1>7. NotificationSent => a.st = "NOTIFICATION_SENT"
  BY TurnMids DEF NotificationSent
<1> QED BY <1>2, <1>3, <1>4, <1>5, <1>6, <1>7 DEF NotifyWork, NotificationSent

\* Another request, response state or waiting time leaves the ID alone.
LEMMA ClientMidStep ==
  ASSUME NEW a, NEW b, a.role = "CLIENT", b.role = "CLIENT",
         b.req.mid = a.req.mid, b.req.type = "CON",
         b.resp # NoResp => b.st = "HANDLE_RESPONSE"
  PROVE  MidStep(a, b)
BY DEF MidStep, MidKept, Fitting, UsesOwnMid, OwnMid

LEMMA RequestSends ==
  ASSUME Head1 \in Linked, ia[Head1].role = "CLIENT", MaySend(ia[Head1]),
         tx' = ReqDatagram(ia[Head1].ep, ia[Head1].req)
  PROVE  Sends
BY DEF Sends, ReqDatagram, UsesOwnMid, OwnMid

LEMMA RequesterWorkMids ==
  ASSUME TypeInv, ListInv, FitInv, RequesterWork
  PROVE  MidSteps /\ Sends
<1> USE InvBase
<1> DEFINE a == ia[Head1]
<1>1. /\ Head1 \in Slots /\ Head1 \in Linked /\ a \in Interaction
      /\ a.role = "CLIENT" /\ a.req \in ReqMsg /\ Fitting(a)
  BY TurnMids
  DEF RequesterWork, ReadyToRequest, WaitingResponse, HandleResponse, Good,
      FitsRole
<1>2. /\ a.req.type = "CON" /\ (a.resp # NoResp => a.st = "HANDLE_RESPONSE")
      /\ [a.req EXCEPT !.ts = now].mid = a.req.mid
      /\ [a.req EXCEPT !.ts = now].type = a.req.type
  BY <1>1 DEF Fitting, ReqMsg
<1>3. CASE ReadyToRequest
  <2> DEFINE b == [a EXCEPT !.req.ts = now, !.st = "WAITING_RESPONSE",
                            !.ackTo = IF a.req.type = "CON"
                                        THEN AckDeadline(a.retrans) ELSE @]
  <2>1. a.st = "READY_TO_REQUEST"
    BY <1>3, TurnMids DEF ReadyToRequest
  <2>2. /\ b.role = "CLIENT" /\ b.req = [a.req EXCEPT !.ts = now]
        /\ b.resp = a.resp
    BY <1>1 DEF Interaction
  <2>3. \/ tx' = ReqDatagram(a.ep, a.req) /\ Requeue(b)
        \/ Silent /\ Delete
    BY <1>3 DEF ReadyToRequest
  <2> HIDE DEF b
  <2>4. MidStep(a, b)
    <3>1. /\ b.req.mid = a.req.mid /\ b.req.type = "CON"
          /\ b.resp # NoResp => b.st = "HANDLE_RESPONSE"
      BY <1>2, <2>1, <2>2
    <3> QED BY <1>1, <2>2, <3>1, ClientMidStep
  <2>5. MaySend(a)
    BY <2>1 DEF MaySend, InFlight
  <2>6. Sends
    BY <1>1, <2>3, <2>5, RequestSends, SilentSends
  <2> QED BY <1>1, <2>3, <2>4, <2>6, RequeueMids, DeleteMids
<1>4. CASE WaitingResponse
  <2> DEFINE b == [a EXCEPT !.req.ts = now, !.retrans = @ + 1,
                            !.ackTo = AckDeadline(a.retrans + 1)]
  <2>1. a.st = "WAITING_RESPONSE"
    BY <1>4, TurnMids DEF WaitingResponse
  <2>2. /\ b.role = "CLIENT" /\ b.req = [a.req EXCEPT !.ts = now]
        /\ b.resp = a.resp
    BY <1>1 DEF Interaction
  <2>3. \/ Requeue(a) /\ Silent
        \/ Delete /\ Silent
        \/ /\ CheckReqStatus(a) = "RETRY" /\ tx' = ReqDatagram(a.ep, a.req)
           /\ ia' = [ia EXCEPT ![Head1] = b]
    BY <1>4 DEF WaitingResponse, ResendReq
  <2> HIDE DEF b
  <2>4. MidStep(a, b) /\ MidStep(a, a)
    <3>1. /\ b.req.mid = a.req.mid /\ b.req.type = "CON"
          /\ b.resp # NoResp => b.st = "HANDLE_RESPONSE"
      BY <1>2, <2>1, <2>2
    <3>2. MidStep(a, b)
      BY <1>1, <2>2, <3>1, ClientMidStep
    <3>3. MidStep(a, a)
      BY <1>1, KeptReflexive DEF MidStep
    <3> QED BY <3>2, <3>3
  <2>5. CASE (Requeue(a) \/ Delete) /\ Silent
    BY <1>1, <2>4, <2>5, RequeueMids, DeleteMids, SilentSends
  <2>6. CASE /\ CheckReqStatus(a) = "RETRY" /\ tx' = ReqDatagram(a.ep, a.req)
             /\ ia' = [ia EXCEPT ![Head1] = b]
    <3>1. a.reqRel \notin {"RST_SET", "ACK_SET"}
      BY <2>6 DEF CheckReqStatus
    <3>2. MaySend(a)
      BY <1>1, <1>2, <2>1, <3>1
      DEF MaySend, Answered, Interaction, Reliability
    <3>3. Sends
      BY <1>1, <2>6, <3>2, RequestSends
    <3> QED BY <1>1, <2>4, <2>6, <3>3, UpdateMids
  <2> QED BY <2>3, <2>5, <2>6
<1>5. CASE HandleResponse
  BY <1>5, DeleteMids, SilentSends DEF HandleResponse
<1> QED BY <1>3, <1>4, <1>5 DEF RequesterWork

(***************************************************************************)
(* Message IDs: packets, the notify loop, and new interactions.            *)
(***************************************************************************)
LEMMA ResponseAttachedMids ==
  ASSUME NEW a \in Interaction, NEW p, a.role = "CLIENT", Fitting(a)
  PROVE  MidStep(a, WithResponse(a, p))
<1> DEFINE b == WithResponse(a, p)
<1>1. b.role = "CLIENT" /\ b.req = a.req /\ b.st = "HANDLE_RESPONSE"
  BY DEF WithResponse, Interaction
<1>2. a.req.type = "CON"
  BY DEF Fitting
<1> HIDE DEF b
<1> QED BY <1>1, <1>2, ClientMidStep DEF b

LEMMA ReliabilityMids ==
  ASSUME NEW a \in Interaction, Fitting(a), NEW r
  PROVE  MidStep(a, WithReliability(a, r))
<1> DEFINE b == WithReliability(a, r)
<1>1. /\ b.role = a.role /\ b.req = a.req /\ b.resp = a.resp
      /\ b.st = a.st /\ b.res = a.res
  BY DEF WithReliability, Interaction
<1> HIDE DEF b
<1>2. Fitting(b)
  BY <1>1 DEF Fitting, Allowed
<1>3. MidKept(a, b)
  BY <1>1 DEF MidKept, UsesOwnMid, OwnMid
<1> QED BY <1>2, <1>3 DEF b, MidStep

LEMMA AcknowledgedMids ==
  ASSUME NEW a \in Interaction, Fitting(a), NEW p
  PROVE  MidStep(a, Acknowledged(a, p))
<1> DEFINE b == WithReliability(a, "ACK_SET")
<1>1. MidStep(a, b) /\ Fitting(b)
  BY ReliabilityMids DEF MidStep
<1>2. b \in Interaction /\ b.role = a.role /\ b.req = a.req
  BY DEF WithReliability, Interaction, Reliability
<1>3. \/ Acknowledged(a, p) = b
      \/ a.role = "CLIENT" /\ Acknowledged(a, p) = WithResponse(b, p)
  BY DEF Acknowledged
<1> HIDE DEF b
<1>4. ASSUME a.role = "CLIENT" PROVE MidStep(a, WithResponse(b, p))
  <2> DEFINE c == WithResponse(b, p)
  <2>1. c.role = "CLIENT" /\ c.req = a.req /\ c.st = "HANDLE_RESPONSE"
    BY <1>2, <1>4 DEF WithResponse, Interaction
  <2>2. a.req.type = "CON"
    BY <1>4 DEF Fitting
  <2> HIDE DEF c
  <2> QED BY <1>4, <2>1, <2>2, ClientMidStep DEF c
<1> QED BY <1>1, <1>3, <1>4

LEMMA PacketMids ==
  ASSUME TypeInv, ListInv, FitInv, NEW p \in PacketSet,
         \/ ReceivePing(p) \/ ReceiveIgnored(p) \/ ReceiveUnknownResource(p)
         \/ ReceiveBadOption(p) \/ ReceiveReset(p) \/ ReceiveAck(p)
         \/ ReceiveSeparate(p)
  PROVE  MidSteps /\ Sends
<1> USE InvBase
<1>0. \A s \in Slots : ia[s] \in Interaction /\ Fitting(ia[s])
  BY DEF Base, Typing, GoodHeap, FitInv
<1>1. CASE ReceivePing(p)
  BY <1>1, SameMids, ShortSends DEF ReceivePing, StateUnchanged
<1>2. CASE ReceiveIgnored(p)
  BY <1>2, SameMids, SilentSends DEF ReceiveIgnored, StateUnchanged
<1>3. CASE ReceiveUnknownResource(p)
  <2>1. Sends
    <3>1. \/ SendShort(ShortDatagram(p.ep, "ACK", "ERROR", p.mid, p.tok))
          \/ SendShort(ShortDatagram(p.ep, "NON", "ERROR", mid', p.tok))
      BY <1>3 DEF ReceiveUnknownResource
    <3> QED BY <3>1, ShortSends
  <2> QED BY <1>3, <2>1, SameMids DEF ReceiveUnknownResource, StateUnchanged
<1>4. CASE ReceiveBadOption(p)
  BY <1>4, SameMids, ShortSends DEF ReceiveBadOption, StateUnchanged
<1> DEFINE T == ReliabilityTargets(p.ep, p.mid)
           s == list[First(T)]
<1>5. T # {} => s \in Slots
  BY TargetIsSlot DEF Base
<1>6. CASE ReceiveReset(p)
  <2>1. Silent /\ (\/ ia' = ia
                   \/ /\ T # {}
                      /\ ia' = [ia EXCEPT ![s] =
                                  WithReliability(ia[s], "RST_SET")])
    BY <1>6 DEF ReceiveReset, Apply
  <2> HIDE DEF s, T
  <2>2. MidSteps
    BY <1>0, <1>5, <2>1, ReliabilityMids, UpdateMids, SameMids
  <2> QED BY <2>1, <2>2, SilentSends
<1>7. CASE ReceiveAck(p)
  <2>1. Silent /\ (\/ ia' = ia
                   \/ T # {} /\ ia' = [ia EXCEPT ![s] = Acknowledged(ia[s], p)])
    BY <1>7 DEF ReceiveAck, Apply
  <2> HIDE DEF s, T
  <2>2. MidSteps
    BY <1>0, <1>5, <2>1, AcknowledgedMids, UpdateMids, SameMids
  <2> QED BY <2>1, <2>2, SilentSends
<1>8. CASE ReceiveSeparate(p)
  <2> DEFINE W == AwaitingToken(p.ep, p.tok)
             w == list[First(W)]
  <2>1. W # {} => w \in Slots /\ ia[w].role = "CLIENT"
    <3>1. W \subseteq 1..Len(list) /\ \A i \in W : ia[list[i]].role = "CLIENT"
      BY DEF AwaitingToken, Matching
    <3> HIDE DEF W
    <3>2. W # {} => First(W) \in W
      BY <3>1, FirstIsFirst DEF Base, Typing
    <3> QED BY <3>1, <3>2, FirstMatchIsSlot DEF Base, Typing
  <2>2. \/ W # {} /\ SeparateAccepted(p, w)
        \/ /\ ia' = ia
           /\ SendShort(ShortDatagram(p.ep, "RST", "EMPTY", p.mid, p.tok))
    BY <1>8 DEF ReceiveSeparate
  <2> HIDE DEF W, w
  <2>3. CASE /\ ia' = ia
             /\ SendShort(ShortDatagram(p.ep, "RST", "EMPTY", p.mid, p.tok))
    BY <2>3, SameMids, ShortSends
  <2>4. CASE W # {} /\ SeparateAccepted(p, w)
    <3> DEFINE a == ia[w]
               b == IF a.st \in {"WAITING_RESPONSE", "HANDLE_RESPONSE"}
                      THEN WithResponse(a, p) ELSE a
               c == [b EXCEPT !.respRel = "ACK_SET"]
    <3>1. w \in Slots /\ a \in Interaction /\ a.role = "CLIENT" /\ Fitting(a)
      BY <1>0, <2>1, <2>4
    <3>2. MidStep(a, b)
      BY <3>1, ResponseAttachedMids, KeptReflexive DEF MidStep
    <3>3. MidStep(a, c)
      <4>1. /\ c.role = "CLIENT" /\ c.req = a.req
            /\ c.resp # NoResp => c.st = "HANDLE_RESPONSE"
        <5>1. b.role = "CLIENT" /\ b.req = a.req
          BY <3>1 DEF WithResponse, Interaction
        <5>2. b.resp # NoResp => b.st = "HANDLE_RESPONSE"
          BY <3>1, <3>2, <5>1 DEF MidStep, Fitting
        <5>3. c.role = b.role /\ c.req = b.req /\ c.resp = b.resp /\ c.st = b.st
          BY <3>1 DEF WithResponse, Interaction
        <5> HIDE DEF c, b
        <5> QED BY <5>1, <5>2, <5>3
      <4>2. a.req.type = "CON"
        BY <3>1 DEF Fitting
      <4> HIDE DEF c, b
      <4> QED BY <3>1, <4>1, <4>2, ClientMidStep
    <3>4. \/ /\ tx' = ShortDatagram(p.ep, "ACK", "EMPTY", p.mid, p.tok)
             /\ ia' = [ia EXCEPT ![w] = c]
          \/ Silent /\ ia' = [ia EXCEPT ![w] = b]
      BY <2>4 DEF SeparateAccepted
    <3> HIDE DEF b, c
    <3>5. Sends
      BY <3>4, ShortSends, SilentSends DEF SendShort
    <3>6. MidSteps
      BY <3>1, <3>2, <3>3, <3>4, UpdateMids
    <3> QED BY <3>5, <3>6
  <2> QED BY <2>2, <2>3, <2>4
<1> QED BY <1>1, <1>2, <1>3, <1>4, <1>6, <1>7, <1>8

LEMMA FreeMids ==
  ASSUME NEW s \in FreeSlots
  PROVE  s \in Slots /\ ~UsesOwnMid(ia[s])
BY DEF FreeSlots, UsesOwnMid

LEMMA NewNotificationMids ==
  ASSUME Base, FitInv, NEW s \in FreeSlots, NEW code, NEW type, NEW obs, DrawMid,
         ia' = [ia EXCEPT ![s] = NewNotification(code, type, obs)]
  PROVE  MidSteps
<1> DEFINE b == NewNotification(code, type, obs)
<1>1. /\ b.role = "NOTIFICATION" /\ b.st = "READY_TO_NOTIFY"
      /\ b.resp.mid = GetNextMid(mid)
  BY DEF NewNotification, NewInteraction
<1>2. ia' = [ia EXCEPT ![s] = b]
  OBVIOUS
<1> HIDE DEF b
<1>3. MidStep(ia[s], b)
  BY <1>1, NotificationMidStep DEF OwnMid
<1> QED BY <1>2, <1>3, FreeMids, UpdateMids

LEMMA LoopMids ==
  ASSUME TypeInv, ListInv, FitInv, StartNotifyInteractions
  PROVE  MidSteps /\ Sends
<1> USE InvBase
<1>0. Sends
  BY SilentSends DEF StartNotifyInteractions
<1>1. CASE FlagPending
  <2> DEFINE P == PendingNotification(LoopRes, LoopObserver)
             s == list[First(P)]
  <2>1. P \subseteq 1..Len(list) /\ P # {}
    BY <1>1 DEF FlagPending, PendingNotification, Matching
  <2>2. s \in Slots
    <3> HIDE DEF P
    <3> QED BY <2>1, FirstMatchIsSlot DEF Base, Typing
  <2> DEFINE b == [ia[s] EXCEPT !.upd = TRUE]
  <2>3. ia' = [ia EXCEPT ![s] = b]
    BY <1>1 DEF FlagPending
  <2> HIDE DEF s
  <2>4. ia[s] \in Interaction /\ Fitting(ia[s])
    BY <2>2 DEF Base, Typing, GoodHeap, FitInv
  <2>5. /\ b.role = ia[s].role /\ b.req = ia[s].req /\ b.resp = ia[s].resp
        /\ b.st = ia[s].st /\ b.res = ia[s].res
    BY <2>4 DEF Interaction
  <2> HIDE DEF b
  <2>6. MidStep(ia[s], b)
    BY <2>4, <2>5
    DEF MidStep, MidKept, Fitting, Allowed, UsesOwnMid, OwnMid
  <2> QED BY <1>0, <2>2, <2>3, <2>6, UpdateMids
<1>2. CASE NoRoomForNotification \/ NotificationDropped
  BY <1>0, <1>2, SameMids DEF NoRoomForNotification, NotificationDropped
<1>3. ASSUME NEW type, StartNotification(type) \/ NotifierError(type)
      PROVE  MidSteps
  <2>1. DrawMid /\ \E s \in FreeSlots : \E code, t, obs :
                     ia' = [ia EXCEPT ![s] = NewNotification(code, t, obs)]
    BY <1>3 DEF StartNotification, NotifierError
  <2> QED BY <2>1, NewNotificationMids
<1> QED BY <1>0, <1>1, <1>2, <1>3 DEF StartNotifyInteractions

LEMMA ServerStartMids ==
  ASSUME TypeInv, ListInv, FitInv, NEW p \in PacketSet,
         StartNewServerInteraction(p)
  PROVE  MidSteps /\ Sends
<1> USE InvBase
<1>1. CASE DuplicateRequest(p)
  <2> DEFINE a == ia[list[First(SameRequest(p))]]
  <2>1. \/ SendShort(ShortDatagram(a.ep, "ACK", "EMPTY", a.req.mid, 0))
        \/ Silent
    BY <1>1 DEF DuplicateRequest
  <2> HIDE DEF a
  <2> QED BY <1>1, <2>1, SameMids, ShortSends, SilentSends DEF DuplicateRequest
<1>2. CASE NoRoomForRequest(p)
  <2>1. \/ SendShort(ShortDatagram(p.ep, "ACK", "ERROR", p.mid, p.tok))
        \/ Silent
    BY <1>2 DEF NoRoomForRequest
  <2> QED BY <1>2, <2>1, SameMids, ShortSends, SilentSends DEF NoRoomForRequest
<1>3. CASE NewServerInteraction(p)
  <2> DEFINE b == [NewInteraction EXCEPT !.role = "SERVER",
                      !.st = "HANDLE_REQUEST", !.ep = p.ep, !.res = p.res,
                      !.req = RequestOf(p)]
  <2>1. PICK s \in FreeSlots : ia' = [ia EXCEPT ![s] = b]
    BY <1>3 DEF NewServerInteraction
  <2>2. b.role = "SERVER" /\ b.st = "HANDLE_REQUEST" /\ b.resp = NoResp
    BY DEF NewInteraction
  <2> HIDE DEF b
  <2>3. MidStep(ia[s], b)
    BY <2>2 DEF MidStep, MidKept, Fitting, UsesOwnMid, NoResp
  <2> QED BY <1>3, <2>1, <2>3, FreeMids, UpdateMids, SilentSends
          DEF NewServerInteraction
<1> QED BY <1>1, <1>2, <1>3 DEF StartNewServerInteraction

LEMMA RequestStartMids ==
  ASSUME TypeInv, ListInv, FitInv, NEW ep, StartNewGetRequest(ep)
  PROVE  MidSteps /\ Sends
<1> USE InvBase
<1> DEFINE b == [NewInteraction EXCEPT !.role = "CLIENT",
                   !.st = "READY_TO_REQUEST", !.ep = ep, !.req = GetRequest]
<1>1. /\ b.role = "CLIENT" /\ b.st = "READY_TO_REQUEST" /\ b.resp = NoResp
      /\ b.req.type = "CON" /\ b.req.mid = GetNextMid(mid)
  BY DEF NewInteraction, GetRequest
<1>2. /\ DrawMid /\ Silent
      /\ ia' = ia \/ \E s \in FreeSlots : ia' = [ia EXCEPT ![s] = b]
  BY DEF StartNewGetRequest
<1> HIDE DEF b
<1>3. ASSUME NEW s PROVE MidStep(ia[s], b)
  BY <1>1, <1>2 DEF MidStep, MidDrawn, Fitting, OwnMid
<1> QED BY <1>2, <1>3, FreeMids, SameMids, UpdateMids, SilentSends

\* What every step does to the message IDs.
LEMMA NextMids ==
  ASSUME TypeInv, ListInv, FitInv, Next
  PROVE  MidSteps /\ Sends
<1> USE InvBase
<1>1. CASE onNewPacketHandler
  <2>1. PICK p \in Packets :
         \/ ReceivePing(p) \/ ReceiveIgnored(p) \/ ReceiveUnknownResource(p)
         \/ ReceiveBadOption(p) \/ ReceiveReset(p) \/ ReceiveAck(p)
         \/ ReceiveRequest(p) \/ ReceiveSeparate(p)
    BY <1>1 DEF onNewPacketHandler
  <2>2. p \in PacketSet
    BY MainAssumption
  <2>3. CASE ReceiveRequest(p)
    BY <2>2, <2>3, ServerStartMids DEF ReceiveRequest
  <2> QED BY <2>1, <2>2, <2>3, PacketMids
<1>2. CASE doWork
  <2>1. CASE StillSleeping
    <3>1. Head1 \in Slots /\ Requeue(ia[Head1]) /\ Silent
      BY <2>1, HeadIsSlot DEF StillSleeping, Base, Typing
    <3> QED BY <3>1, KeptReflexive, RequeueMids, SilentSends
            DEF MidStep, FitInv
  <2> QED BY <1>2, <2>1, ServerWorkMids, NotifyWorkMids, RequesterWorkMids
          DEF doWork
<1>3. ASSUME NEW r \in Changing, NotifyResourceObservers(r)
      PROVE  MidSteps /\ Sends
  BY <1>3, SameMids, SilentSends DEF NotifyResourceObservers
<1>4. CASE StartNotifyInteractions
  BY <1>4, LoopMids
<1>5. ASSUME NEW ep \in Servers, StartNewGetRequest(ep)
      PROVE  MidSteps /\ Sends
  BY <1>5, RequestStartMids
<1>6. CASE Tick
  BY <1>6, SameMids, SilentSends DEF Tick
<1> QED BY <1>1, <1>2, <1>3, <1>4, <1>5, <1>6 DEF Next

(***************************************************************************)
(* OwnMidsDistinct and NoResendAfterAnswer.                                *)
(***************************************************************************)
\* Who is linked after a step was linked before, or was a free block.
LEMMA LinkedBefore ==
  ASSUME TypeInv, UniqueInv, [Next]_vars
  PROVE  \A s \in Linked' : s \in Slots /\ (s \in Linked \/ ~UsesOwnMid(ia[s]))
<1> USE InvBase, LinkedIsElems, LinkedIsElemsNext
<1>1. ListInv
  BY DEF UniqueInv
<1>2. Elems(list) \subseteq Slots
  BY <1>1, ElemsAreSlots DEF Base, Typing
<1>3. CASE Keeps
  BY <1>2, <1>3 DEF Keeps
<1>4. CASE AddsOne
  <2>1. PICK t \in Slots : \/ \E p : AddsRequest(t, p)
                           \/ AddsNotification(t) \/ AddsClient(t)
    BY <1>4 DEF AddsOne
  <2>2. Adds(t)
    BY <2>1 DEF AddsRequest, AddsNotification, AddsClient
  <2>3. ~UsesOwnMid(ia[t])
    BY <2>2 DEF Adds, UsesOwnMid
  <2> QED BY <1>2, <2>2, <2>3 DEF Adds
<1> QED BY <1>1, <1>3, <1>4, KeepsOrAdds

LEMMA NextDistinct ==
  ASSUME TypeInv, UniqueInv, FitInv, OwnMidsDistinct, NextMidIsFree, Next
  PROVE  FitInv' /\ OwnMidsDistinct'
<1>1. MidSteps
  BY NextMids DEF UniqueInv
<1>2. PICK d : \A s \in Slots :
                 /\ Fitting(ia'[s])
                 /\ MidKept(ia[s], ia'[s]) \/ (s = d /\ MidDrawn(ia'[s]))
  BY <1>1 DEF MidSteps
<1>3. FitInv'
  BY <1>2 DEF FitInv, Fitting, Allowed
<1>4. \A s \in Linked' : s \in Slots /\ (s \in Linked \/ ~UsesOwnMid(ia[s]))
  BY LinkedBefore
<1>5. ASSUME NEW s \in Linked', UsesOwnMid(ia'[s])
      PROVE  \/ /\ s \in Linked /\ UsesOwnMid(ia[s])
                /\ OwnMid(ia'[s]) = OwnMid(ia[s])
             \/ s = d /\ OwnMid(ia'[s]) = GetNextMid(mid)
  BY <1>2, <1>4, <1>5 DEF MidKept, MidDrawn
<1>6. ASSUME NEW s \in Linked', NEW t \in Linked',
             UsesOwnMid(ia'[s]), UsesOwnMid(ia'[t]),
             OwnMid(ia'[s]) = OwnMid(ia'[t])
      PROVE  s = t
  <2>1. CASE s = d /\ OwnMid(ia'[s]) = GetNextMid(mid)
    BY <1>5, <1>6, <2>1 DEF NextMidIsFree
  <2>2. CASE t = d /\ OwnMid(ia'[t]) = GetNextMid(mid)
    BY <1>5, <1>6, <2>2 DEF NextMidIsFree
  <2>3. CASE /\ s \in Linked /\ UsesOwnMid(ia[s])
             /\ OwnMid(ia'[s]) = OwnMid(ia[s])
             /\ t \in Linked /\ UsesOwnMid(ia[t])
             /\ OwnMid(ia'[t]) = OwnMid(ia[t])
    BY <1>6, <2>3 DEF OwnMidsDistinct
  <2> QED BY <1>5, <1>6, <2>1, <2>2, <2>3
<1>7. OwnMidsDistinct'
  BY <1>6 DEF OwnMidsDistinct, UsesOwnMid, OwnMid
<1> QED BY <1>3, <1>7

MidInv == FitInv /\ OwnMidsDistinct

\* As long as the counter does not come round to an ID that is still in use,
\* FitInv and OwnMidsDistinct are an invariant of the stack.
THEOREM MidInvariant == Spec /\ []NextMidIsFree => []MidInv
<1>1. Init => MidInv
  <2> SUFFICES ASSUME Init PROVE MidInv
    OBVIOUS
  <2>1. Linked = {}
    BY DEF Init, Linked
  <2> QED BY <2>1, EmptyFits DEF Init, MidInv, FitInv, OwnMidsDistinct
<1>2. TypeInv /\ UniqueInv /\ NextMidIsFree /\ MidInv /\ [Next]_vars => MidInv'
  <2>1. ASSUME MidInv, UNCHANGED vars PROVE MidInv'
    BY <2>1
    DEF vars, MidInv, FitInv, Fitting, Allowed, OwnMidsDistinct, Linked,
        UsesOwnMid, OwnMid
  <2> QED BY <2>1, NextDistinct DEF MidInv
<1> QED BY <1>1, <1>2, TypeInvariant, UniqueInvariant, PTL DEF Spec

\* The message IDs the stack draws suffice: while none is drawn that is still
\* in use, two interactions never share an ID of its own (CoAP_GetNextMid).  An
\* ID that a peer chose may still be equal to one of them.
THEOREM OwnMidsUnique == Spec /\ []NextMidIsFree => []OwnMidsDistinct
<1>1. MidInv => OwnMidsDistinct
  BY DEF MidInv
<1> QED BY <1>1, MidInvariant, PTL

\* CheckRespStatus and CheckReqStatus look at the answer before the timer:
\* what has been acknowledged or reset is never sent again, by its own
\* interaction or (the IDs being distinct) by another one.
THEOREM AnsweredNotResent ==
  Spec /\ []NextMidIsFree => NoResendAfterAnswer
<1>1. ASSUME TypeInv, UniqueInv, NextMidIsFree, MidInv, [Next]_vars
      PROVE  [\A s \in Linked :
                InFlight(ia[s]) /\ Answered(ia[s]) => ~SentAs(ia[s], tx')]_vars
  <2> SUFFICES ASSUME Next, NEW s \in Linked, InFlight(ia[s]), Answered(ia[s]),
                      SentAs(ia[s], tx')
               PROVE  FALSE
    BY <1>1
  <2>1. Sends
    BY <1>1, NextMids DEF UniqueInv, MidInv
  <2>2. s \in Slots /\ ia[s] \in Interaction /\ Fitting(ia[s])
    BY <1>1, ElementOfSeq DEF TypeInv, TypeOK, Linked, MidInv, FitInv
  <2>3. ia[s].role # "FREE"
    BY <1>1, LinkedIsElems DEF UniqueInv, ListInv
  <2>4. tx'.type = "CON" /\ tx'.mid = OwnMid(ia[s]) /\ UsesOwnMid(ia[s])
    <3>1. CASE ia[s].role = "CLIENT"
      BY <2>2, <3>1
      DEF SentAs, ReqDatagram, Fitting, OwnMid, UsesOwnMid
    <3>2. CASE ia[s].role # "CLIENT"
      <4>1. ia[s].resp.type = "CON"
        BY <2>2, <3>2 DEF InFlight, Fitting
      <4>2. tx'.type = ia[s].resp.type /\ tx'.mid = ia[s].resp.mid
        BY <3>2 DEF SentAs, RespDatagram
      <4>3. ia[s].role \in {"SERVER", "NOTIFICATION"}
        BY <2>2, <2>3, <3>2 DEF Interaction, Role
      <4> QED BY <3>2, <4>1, <4>2, <4>3 DEF OwnMid, UsesOwnMid
    <3> QED BY <3>1, <3>2
  <2>5. tx'.mid # GetNextMid(mid)
    BY <1>1, <2>4 DEF NextMidIsFree
  <2>6. /\ Head1 \in Linked /\ UsesOwnMid(ia[Head1])
        /\ OwnMid(ia[Head1]) = OwnMid(ia[s]) /\ MaySend(ia[Head1])
    BY <2>1, <2>4, <2>5 DEF Sends
  <2>7. Head1 = s
    BY <1>1, <2>4, <2>6 DEF MidInv, OwnMidsDistinct
  <2> QED BY <2>6, <2>7 DEF MaySend
<1> QED BY <1>1, TypeInvariant, UniqueInvariant, MidInvariant, PTL
        DEF Spec, NoResendAfterAnswer

(***************************************************************************)
(* Before the counter has come round, no ID can be in use twice.           *)
(***************************************************************************)
MidBound ==
  mid <= MaxMid /\ \A s \in Slots : UsesOwnMid(ia[s]) => OwnMid(ia[s]) <= mid

LEMMA MidMoves ==
  ASSUME Next
  PROVE  mid' = mid \/ DrawMid
<1>1. CASE onNewPacketHandler
  BY <1>1
  DEF onNewPacketHandler, ReceivePing, ReceiveIgnored, ReceiveUnknownResource,
      ReceiveBadOption, ReceiveReset, ReceiveAck, ReceiveRequest,
      ReceiveSeparate, StartNewServerInteraction
<1>2. CASE doWork
  <2>1. ASSUME AllocDraws(ia[Head1]) PROVE mid' = mid \/ DrawMid
    BY <2>1 DEF AllocDraws
  <2>2. CASE ServerWork
    BY <2>1, <2>2
    DEF ServerWork, MethodNotAllowed, RespAllocFails, PostponeWithAck,
        PostponeAgain, Answer, ResponseSent
  <2>3. CASE NotifyWork
    BY <2>3
    DEF NotifyWork, ReadyToNotify, NotificationSent, NotificationWaiting,
        NotificationRetry, NotificationDone, NotificationAborted
  <2> QED BY <1>2, <2>2, <2>3
          DEF doWork, StillSleeping, RequesterWork, ReadyToRequest,
              WaitingResponse, HandleResponse
<1>3. CASE StartNotifyInteractions
  BY <1>3
  DEF StartNotifyInteractions, FlagPending, NoRoomForNotification,
      NotificationDropped, StartNotification, NotifierError
<1>4. ASSUME NEW r \in Changing, NotifyResourceObservers(r)
      PROVE  mid' = mid
  BY <1>4 DEF NotifyResourceObservers
<1>5. ASSUME NEW ep \in Servers, StartNewGetRequest(ep)
      PROVE  DrawMid
  BY <1>5 DEF StartNewGetRequest
<1>6. CASE Tick
  BY <1>6 DEF Tick
<1> QED BY <1>1, <1>2, <1>3, <1>4, <1>5, <1>6 DEF Next

LEMMA OwnMidType ==
  ASSUME TypeInv, NEW s \in Slots, UsesOwnMid(ia[s])
  PROVE  OwnMid(ia[s]) \in Mid
<1>1. ia[s] \in Interaction /\ FitsRole(ia[s])
  BY DEF TypeInv, TypeOK, PointersOK
<1>2. CASE ia[s].role = "CLIENT"
  BY <1>1, <1>2 DEF FitsRole, ReqMsg, OwnMid
<1>3. CASE ia[s].role # "CLIENT"
  <2>1. ia[s].resp \in RespMsg
    BY <1>1, <1>3 DEF UsesOwnMid, FitsRole, Interaction, NoResp
  <2> QED BY <1>3, <2>1 DEF RespMsg, OwnMid
<1> QED BY <1>2, <1>3

LEMMA NextBound ==
  ASSUME MaxMid # MidMod - 1, TypeInv, UniqueInv, FitInv, MidBound, Next
  PROVE  FitInv' /\ MidBound'
<1>1. PICK d : \A s \in Slots :
                 /\ Fitting(ia'[s])
                 /\ MidKept(ia[s], ia'[s]) \/ (s = d /\ MidDrawn(ia'[s]))
  BY NextMids DEF UniqueInv, MidSteps
<1>2. FitInv'
  BY <1>1 DEF FitInv, Fitting, Allowed
<1>3. mid \in Mid /\ (mid' = mid \/ DrawMid)
  BY MidMoves DEF TypeInv, TypeOK
<1>4. DrawMid => mid' = mid + 1 /\ mid + 1 <= MaxMid /\ GetNextMid(mid) = mid'
  BY <1>3 DEF DrawMid, MidsLeft, GetNextMid, Mid
<1>5. mid' \in Int /\ mid <= mid' /\ mid' <= MaxMid
  BY <1>3, <1>4 DEF Mid, MidBound
<1>6. ASSUME NEW s \in Slots, UsesOwnMid(ia'[s])
      PROVE  OwnMid(ia'[s]) <= mid'
  <2>1. CASE UsesOwnMid(ia[s]) /\ OwnMid(ia'[s]) = OwnMid(ia[s])
    <3>1. OwnMid(ia[s]) \in Mid /\ OwnMid(ia[s]) <= mid
      BY <2>1, OwnMidType DEF MidBound
    <3> QED BY <1>3, <1>5, <2>1, <3>1 DEF Mid
  <2>2. CASE DrawMid /\ OwnMid(ia'[s]) = GetNextMid(mid)
    BY <1>4, <1>5, <2>2
  <2> QED BY <1>1, <1>6, <2>1, <2>2 DEF MidKept, MidDrawn
<1>7. MidBound'
  BY <1>5, <1>6 DEF MidBound, UsesOwnMid, OwnMid
<1> QED BY <1>2, <1>7

\* Until the counter comes round for the first time (the bound MaxMid is below
\* its last value), no ID is drawn that is still in use: the two properties
\* hold without a condition.
THEOREM MidsCorrectBeforeWrap ==
  ASSUME MaxMid # MidMod - 1
  PROVE  Spec => []OwnMidsDistinct /\ NoResendAfterAnswer
<1>1. Init => FitInv /\ MidBound
  BY EmptyFits DEF Init, FitInv, MidBound
<1>2. TypeInv /\ UniqueInv /\ FitInv /\ MidBound /\ [Next]_vars
        => FitInv' /\ MidBound'
  <2>1. ASSUME FitInv, MidBound, UNCHANGED vars PROVE FitInv' /\ MidBound'
    BY <2>1
    DEF vars, FitInv, Fitting, Allowed, MidBound, UsesOwnMid, OwnMid
  <2> QED BY <2>1, NextBound
<1>3. TypeInv /\ MidBound => NextMidIsFree
  <2> SUFFICES ASSUME TypeInv, MidBound, NEW s \in Linked, UsesOwnMid(ia[s])
               PROVE  OwnMid(ia[s]) # GetNextMid(mid)
    BY DEF NextMidIsFree
  <2>1. s \in Slots /\ mid \in Mid
    BY ElementOfSeq DEF TypeInv, TypeOK, Linked
  <2>2. OwnMid(ia[s]) \in Mid /\ OwnMid(ia[s]) <= mid /\ mid <= MaxMid
    BY <2>1, OwnMidType DEF MidBound
  <2> QED BY <2>1, <2>2 DEF GetNextMid, Mid
<1> QED BY <1>1, <1>2, <1>3, TypeInvariant, UniqueInvariant, OwnMidsUnique,
           AnsweredNotResent, PTL DEF Spec
=============================================================================
