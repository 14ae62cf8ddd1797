----------------------------- MODULE CoapPoolProofs -----------------------------
(***************************************************************************)
(* The two pools of the stack.  No interaction leaks (NoLeak), as long as  *)
(* no Notifier reports an error and the stack asks nobody anything: the    *)
(* two cases in which the code does leak.  No observer is registered       *)
(* twice, and none is in two lists (ObserversUnique), without condition.   *)
(*                                                                         *)
(* Then observers and interactions together: a failed notification ends    *)
(* its observation (FailedNotificationEndsObservation), none is under way  *)
(* to someone who does not observe (NotifiedIsObserver), the notify loop   *)
(* passes nobody over (NobodyPassedOver), and a change reaches every       *)
(* notification under way (PendingIsFresh).                                *)
(***************************************************************************)
EXTENDS CoapListProofs

USE MessageAssumption

(***************************************************************************)
(* Interactions: what is allocated is linked.                              *)
(***************************************************************************)
\* The blocks of heap h that are not free are those of list q.
AllIn(h, q) == \A s \in Slots : h[s].role # "FREE" => s \in Elems(q)

LinkInv == Base /\ AllIn(ia, list)

LEMMA LinkInvFacts ==
  ASSUME LinkInv
  PROVE  /\ list \in Seq(Slots) /\ NoDup(list) /\ Elems(list) \subseteq Slots
         /\ ia \in [Slots -> Interaction] /\ AllIn(ia, list)
BY ElemsAreSlots DEF LinkInv, Base, Typing, GoodHeap, ListInv

\* The interaction a search loop stopped at is one of the list.
LEMMA FoundIsElem ==
  ASSUME LinkInv, NEW S, S \subseteq 1..Len(list), S # {}
  PROVE  list[First(S)] \in Elems(list)
BY LinkInvFacts, FirstMatchIsSlot DEF Elems

LEMMA SameIsLinked ==
  ASSUME LinkInv, list' = list, ia' = ia
  PROVE  AllIn(ia', list')
BY LinkInvFacts

LEMMA SetIsLinked ==
  ASSUME LinkInv, NEW s \in Elems(list), NEW a, list' = list,
         ia' = [ia EXCEPT ![s] = a]
  PROVE  AllIn(ia', list')
<1>1. \A t \in Slots : t # s => ia'[t] = ia[t]
  BY LinkInvFacts
<1> QED BY <1>1, LinkInvFacts DEF AllIn

LEMMA RequeueIsLinked ==
  ASSUME LinkInv, Head1 \in Elems(list), NEW a, Requeue(a)
  PROVE  AllIn(ia', list')
<1>1. Elems(list') = Elems(list) \cup {Head1}
  BY LinkInvFacts, MoveToListEndElems DEF Requeue
<1>2. \A t \in Slots : t # Head1 => ia'[t] = ia[t]
  BY LinkInvFacts DEF Requeue
<1> QED BY <1>1, <1>2, LinkInvFacts DEF AllIn

\* Unlinking and freeing go together.
LEMMA FreedIsLinked ==
  ASSUME NEW q \in Seq(Slots), NoDup(q), NEW h \in [Slots -> Interaction],
         AllIn(h, q), NEW s
  PROVE  AllIn(Freed(h, s), Unlink(q, s))
<1>1. Elems(Unlink(q, s)) = Elems(q) \ {s}
  BY UnlinkElems
<1>2. \A t \in Slots : Freed(h, s)[t] = IF t = s THEN NewInteraction ELSE h[t]
  BY DEF Freed
<1>3. NewInteraction.role = "FREE"
  BY DEF NewInteraction
<1> QED BY <1>1, <1>2, <1>3 DEF AllIn

LEMMA DeleteIsLinked ==
  ASSUME LinkInv, Delete
  PROVE  AllIn(ia', list')
BY LinkInvFacts, FreedIsLinked DEF Delete

LEMMA SendRespIsLinked ==
  ASSUME Head1 \in Slots, NEW q \in Seq(Slots), NoDup(q),
         NEW h \in [Slots -> Interaction], AllIn(h, q), NEW a, NEW next,
         SendResp(a, next, q, h) \/ RespRefused(a, q, h)
  PROVE  AllIn(ia', list')
<1>1. CASE RespRefused(a, q, h)
  BY <1>1, FreedIsLinked DEF RespRefused
<1>2. ASSUME list' = MoveToListEnd(q, Head1),
             ia' = [h EXCEPT ![Head1] = Transmitted(a, next)]
      PROVE  AllIn(ia', list')
  <2>1. Elems(list') = Elems(q) \cup {Head1}
    BY <1>2, MoveToListEndElems
  <2>2. \A t \in Slots : t # Head1 => ia'[t] = h[t]
    BY <1>2
  <2> QED BY <2>1, <2>2 DEF AllIn
<1> QED BY <1>1, <1>2 DEF SendResp

LEMMA ResendRespIsLinked ==
  ASSUME LinkInv, Head1 \in Elems(list), NEW a, ResendResp(a)
  PROVE  AllIn(ia', list')
<1>1. CASE RespRefused(a, list, ia)
  BY <1>1, LinkInvFacts, SendRespIsLinked
<1>2. CASE list' = list /\ \E b : ia' = [ia EXCEPT ![Head1] = b]
  BY <1>2, SetIsLinked
<1> QED BY <1>1, <1>2 DEF ResendResp

LEMMA AppendIsLinked ==
  ASSUME LinkInv, NEW s \in FreeSlots, NEW a, list' = Append(list, s),
         ia' = [ia EXCEPT ![s] = a]
  PROVE  AllIn(ia', list')
<1>1. s \in Slots /\ s \notin Elems(list)
  BY DEF FreeSlots, LinkInv, Base, ListInv
<1>2. Elems(list') = Elems(list) \cup {s}
  BY <1>1, LinkInvFacts, AppendElems
<1>3. \A t \in Slots : t # s => ia'[t] = ia[t]
  BY LinkInvFacts
<1> QED BY <1>2, <1>3, LinkInvFacts DEF AllIn

LEMMA TurnIsElem ==
  ASSUME LinkInv, NEW role, NEW states, Turn(role, states)
  PROVE  Head1 \in Elems(list) /\ Head1 \in Slots
BY TurnElem DEF LinkInv

LEMMA AnswerIsLinked ==
  ASSUME LinkInv, NEW code, NEW type, Answer(code, type)
  PROVE  AllIn(ia', list')
<1> DEFINE a == Allocated(ia[Head1])
           r == AnswerMsg(a, code, type)
           P == PendingWithToken(a.ep, a.req.tok)
           s == list[First(P)]
<1>1. Head1 \in Slots
  BY TurnIsElem DEF Answer, Handling
<1>2. \/ \E b : SendResp(b, "RESPONSE_SENT", list, ia)
      \/ \E b : SendResp(b, "RESPONSE_SENT", Unlink(list, s), Freed(ia, s))
  <2>1. \/ Register(a, r) \/ Deregister(a, r)
        \/ SendResp([a EXCEPT !.resp = r], "RESPONSE_SENT", list, ia)
    BY DEF Answer
  <2> HIDE DEF a, r
  <2>2. CASE Register(a, r)
    BY <2>2 DEF Register
  <2>3. CASE Deregister(a, r)
    BY <2>3 DEF Deregister
  <2> QED BY <2>1, <2>2, <2>3
<1> HIDE DEF s
<1>3. /\ Unlink(list, s) \in Seq(Slots) /\ NoDup(Unlink(list, s))
      /\ Freed(ia, s) \in [Slots -> Interaction]
      /\ AllIn(Freed(ia, s), Unlink(list, s))
  <2>1. Freed(ia, s) \in [Slots -> Interaction]
    BY HeapFreed DEF LinkInv, Base, Typing, GoodHeap
  <2> QED BY <2>1, LinkInvFacts, UnlinkType, UnlinkElems, FreedIsLinked
<1> QED BY <1>1, <1>2, <1>3, LinkInvFacts, SendRespIsLinked

LEMMA ServerWorkIsLinked ==
  ASSUME LinkInv, ServerWork
  PROVE  AllIn(ia', list')
<1>1. Handling => Head1 \in Elems(list) /\ Head1 \in Slots
  BY TurnIsElem DEF Handling
<1>2. CASE MethodNotAllowed
  BY <1>1, <1>2, LinkInvFacts, SendRespIsLinked DEF MethodNotAllowed
<1>3. CASE RespAllocFails
  BY <1>3, SameIsLinked DEF RespAllocFails
<1>4. CASE PostponeWithAck
  BY <1>1, <1>4, RequeueIsLinked, DeleteIsLinked DEF PostponeWithAck
<1>5. CASE PostponeAgain
  BY <1>1, <1>5, RequeueIsLinked DEF PostponeAgain
<1>6. CASE ResponseSent
  <2>1. Head1 \in Elems(list)
    BY <1>6, TurnIsElem DEF ResponseSent
  <2>2. Requeue(ia[Head1]) \/ ResendResp(ia[Head1]) \/ Delete
    BY <1>6 DEF ResponseSent
  <2> QED BY <2>1, <2>2, RequeueIsLinked, ResendRespIsLinked, DeleteIsLinked
<1> QED BY <1>2, <1>3, <1>4, <1>5, <1>6, AnswerIsLinked DEF ServerWork

LEMMA NotifyWorkIsLinked ==
  ASSUME LinkInv, NotifyWork
  PROVE  AllIn(ia', list')
<1> DEFINE a == ia[Head1]
<1>1. Head1 \in Elems(list) /\ Head1 \in Slots
  BY TurnIsElem DEF NotifyWork, ReadyToNotify, NotificationSent
<1>2. CASE ReadyToNotify
  BY <1>1, <1>2, LinkInvFacts, SendRespIsLinked DEF ReadyToNotify
<1>3. CASE NotificationSent
  <2>1. \/ NotificationWaiting(a) \/ NotificationRetry(a)
        \/ NotificationDone(a) \/ NotificationAborted(a)
    BY <1>3 DEF NotificationSent
  <2>2. \/ Delete \/ (\E b : Requeue(b)) \/ (\E b : ResendResp(b))
    BY <2>1
    DEF NotificationWaiting, NotificationRetry, NotificationDone,
        NotificationAborted
  <2> QED BY <1>1, <2>2, DeleteIsLinked, RequeueIsLinked, ResendRespIsLinked
<1> QED BY <1>2, <1>3 DEF NotifyWork

LEMMA RequesterWorkIsLinked ==
  ASSUME LinkInv, RequesterWork
  PROVE  AllIn(ia', list')
<1>1. Head1 \in Elems(list)
  BY TurnIsElem
  DEF RequesterWork, ReadyToRequest, WaitingResponse, HandleResponse
<1>2. \/ Delete \/ (\E b : Requeue(b))
      \/ list' = list /\ \E b : ia' = [ia EXCEPT ![Head1] = b]
  BY DEF RequesterWork, ReadyToRequest, WaitingResponse, HandleResponse,
         ResendReq
<1> QED BY <1>1, <1>2, DeleteIsLinked, RequeueIsLinked, SetIsLinked

LEMMA PacketIsLinked ==
  ASSUME LinkInv, onNewPacketHandler
  PROVE  AllIn(ia', list')
<1>1. PICK p \in Packets :
       \/ ReceivePing(p) \/ ReceiveIgnored(p) \/ ReceiveUnknownResource(p)
       \/ ReceiveBadOption(p) \/ ReceiveReset(p) \/ ReceiveAck(p)
       \/ ReceiveRequest(p) \/ ReceiveSeparate(p)
  BY DEF onNewPacketHandler
<1>2. CASE \/ ReceivePing(p) \/ ReceiveIgnored(p)
           \/ ReceiveUnknownResource(p) \/ ReceiveBadOption(p)
  BY <1>2, SameIsLinked
  DEF ReceivePing, ReceiveIgnored, ReceiveUnknownResource, ReceiveBadOption,
      StateUnchanged
<1> DEFINE T == ReliabilityTargets(p.ep, p.mid)
           W == AwaitingToken(p.ep, p.tok)
<1>3. /\ T # {} => list[First(T)] \in Elems(list)
      /\ W # {} => list[First(W)] \in Elems(list)
  <2>1. T \subseteq 1..Len(list) /\ W \subseteq 1..Len(list)
    BY DEF ReliabilityTargets, AwaitingToken, Matching
  <2> HIDE DEF T, W
  <2> QED BY <2>1, FoundIsElem
<1>4. CASE ReceiveReset(p) \/ ReceiveAck(p) \/ ReceiveSeparate(p)
  <2>1. /\ list' = list
        /\ \/ ia' = ia
           \/ T # {} /\ \E b : ia' = [ia EXCEPT ![list[First(T)]] = b]
           \/ W # {} /\ \E b : ia' = [ia EXCEPT ![list[First(W)]] = b]
    BY <1>4 DEF ReceiveReset, ReceiveAck, Apply, ReceiveSeparate,
                SeparateAccepted
  <2> HIDE DEF T, W
  <2> QED BY <1>3, <2>1, SameIsLinked, SetIsLinked
<1>5. CASE ReceiveRequest(p)
  BY <1>5, SameIsLinked, AppendIsLinked
  DEF ReceiveRequest, StartNewServerInteraction, DuplicateRequest,
      NoRoomForRequest, NewServerInteraction
<1> QED BY <1>1, <1>2, <1>4, <1>5

LEMMA LoopIsLinked ==
  ASSUME LinkInv, "ERROR" \notin NotifierCodes, StartNotifyInteractions
  PROVE  AllIn(ia', list')
<1>1. CASE FlagPending
  <2> DEFINE P == PendingNotification(LoopRes, LoopObserver)
             s == list[First(P)]
  <2>1. P \subseteq 1..Len(list) /\ P # {}
    BY <1>1 DEF FlagPending, PendingNotification, Matching
  <2>2. s \in Elems(list)
    <3> HIDE DEF P
    <3> QED BY <2>1, FoundIsElem
  <2>3. list' = list /\ ia' = [ia EXCEPT ![s] = [ia[s] EXCEPT !.upd = TRUE]]
    BY <1>1 DEF FlagPending
  <2> HIDE DEF s
  <2> QED BY <2>2, <2>3, SetIsLinked
<1>2. CASE NoRoomForNotification \/ NotificationDropped
  BY <1>2, SameIsLinked DEF NoRoomForNotification, NotificationDropped
<1>3. ASSUME NEW type, StartNotification(type)
      PROVE  AllIn(ia', list')
  BY <1>3, AppendIsLinked DEF StartNotification
<1>4. ASSUME NEW type, NotifierError(type) PROVE FALSE
  BY <1>4 DEF NotifierError
<1> QED BY <1>1, <1>2, <1>3, <1>4 DEF StartNotifyInteractions

LEMMA NextIsLinked ==
  ASSUME LinkInv, "ERROR" \notin NotifierCodes, [Next]_vars
  PROVE  AllIn(ia', list')
<1>1. CASE doWork
  <2>1. CASE StillSleeping
    BY <2>1, LinkInvFacts, HeadIsElem, RequeueIsLinked DEF StillSleeping
  <2> QED BY <1>1, <2>1, ServerWorkIsLinked, NotifyWorkIsLinked,
             RequesterWorkIsLinked DEF doWork
<1>2. ASSUME NEW r \in Changing, NotifyResourceObservers(r)
      PROVE  AllIn(ia', list')
  BY <1>2, SameIsLinked DEF NotifyResourceObservers
<1>3. ASSUME NEW ep \in Servers, StartNewGetRequest(ep)
      PROVE  AllIn(ia', list')
  BY <1>3, SameIsLinked, AppendIsLinked DEF StartNewGetRequest
<1>4. CASE Tick \/ UNCHANGED vars
  BY <1>4, SameIsLinked DEF Tick, vars
<1> QED BY <1>1, <1>2, <1>3, <1>4, PacketIsLinked, LoopIsLinked DEF Next

(***************************************************************************)
(* Messages: only the client role loses any.                               *)
(***************************************************************************)
NoClient == \A s \in Elems(list) : ia[s].role # "CLIENT"

LEMMA NextNoClient ==
  ASSUME TypeInv, ListInv, NoClient, Servers = {}, [Next]_vars
  PROVE  NoClient'
<1>1. Keeps \/ AddsOne
  BY KeepsOrAdds
<1>2. CASE Keeps
  BY <1>2 DEF Keeps, SameKey, NoClient
<1>3. CASE AddsOne
  BY <1>3 DEF AddsOne, AddsRequest, AddsNotification, AddsClient, Adds,
              SameKey, NoClient
<1> QED BY <1>1, <1>2, <1>3

LEMMA NextNotLost ==
  ASSUME NoClient, Servers = {}, [Next]_vars
  PROVE  lost' = lost
<1>1. CASE onNewPacketHandler
  <2>1. PICK p \in Packets :
         \/ ReceivePing(p) \/ ReceiveIgnored(p) \/ ReceiveUnknownResource(p)
         \/ ReceiveBadOption(p) \/ ReceiveReset(p) \/ ReceiveAck(p)
         \/ ReceiveRequest(p) \/ ReceiveSeparate(p)
    BY <1>1 DEF onNewPacketHandler
  <2>2. CASE ReceiveSeparate(p)
    <3>1. AwaitingToken(p.ep, p.tok) = {}
      BY DEF NoClient, Elems, AwaitingToken, Matching
    <3> QED BY <2>2, <3>1 DEF ReceiveSeparate
  <2>3. CASE ReceiveReset(p) \/ ReceiveAck(p)
    BY <2>3 DEF ReceiveReset, ReceiveAck
  <2>4. CASE \/ ReceivePing(p) \/ ReceiveIgnored(p)
             \/ ReceiveUnknownResource(p) \/ ReceiveBadOption(p)
    BY <2>4 DEF ReceivePing, ReceiveIgnored, ReceiveUnknownResource,
                ReceiveBadOption, StateUnchanged
  <2>5. CASE ReceiveRequest(p)
    BY <2>5 DEF ReceiveRequest, StartNewServerInteraction
  <2> QED BY <2>1, <2>2, <2>3, <2>4, <2>5
<1>2. CASE StillSleeping \/ ServerWork
  BY <1>2 DEF StillSleeping, ServerWork, MethodNotAllowed, RespAllocFails,
              PostponeWithAck, PostponeAgain, Answer, ResponseSent
<1>3. CASE NotifyWork \/ RequesterWork
  BY <1>3 DEF NotifyWork, ReadyToNotify, NotificationSent, RequesterWork,
              ReadyToRequest, WaitingResponse, HandleResponse
<1>4. ASSUME NEW r \in Changing, NotifyResourceObservers(r)
      PROVE  lost' = lost
  BY <1>4 DEF NotifyResourceObservers, NoLoss
<1>5. CASE StartNotifyInteractions
  BY <1>5 DEF StartNotifyInteractions, NoLoss
<1>6. CASE Tick \/ UNCHANGED vars
  BY <1>6 DEF Tick, vars
<1> QED BY <1>1, <1>2, <1>3, <1>4, <1>5, <1>6 DEF Next, doWork

LeakInv == AllIn(ia, list) /\ NoClient /\ lost = FALSE

LEMMA InitLeak == Init => LeakInv
<1> SUFFICES ASSUME Init PROVE LeakInv
  OBVIOUS
<1>1. NewInteraction.role = "FREE"
  BY DEF NewInteraction
<1>2. Elems(list) = {} /\ AllIn(ia, list)
  BY <1>1 DEF Init, Elems, AllIn
<1>3. lost = FALSE
  BY Zenon DEF Init
<1> QED BY <1>2, <1>3, Zenon DEF LeakInv, NoClient

LEMMA NextLeak ==
  ASSUME TypeInv, ListInv, LeakInv, "ERROR" \notin NotifierCodes,
         Servers = {}, [Next]_vars
  PROVE  LeakInv'
<1>1. LinkInv
  BY InvBase DEF LinkInv, LeakInv
<1>2. AllIn(ia', list')
  BY <1>1, NextIsLinked
<1>3. NoClient'
  BY NextNoClient DEF LeakInv
<1>4. lost' = FALSE
  BY NextNotLost DEF LeakInv
<1> QED BY <1>2, <1>3, <1>4 DEF LeakInv, AllIn, Elems

\* A server whose Notifiers report no error leaks nothing: every interaction
\* and message it allocates stays reachable until it is freed, through
\* cancellations, refused datagrams and lack of memory.
THEOREM NothingLeaks ==
  ASSUME "ERROR" \notin NotifierCodes, Servers = {}
  PROVE  Spec => []NoLeak
<1>1. TypeInv /\ UniqueInv /\ LeakInv /\ [Next]_vars => LeakInv'
  BY NextLeak DEF UniqueInv
<1>2. LeakInv => NoLeak
  BY LinkedIsElems DEF LeakInv, AllIn, NoLeak
<1> QED BY <1>1, <1>2, InitLeak, TypeInvariant, UniqueInvariant, PTL DEF Spec

(***************************************************************************)
(* Observers.  The lists change in two ways only: one loses the first      *)
(* observer with an endpoint and token, and, on a registration, gets one   *)
(* with these at its end, in a block no list uses.                         *)
(***************************************************************************)
SameTarget(o, p) == o.ep = p.ep /\ o.tok = p.tok

\* ObserversUnique, of any lists f.
Distinct(f) ==
  \A r, q \in Resources :
    \A i \in 1..Len(f[r]), j \in 1..Len(f[q]) :
      f[r][i].id = f[q][j].id \/ (r = q /\ SameTarget(f[r][i], f[q][j]))
      => r = q /\ i = j

LEMMA DistinctIsUnique == Distinct(observers) <=> ObserversUnique
BY DEF Distinct, SameTarget, ObserversUnique

\* Unlinking finds the first match, or leaves the list alone without one.
LEMMA WithoutObserverCases ==
  ASSUME NEW q \in Seq(Observer), NEW ep, NEW tok
  PROVE  \/ /\ WithoutObserver(q, ep, tok) = q
            /\ \A i \in 1..Len(q) : ~(q[i].ep = ep /\ q[i].tok = tok)
         \/ \E k \in 1..Len(q) :
              /\ q[k].ep = ep /\ q[k].tok = tok
              /\ WithoutObserver(q, ep, tok) = RemoveAt(q, k)
<1> DEFINE T(o) == o.ep = ep /\ o.tok = tok
           I == {i \in 1..Len(q) : T(q[i])}
<1>1. CASE I # {}
  <2>1. I \subseteq Nat
    BY LenProperties
  <2>2. Min(I) \in I
    <3> HIDE DEF I
    <3> QED BY <1>1, <2>1, LeastElement DEF Min
  <2>3. WithoutObserver(q, ep, tok) = RemoveAt(q, Min(I))
    BY <1>1 DEF WithoutObserver, RemoveFirstMatch, SelectInSeq
  <2> QED BY <2>2, <2>3
<1>2. CASE I = {}
  BY <1>2 DEF WithoutObserver, RemoveFirstMatch
<1> QED BY <1>1, <1>2

\* q has the elements of p at the positions e, each once.
Embeds(q, p, e) ==
  /\ e \in [1..Len(q) -> 1..Len(p)]
  /\ \A i, j \in 1..Len(q) : e[i] = e[j] => i = j
  /\ \A i \in 1..Len(q) : q[i] = p[e[i]]

LEMMA RemoveAtEmbeds ==
  ASSUME NEW S, NEW p \in Seq(S), NEW k \in 1..Len(p)
  PROVE  \E e : /\ Embeds(RemoveAt(p, k), p, e)
                /\ \A i \in 1..Len(RemoveAt(p, k)) : e[i] # k
<1> DEFINE q == RemoveAt(p, k)
           e == [i \in 1..Len(q) |-> IF i < k THEN i ELSE i + 1]
<1>1. /\ Len(p) \in Nat /\ Len(q) = Len(p) - 1
      /\ \A i \in 1..Len(p)-1 : q[i] = IF i < k THEN p[i] ELSE p[i+1]
  BY LenProperties, RemoveAtProperties
<1> HIDE DEF q
<1>2. /\ e \in [1..Len(q) -> 1..Len(p)]
      /\ \A i, j \in 1..Len(q) : e[i] = e[j] => i = j
      /\ \A i \in 1..Len(q) : q[i] = p[e[i]] /\ e[i] # k
  BY <1>1
<1> HIDE DEF e
<1> QED BY <1>2 DEF Embeds, q

\* What WithoutObserver leaves is part of the list, and nothing in it has the
\* endpoint and token any more.
LEMMA WithoutObserverEmbeds ==
  ASSUME NEW p \in Seq(Observer), NEW ep, NEW tok,
         \A i, j \in 1..Len(p) : SameTarget(p[i], p[j]) => i = j
  PROVE  LET q == WithoutObserver(p, ep, tok) IN
         /\ \E e : Embeds(q, p, e)
         /\ \A i \in 1..Len(q) : ~(q[i].ep = ep /\ q[i].tok = tok)
<1> DEFINE q == WithoutObserver(p, ep, tok)
<1>1. CASE /\ q = p
           /\ \A i \in 1..Len(p) : ~(p[i].ep = ep /\ p[i].tok = tok)
  <2> DEFINE e == [i \in 1..Len(p) |-> i]
  <2>1. Embeds(p, p, e)
    BY DEF Embeds
  <2> HIDE DEF e, q
  <2> QED BY <1>1, <2>1 DEF q
<1>2. ASSUME NEW k \in 1..Len(p), p[k].ep = ep, p[k].tok = tok,
             q = RemoveAt(p, k)
      PROVE  /\ \E e : Embeds(q, p, e)
             /\ \A i \in 1..Len(q) : ~(q[i].ep = ep /\ q[i].tok = tok)
  <2>1. PICK e : Embeds(q, p, e) /\ \A i \in 1..Len(q) : e[i] # k
    BY <1>2, RemoveAtEmbeds
  <2> HIDE DEF q
  <2>2. ASSUME NEW i \in 1..Len(q), q[i].ep = ep, q[i].tok = tok PROVE FALSE
    <3>1. q[i] = p[e[i]] /\ e[i] \in 1..Len(p) /\ e[i] # k
      BY <2>1 DEF Embeds
    <3>2. SameTarget(p[e[i]], p[k])
      BY <1>2, <2>2, <3>1 DEF SameTarget
    <3> QED BY <3>1, <3>2
  <2> QED BY <2>1, <2>2
<1> HIDE DEF q
<1> QED BY <1>1, <1>2, WithoutObserverCases DEF q

LEMMA PartDistinct ==
  ASSUME NEW f \in [Resources -> Seq(Observer)], Distinct(f),
         NEW r \in Resources, NEW q, NEW e, Embeds(q, f[r], e)
  PROVE  Distinct([f EXCEPT ![r] = q])
<1> DEFINE g == [f EXCEPT ![r] = q]
<1>1. /\ g[r] = q
      /\ \A t \in Resources : t # r => g[t] = f[t]
  OBVIOUS
<1> HIDE DEF g
<1>2. ASSUME NEW t \in Resources, NEW i \in 1..Len(g[t])
      PROVE  \E k \in 1..Len(f[t]) :
               g[t][i] = f[t][k] /\ k = (IF t = r THEN e[i] ELSE i)
  BY <1>1 DEF Embeds
<1>3. Distinct(g)
  <2> SUFFICES ASSUME NEW t \in Resources, NEW u \in Resources,
                      NEW i \in 1..Len(g[t]), NEW j \in 1..Len(g[u]),
                      \/ g[t][i].id = g[u][j].id
                      \/ t = u /\ SameTarget(g[t][i], g[u][j])
               PROVE  t = u /\ i = j
    BY DEF Distinct
  <2>1. PICK k \in 1..Len(f[t]) :
          g[t][i] = f[t][k] /\ k = (IF t = r THEN e[i] ELSE i)
    BY <1>2
  <2>2. PICK l \in 1..Len(f[u]) :
          g[u][j] = f[u][l] /\ l = (IF u = r THEN e[j] ELSE j)
    BY <1>2
  <2>3. t = u /\ k = l
    BY <2>1, <2>2 DEF Distinct
  <2> QED BY <1>1, <2>1, <2>2, <2>3 DEF Embeds
<1> QED BY <1>3 DEF g

LEMMA AppendDistinct ==
  ASSUME NEW f \in [Resources -> Seq(Observer)], Distinct(f),
         NEW r \in Resources, NEW o \in Observer,
         \A t \in Resources : \A i \in 1..Len(f[t]) : f[t][i].id # o.id,
         \A i \in 1..Len(f[r]) : ~SameTarget(f[r][i], o)
  PROVE  Distinct([f EXCEPT ![r] = Append(f[r], o)])
<1> DEFINE q == Append(f[r], o)
           g == [f EXCEPT ![r] = q]
<1>1. /\ Len(f[r]) \in Nat /\ Len(q) = Len(f[r]) + 1
      /\ \A i \in 1..Len(f[r]) : q[i] = f[r][i]
      /\ q[Len(f[r]) + 1] = o
  BY LenProperties, AppendProperties
<1> HIDE DEF q
<1>2. g[r] = q /\ \A t \in Resources : t # r => g[t] = f[t]
  OBVIOUS
<1> HIDE DEF g
\* Each element is an old one at its place, or the new one at the end.
<1>3. ASSUME NEW t \in Resources, NEW i \in 1..Len(g[t])
      PROVE  \/ i \in 1..Len(f[t]) /\ g[t][i] = f[t][i]
             \/ t = r /\ i = Len(f[r]) + 1 /\ g[t][i] = o
  BY <1>1, <1>2
<1>4. Distinct(g)
  <2> SUFFICES ASSUME NEW t \in Resources, NEW u \in Resources,
                      NEW i \in 1..Len(g[t]), NEW j \in 1..Len(g[u]),
                      \/ g[t][i].id = g[u][j].id
                      \/ t = u /\ SameTarget(g[t][i], g[u][j])
               PROVE  t = u /\ i = j
    BY DEF Distinct
  <2>1. CASE /\ i \in 1..Len(f[t]) /\ g[t][i] = f[t][i]
             /\ j \in 1..Len(f[u]) /\ g[u][j] = f[u][j]
    BY <2>1 DEF Distinct
  <2>2. CASE /\ i \in 1..Len(f[t]) /\ g[t][i] = f[t][i]
             /\ u = r /\ j = Len(f[r]) + 1 /\ g[u][j] = o
    BY <2>2
  <2>3. CASE /\ j \in 1..Len(f[u]) /\ g[u][j] = f[u][j]
             /\ t = r /\ i = Len(f[r]) + 1 /\ g[t][i] = o
    BY <2>3 DEF SameTarget
  <2>4. CASE /\ t = r /\ i = Len(f[r]) + 1 /\ u = r /\ j = Len(f[r]) + 1
    BY <2>4
  <2> QED BY <1>3, <2>1, <2>2, <2>3, <2>4
<1> QED BY <1>4 DEF g, q

\* What a step may do to the observers.
Removes(r, ep, tok) ==
  observers' = [observers EXCEPT ![r] = WithoutObserver(@, ep, tok)]
Registers(r, o) ==
  observers' = [observers EXCEPT
                  ![r] = Append(WithoutObserver(@, o.ep, o.tok), o)]
ObserverChange ==
  \/ observers' = observers
  \/ \E r \in Resources : \E ep, tok : Removes(r, ep, tok)
  \/ \E r \in Resources, o \in Observer : o.id \in FreeObsSlots /\ Registers(r, o)

LEMMA OwnListDistinct ==
  ASSUME NEW f, Distinct(f), NEW r \in Resources
  PROVE  \A i, j \in 1..Len(f[r]) : SameTarget(f[r][i], f[r][j]) => i = j
BY DEF Distinct

\* Nothing in q has the endpoint and token; every element of q is one of p's.
NoTarget(q, ep, tok) == \A i \in 1..Len(q) : ~(q[i].ep = ep /\ q[i].tok = tok)
PartOf(q, p) == \A i \in 1..Len(q) : \E k \in 1..Len(p) : q[i] = p[k]

LEMMA RemovesDistinct ==
  ASSUME TypeOK, Distinct(observers), NEW r \in Resources, NEW ep, NEW tok,
         NEW q, q = WithoutObserver(observers[r], ep, tok)
  PROVE  /\ [observers EXCEPT ![r] = q] \in [Resources -> Seq(Observer)]
         /\ Distinct([observers EXCEPT ![r] = q])
         /\ NoTarget(q, ep, tok)
         /\ PartOf(q, observers[r])
<1>1. observers \in [Resources -> Seq(Observer)] /\ observers[r] \in Seq(Observer)
  BY DEF TypeOK
<1>2. q \in Seq(Observer)
  BY <1>1, WithoutObserverType
<1>3. /\ \E e : Embeds(q, observers[r], e)
      /\ NoTarget(q, ep, tok)
  BY <1>1, OwnListDistinct, WithoutObserverEmbeds DEF NoTarget
<1>4. Distinct([observers EXCEPT ![r] = q])
  BY <1>1, <1>3, PartDistinct
<1>5. PartOf(q, observers[r])
  BY <1>3 DEF Embeds, PartOf
<1>6. [observers EXCEPT ![r] = q] \in [Resources -> Seq(Observer)]
  BY <1>1, <1>2
<1> QED BY <1>3, <1>4, <1>5, <1>6

LEMMA RegistersDistinct ==
  ASSUME TypeOK, Distinct(observers), NEW r \in Resources, NEW o \in Observer,
         o.id \in FreeObsSlots, Registers(r, o)
  PROVE  Distinct(observers')
<1> DEFINE q == WithoutObserver(observers[r], o.ep, o.tok)
           f == [observers EXCEPT ![r] = q]
<1>1. observers \in [Resources -> Seq(Observer)]
  BY DEF TypeOK
<1>2. /\ f \in [Resources -> Seq(Observer)] /\ Distinct(f)
      /\ \A i \in 1..Len(q) : ~(q[i].ep = o.ep /\ q[i].tok = o.tok)
      /\ \A i \in 1..Len(q) :
           \E k \in 1..Len(observers[r]) : q[i] = observers[r][k]
  <2> HIDE DEF q
  <2>1. q = WithoutObserver(observers[r], o.ep, o.tok)
    BY DEF q
  <2> DEFINE ep == o.ep
             tok == o.tok
  <2>2. q = WithoutObserver(observers[r], ep, tok)
    BY <2>1
  <2> HIDE DEF ep, tok
  <2>3. /\ [observers EXCEPT ![r] = q] \in [Resources -> Seq(Observer)]
        /\ Distinct([observers EXCEPT ![r] = q])
    BY <2>2, RemovesDistinct
  <2>4. NoTarget(q, ep, tok) /\ PartOf(q, observers[r])
    BY <2>2, RemovesDistinct
  <2> QED BY <2>3, <2>4 DEF ep, tok, NoTarget, PartOf
<1>3. observers' = [observers EXCEPT ![r] = Append(q, o)]
  BY DEF Registers
<1> HIDE DEF q
<1>4. f[r] = q /\ \A t \in Resources : t # r => f[t] = observers[t]
  BY <1>1
<1> HIDE DEF f
<1>5. ASSUME NEW t \in Resources, NEW i \in 1..Len(f[t])
      PROVE  f[t][i].id # o.id
  <2>1. \A u \in Resources : \A k \in 1..Len(observers[u]) :
          observers[u][k].id # o.id
    BY DEF FreeObsSlots
  <2>2. \E k \in 1..Len(observers[t]) : f[t][i] = observers[t][k]
    BY <1>2, <1>4
  <2> QED BY <2>1, <2>2
<1>6. \A i \in 1..Len(f[r]) : ~SameTarget(f[r][i], o)
  BY <1>2, <1>4 DEF SameTarget
<1>7. observers' = [f EXCEPT ![r] = Append(f[r], o)]
  BY <1>1, <1>3, <1>4 DEF f
<1> QED BY <1>2, <1>5, <1>6, <1>7, AppendDistinct

LEMMA ChangeDistinct ==
  ASSUME TypeOK, Distinct(observers), ObserverChange
  PROVE  Distinct(observers')
<1>1. ASSUME NEW r \in Resources, NEW ep, NEW tok, Removes(r, ep, tok)
      PROVE  Distinct(observers')
  BY <1>1, RemovesDistinct DEF Removes
<1> QED BY <1>1, RegistersDistinct DEF ObserverChange

LEMMA AnswerChange ==
  ASSUME TypeInv, NEW code, NEW type, Answer(code, type)
  PROVE  ObserverChange
<1> DEFINE a == Allocated(ia[Head1])
           r == AnswerMsg(a, code, type)
<1>1. a.res \in Resources /\ Good(a) /\ a.role = "SERVER"
  BY AllocatedGood DEF Answer
<1>2. UNCHANGED observers \/ Register(a, r) \/ Deregister(a, r)
  BY DEF Answer
<1> HIDE DEF a, r
<1>3. CASE Deregister(a, r)
  BY <1>1, <1>3 DEF Deregister, ObserverChange, Removes
<1>4. CASE Register(a, r)
  <2>1. ASSUME NEW n \in FreeObsSlots,
               observers' = [observers EXCEPT ![a.res] =
                 Append(WithoutObserver(@, a.ep, a.req.tok),
                        [id |-> n, ep |-> a.ep, tok |-> a.req.tok])]
        PROVE  ObserverChange
    <3> DEFINE o == [id |-> n, ep |-> a.ep, tok |-> a.req.tok]
    <3>1. o \in Observer
      BY <1>1 DEF Observer, FreeObsSlots, Good, FitsRole, ReqMsg
    <3>2. o.id = n /\ o.ep = a.ep /\ o.tok = a.req.tok
      OBVIOUS
    <3>3. observers' = [observers EXCEPT ![a.res] =
             Append(WithoutObserver(observers[a.res], o.ep, o.tok), o)]
      BY <2>1
    <3> HIDE DEF o
    <3>4. Registers(a.res, o)
      BY <3>3 DEF Registers
    <3> QED BY <1>1, <3>1, <3>2, <3>4 DEF ObserverChange
  <2>2. CASE UNCHANGED observers
    BY <2>2 DEF ObserverChange
  <2> QED BY <1>4, <2>1, <2>2 DEF Register
<1>5. CASE UNCHANGED observers
  BY <1>5 DEF ObserverChange
<1> QED BY <1>2, <1>3, <1>4, <1>5

LEMMA WorkChange ==
  ASSUME TypeInv, doWork
  PROVE  ObserverChange
<1>1. CASE ServerWork
  <2>1. CASE MethodNotAllowed \/ RespAllocFails \/ PostponeWithAck
             \/ PostponeAgain \/ ResponseSent
    BY <2>1 DEF MethodNotAllowed, RespAllocFails, PostponeWithAck,
                PostponeAgain, ResponseSent, ObserverChange
  <2> QED BY <1>1, <2>1, AnswerChange DEF ServerWork
<1>2. CASE NotifyWork
  <2> DEFINE a == ia[Head1]
  <2>1. a.res \in Resources
    BY <1>2, TypeInvTyping, TurnType
    DEF NotifyWork, ReadyToNotify, NotificationSent, Good, FitsRole
  <2>2. CASE ReadyToNotify
    BY <2>2 DEF ReadyToNotify, ObserverChange
  <2>3. CASE NotificationWaiting(a) \/ NotificationRetry(a) \/ NotificationDone(a)
    BY <2>3 DEF NotificationWaiting, NotificationRetry, NotificationDone,
                ObserverChange
  <2>4. CASE NotificationAborted(a)
    BY <2>1, <2>4 DEF NotificationAborted, ObserverChange, Removes
  <2> QED BY <1>2, <2>2, <2>3, <2>4 DEF NotifyWork, NotificationSent
<1>3. CASE StillSleeping \/ RequesterWork
  BY <1>3 DEF StillSleeping, RequesterWork, ReadyToRequest, WaitingResponse,
              HandleResponse, ObserverChange
<1> QED BY <1>1, <1>2, <1>3 DEF doWork

LEMMA LoopChange ==
  ASSUME TypeInv, StartNotifyInteractions
  PROVE  ObserverChange
<1>1. LoopRes \in Resources
  BY LoopObserverType DEF StartNotifyInteractions
<1>2. CASE FlagPending \/ NoRoomForNotification \/ NotificationDropped
           \/ \E type \in NotifierTypes : StartNotification(type)
  BY <1>2 DEF FlagPending, NoRoomForNotification, NotificationDropped,
              StartNotification, ObserverChange
<1>3. ASSUME NEW type, NotifierError(type)
      PROVE  ObserverChange
  BY <1>1, <1>3 DEF NotifierError, ObserverChange, Removes
<1> QED BY <1>2, <1>3 DEF StartNotifyInteractions

LEMMA NextChange ==
  ASSUME TypeInv, [Next]_vars
  PROVE  ObserverChange
<1>1. CASE onNewPacketHandler
  BY <1>1 DEF onNewPacketHandler, ReceivePing, ReceiveIgnored,
              ReceiveUnknownResource, ReceiveBadOption, StateUnchanged,
              ReceiveReset, ReceiveAck, ReceiveRequest,
              StartNewServerInteraction, ReceiveSeparate, ObserverChange
<1>2. ASSUME NEW r \in Changing, NotifyResourceObservers(r)
      PROVE  ObserverChange
  BY <1>2 DEF NotifyResourceObservers, ObserverChange
<1>3. ASSUME NEW ep \in Servers, StartNewGetRequest(ep)
      PROVE  ObserverChange
  BY <1>3 DEF StartNewGetRequest, ObserverChange
<1>4. CASE Tick \/ UNCHANGED vars
  BY <1>4 DEF Tick, vars, ObserverChange
<1> QED BY <1>1, <1>2, <1>3, <1>4, WorkChange, LoopChange DEF Next

LEMMA DistinctInvariant == Spec => []Distinct(observers)
<1>1. Init => Distinct(observers)
  <2> SUFFICES ASSUME Init PROVE Distinct(observers)
    OBVIOUS
  <2>1. \A r \in Resources : observers[r] = <<>>
    BY DEF Init
  <2> QED BY <2>1 DEF Distinct
<1>2. TypeInv /\ Distinct(observers) /\ [Next]_vars => Distinct(observers)'
  BY NextChange, ChangeDistinct DEF TypeInv, Distinct
<1> QED BY <1>1, <1>2, TypeInvariant, PTL DEF Spec

\* A client that registers again, cancels, is reset or stays silent never
\* leaves the resource with two observations of one endpoint and token, and no
\* observer's block is in two lists (CoAP_HandleObservationInReq unlinks the
\* old observer before it appends the new one).
THEOREM ObserversDistinct == Spec => []ObserversUnique
<1>1. Distinct(observers) => ObserversUnique
  BY DistinctIsUnique
<1> QED BY <1>1, DistinctInvariant, PTL

(***************************************************************************)
(* Observations and their notifications.  A notification belongs to an     *)
(* observer of its resource (PendingObserved).  A cancellation aborts the  *)
(* client's first notification with the token asked for, whatever its      *)
(* resource, so these theorems need a client that does not use one token   *)
(* for two resources (TokensNameResources; RFC 7252 asks that the tokens   *)
(* in use be unique).                                                      *)
(***************************************************************************)
\* Some request may register or cancel the observation of r by ep and tok.
Names(ep, tok, r) ==
  \E p \in Packets :
    /\ IsRequest(p) /\ p.obs \in {"REGISTER", "DEREGISTER"}
    /\ p.ep = ep /\ p.tok = tok /\ p.res = r

TokensNameResources ==
  \A ep, tok, r, q : Names(ep, tok, r) /\ Names(ep, tok, q) => r = q

IsNotification(s) == ia[s].role = "NOTIFICATION"

NamesInv ==
  /\ \A s \in Linked :
       ia[s].role = "SERVER" /\ ia[s].req.obs \in {"REGISTER", "DEREGISTER"}
       => Names(ia[s].ep, ia[s].req.tok, ia[s].res)
  /\ \A r \in Resources : \A i \in 1..Len(observers[r]) :
       Names(observers[r][i].ep, observers[r][i].tok, r)

PendingObserved ==
  \A s \in Linked : IsNotification(s) =>
    /\ ia[s].res \in Resources /\ ia[s].req = NoReq
    /\ \E i \in 1..Len(observers[ia[s].res]) :
         /\ observers[ia[s].res][i].ep = ia[s].ep
         /\ observers[ia[s].res][i].tok = ia[s].resp.tok

ObsInv == NamesInv /\ PendingObserved

\* What holds whenever a step begins.
Observing == TypeInv /\ UniqueInv /\ Distinct(observers) /\ ObsInv

LEMMA ObservingBase ==
  ASSUME Observing
  PROVE  /\ Base /\ Linked = Elems(list) /\ Elems(list) \subseteq Slots
         /\ list \in Seq(Slots) /\ NoDup(list)
         /\ observers \in [Resources -> Seq(Observer)]
BY InvBase, LinkedIsElems, ElemsAreSlots
DEF Observing, UniqueInv, TypeInv, TypeOK, ListInv

\* An observer that is not meant stays.
LEMMA OthersStay ==
  ASSUME NEW p \in Seq(Observer), NEW ep, NEW tok, NEW i \in 1..Len(p),
         ~(p[i].ep = ep /\ p[i].tok = tok)
  PROVE  \E j \in 1..Len(WithoutObserver(p, ep, tok)) :
           WithoutObserver(p, ep, tok)[j] = p[i]
<1> DEFINE q == WithoutObserver(p, ep, tok)
<1>1. CASE q = p
  BY <1>1
<1>2. ASSUME NEW k \in 1..Len(p), p[k].ep = ep, p[k].tok = tok,
             q = RemoveAt(p, k)
      PROVE  \E j \in 1..Len(q) : q[j] = p[i]
  <2>1. /\ Len(p) \in Nat /\ Len(q) = Len(p) - 1
        /\ \A j \in 1..Len(p)-1 : q[j] = IF j < k THEN p[j] ELSE p[j+1]
    <3> HIDE DEF q
    <3>1. p \in Seq(Observer) /\ k \in 1..Len(p) /\ q = RemoveAt(p, k)
      BY <1>2
    <3>2. Len(p) \in Nat
      BY LenProperties
    <3>3. /\ Len(RemoveAt(p, k)) = Len(p) - 1
          /\ \A j \in 1..Len(p)-1 :
               RemoveAt(p, k)[j] = IF j < k THEN p[j] ELSE p[j+1]
      BY ONLY <3>1, RemoveAtProperties
    <3> QED BY <3>1, <3>2, <3>3
  <2> HIDE DEF q
  <2>2. i # k
    BY <1>2
  <2>3. CASE i < k
    <3>1. i \in 1..Len(q) /\ q[i] = p[i]
      BY <2>1, <2>3
    <3> QED BY <3>1
  <2>4. CASE i > k
    <3>1. i-1 \in 1..Len(q) /\ q[i-1] = p[(i-1)+1] /\ (i-1)+1 = i
      BY <2>1, <2>4
    <3> QED BY <3>1
  <2> QED BY <2>1, <2>2, <2>3, <2>4
<1> HIDE DEF q
<1>3. \/ q = p
      \/ \E k \in 1..Len(p) : /\ p[k].ep = ep /\ p[k].tok = tok
                              /\ q = RemoveAt(p, k)
  BY WithoutObserverCases DEF q
<1> QED BY <1>1, <1>2, <1>3 DEF q

\* Of observers with different targets, exactly the one meant is removed.
LEMMA RemovesMeant ==
  ASSUME NEW p \in Seq(Observer), NEW k \in 1..Len(p),
         \A i, j \in 1..Len(p) : SameTarget(p[i], p[j]) => i = j
  PROVE  WithoutObserver(p, p[k].ep, p[k].tok) = RemoveAt(p, k)
<1> DEFINE q == WithoutObserver(p, p[k].ep, p[k].tok)
<1>1. \/ \A j \in 1..Len(p) : ~(p[j].ep = p[k].ep /\ p[j].tok = p[k].tok)
      \/ \E j \in 1..Len(p) : /\ p[j].ep = p[k].ep /\ p[j].tok = p[k].tok
                              /\ q = RemoveAt(p, j)
  BY WithoutObserverCases
<1> HIDE DEF q
<1>2. q = RemoveAt(p, k)
  BY <1>1 DEF SameTarget
<1> QED BY <1>2 DEF q

\* Removing the observer at position k moves the ones behind it one place to
\* the front.
LEMMA LaterStay ==
  ASSUME NEW p \in Seq(Observer), NEW k \in 1..Len(p),
         \A i, j \in 1..Len(p) : SameTarget(p[i], p[j]) => i = j,
         NEW i \in 1..Len(p), i > k
  PROVE  LET q == WithoutObserver(p, p[k].ep, p[k].tok)
         IN i-1 \in k..Len(q) /\ q[i-1] = p[i]
<1> DEFINE q == WithoutObserver(p, p[k].ep, p[k].tok)
<1>1. q = RemoveAt(p, k)
  BY RemovesMeant
<1> HIDE DEF q
<1>2. /\ Len(p) \in Nat /\ Len(q) = Len(p) - 1
      /\ \A j \in 1..Len(p)-1 : q[j] = IF j < k THEN p[j] ELSE p[j+1]
  BY <1>1, LenProperties, RemoveAtProperties
<1>3. i-1 \in k..Len(q) /\ q[i-1] = p[(i-1)+1] /\ (i-1)+1 = i
  BY <1>2
<1> QED BY <1>3 DEF q

(***************************************************************************)
(* What a step does to the observers, and which notifications it leaves.   *)
(***************************************************************************)
\* No notification of resource r to this endpoint, with this token, is left.
NoneLeft(r, ep, tok) ==
  \A s \in Elems(list') :
    ~(/\ IsNotification(s) /\ ia[s].res = r /\ ia[s].ep = ep
      /\ ia[s].resp.tok = tok)

ObserverEffect ==
  \/ observers' = observers
  \/ \E r \in Resources, o \in Observer :
       Names(o.ep, o.tok, r) /\ Registers(r, o)
  \/ \E r \in Resources : \E ep, tok : Removes(r, ep, tok) /\ NoneLeft(r, ep, tok)

\* The interactions a transmission leaves: all of the list but the head.
LEMMA SendRespLeaves ==
  ASSUME NEW q \in Seq(Slots), NoDup(q), Head1 \in Slots, NEW a, NEW next, NEW h,
         SendResp(a, next, q, h)
  PROVE  /\ Elems(list') \subseteq Elems(q) \cup {Head1}
         /\ Elems(q) \ {Head1} \subseteq Elems(list')
<1>1. CASE list' = MoveToListEnd(q, Head1)
  BY <1>1, MoveToListEndElems
<1>2. CASE list' = Unlink(q, Head1)
  BY <1>2, UnlinkElems
<1>3. CASE list' = q
  BY <1>3
<1> QED BY <1>1, <1>2, <1>3 DEF SendResp, RespRefused

\* A client that uses a token for one resource only cancels the notification
\* of the very observation it names.
LEMMA DeregisterEffect ==
  ASSUME Observing, TokensNameResources, Head1 \in Elems(list),
         NEW a, a.role = "SERVER", SameKey(ia[Head1], a), a.res \in Resources,
         a.req.obs = "DEREGISTER", NEW r, Deregister(a, r)
  PROVE  /\ Removes(a.res, a.ep, a.req.tok)
         /\ NoneLeft(a.res, a.ep, a.req.tok)
         /\ \A t \in Elems(list) :
              \/ t = Head1 \/ t \in Elems(list')
              \/ /\ IsNotification(t) /\ ia[t].res = a.res
                 /\ ia[t].ep = a.ep /\ ia[t].resp.tok = a.req.tok
<1> USE ObservingBase
<1> DEFINE P == PendingWithToken(a.ep, a.req.tok)
           s == list[First(P)]
<1>1. Names(a.ep, a.req.tok, a.res)
  BY DEF Observing, ObsInv, NamesInv, SameKey
<1>2. Removes(a.res, a.ep, a.req.tok)
  BY DEF Deregister, Removes
<1>3. P \subseteq 1..Len(list)
  BY DEF PendingWithToken, Matching
<1>4. \A i \in 1..Len(list) :
        i \in P <=> /\ IsNotification(list[i]) /\ ia[list[i]].ep = a.ep
                    /\ ia[list[i]].resp.tok = a.req.tok
  BY DEF PendingWithToken, Matching, IsNotification
\* The notification's own observer names its resource.
<1>5. ASSUME NEW t \in Elems(list), IsNotification(t), ia[t].ep = a.ep,
             ia[t].resp.tok = a.req.tok
      PROVE  ia[t].res = a.res
  <2>1. Names(ia[t].ep, ia[t].resp.tok, ia[t].res)
    BY <1>5 DEF Observing, ObsInv, PendingObserved, NamesInv
  <2> QED BY <1>1, <1>5, <2>1 DEF TokensNameResources
<1>6. ~IsNotification(Head1)
  BY DEF SameKey, IsNotification
<1>7. CASE P = {}
  <2>1. SendResp([a EXCEPT !.resp = r], "RESPONSE_SENT", list, ia)
    BY <1>7 DEF Deregister
  <2>2. /\ Elems(list') \subseteq Elems(list) \cup {Head1}
        /\ Elems(list) \ {Head1} \subseteq Elems(list')
    BY <2>1, SendRespLeaves
  <2> HIDE DEF P
  <2>3. \A t \in Elems(list) :
          ~(/\ IsNotification(t) /\ ia[t].ep = a.ep
            /\ ia[t].resp.tok = a.req.tok)
    BY <1>4, <1>7 DEF Elems
  <2> QED BY <1>2, <2>2, <2>3 DEF NoneLeft
<1>8. CASE P # {}
  <2>1. SendResp([a EXCEPT !.resp = r], "RESPONSE_SENT",
                 Unlink(list, s), Freed(ia, s))
    BY <1>8 DEF Deregister
  <2>2. First(P) \in P
    <3> HIDE DEF P
    <3>1. Len(list) \in Nat
      BY LenProperties
    <3>2. P \subseteq Nat
      BY <1>3, <3>1
    <3> QED BY <1>8, <3>2, FirstIsFirst
  <2>3. /\ s \in Elems(list) /\ IsNotification(s) /\ ia[s].ep = a.ep
        /\ ia[s].resp.tok = a.req.tok
    <3> HIDE DEF P
    <3> QED BY <1>3, <1>4, <2>2 DEF Elems
  <2> HIDE DEF s, P
  <2>4. ia[s].res = a.res
    BY <1>5, <2>3
  <2>5. /\ Unlink(list, s) \in Seq(Slots) /\ NoDup(Unlink(list, s))
        /\ Elems(Unlink(list, s)) = Elems(list) \ {s}
    BY UnlinkType, UnlinkElems
  <2>6. /\ Elems(list') \subseteq (Elems(list) \ {s}) \cup {Head1}
        /\ (Elems(list) \ {s}) \ {Head1} \subseteq Elems(list')
    BY <2>1, <2>5, SendRespLeaves
  <2>7. NoneLeft(a.res, a.ep, a.req.tok)
    <3> SUFFICES ASSUME NEW t \in Elems(list'), IsNotification(t),
                        ia[t].res = a.res, ia[t].ep = a.ep
                 PROVE  FALSE
      BY DEF NoneLeft
    <3>1. t \in Elems(list) /\ t # s
      BY <1>6, <2>6, <2>3
    <3> QED BY <2>3, <2>4, <3>1
            DEF Observing, UniqueInv, OneNotificationPerObserver, IsNotification
  <2> QED BY <1>2, <2>3, <2>4, <2>6, <2>7
<1> QED BY <1>7, <1>8

LEMMA RegisterEffect ==
  ASSUME Observing, Head1 \in Elems(list),
         NEW a, Good(a), a.role = "SERVER", SameKey(ia[Head1], a),
         a.req.obs = "REGISTER", NEW r, Register(a, r)
  PROVE  ObserverEffect
<1>1. Names(a.ep, a.req.tok, a.res)
  BY ObservingBase DEF Observing, ObsInv, NamesInv, SameKey
<1>2. a.res \in Resources /\ a.ep \in Eps /\ a.req.tok \in Nat
  BY DEF Good, FitsRole, ReqMsg
<1>3. ASSUME NEW n \in FreeObsSlots,
             observers' = [observers EXCEPT ![a.res] =
               Append(WithoutObserver(@, a.ep, a.req.tok),
                      [id |-> n, ep |-> a.ep, tok |-> a.req.tok])]
      PROVE  ObserverEffect
  <2> DEFINE o == [id |-> n, ep |-> a.ep, tok |-> a.req.tok]
  <2>1. o \in Observer /\ o.ep = a.ep /\ o.tok = a.req.tok
    BY <1>2 DEF Observer, FreeObsSlots
  <2>2. observers' = [observers EXCEPT ![a.res] =
           Append(WithoutObserver(observers[a.res], o.ep, o.tok), o)]
    BY <1>3
  <2> HIDE DEF o
  <2> QED BY <1>1, <1>2, <2>1, <2>2 DEF Registers, ObserverEffect
<1> QED BY <1>3 DEF Register, ObserverEffect

LEMMA AnswerEffect ==
  ASSUME Observing, TokensNameResources, NEW code, NEW type, Answer(code, type)
  PROVE  ObserverEffect
<1> DEFINE a == Allocated(ia[Head1])
           r == AnswerMsg(a, code, type)
<1>1. Head1 \in Elems(list) /\ SameKey(ia[Head1], a)
  BY ObservingBase, TurnElem, AllocatedKey DEF Answer, Handling
<1>2. a.res \in Resources /\ Good(a) /\ a.role = "SERVER"
  BY AllocatedGood DEF Answer, Observing
<1>3. \/ UNCHANGED observers
      \/ Observes(a, code, "REGISTER") /\ Register(a, r)
      \/ Observes(a, code, "DEREGISTER") /\ Deregister(a, r)
  BY DEF Answer
<1> HIDE DEF a, r
<1> QED BY <1>1, <1>2, <1>3, RegisterEffect, DeregisterEffect
        DEF Observes, ObserverEffect

LEMMA AbortedEffect ==
  ASSUME Observing, Head1 \in Elems(list), IsNotification(Head1),
         NotificationAborted(ia[Head1])
  PROVE  /\ Removes(ia[Head1].res, ia[Head1].ep, ia[Head1].resp.tok)
         /\ NoneLeft(ia[Head1].res, ia[Head1].ep, ia[Head1].resp.tok)
         /\ ia[Head1].res \in Resources
<1> USE ObservingBase
<1>1. Elems(list') = Elems(list) \ {Head1}
  BY UnlinkElems DEF NotificationAborted, Delete
<1>2. NoneLeft(ia[Head1].res, ia[Head1].ep, ia[Head1].resp.tok)
  BY <1>1 DEF Observing, UniqueInv, OneNotificationPerObserver, IsNotification,
              NoneLeft
<1>3. ia[Head1].res \in Resources
  BY DEF Observing, ObsInv, PendingObserved
<1> QED BY <1>2, <1>3 DEF NotificationAborted, Removes

LEMMA WorkEffect ==
  ASSUME Observing, TokensNameResources, doWork
  PROVE  ObserverEffect
<1> USE ObservingBase
<1>1. CASE ServerWork
  <2>1. CASE MethodNotAllowed \/ RespAllocFails \/ PostponeWithAck
             \/ PostponeAgain \/ ResponseSent
    BY <2>1 DEF MethodNotAllowed, RespAllocFails, PostponeWithAck,
                PostponeAgain, ResponseSent, ObserverEffect
  <2> QED BY <1>1, <2>1, AnswerEffect DEF ServerWork
<1>2. CASE NotifyWork
  <2> DEFINE a == ia[Head1]
  <2>1. Head1 \in Elems(list) /\ IsNotification(Head1)
    BY <1>2, TurnElem
    DEF NotifyWork, ReadyToNotify, NotificationSent, IsNotification
  <2>2. CASE NotificationAborted(a)
    BY <2>1, <2>2, AbortedEffect DEF ObserverEffect
  <2>3. CASE ~NotificationAborted(a)
    BY <1>2, <2>3
    DEF NotifyWork, ReadyToNotify, NotificationSent, NotificationWaiting,
        NotificationRetry, NotificationDone, ObserverEffect
  <2> QED BY <2>2, <2>3
<1>3. CASE StillSleeping \/ RequesterWork
  BY <1>3 DEF StillSleeping, RequesterWork, ReadyToRequest, WaitingResponse,
              HandleResponse, ObserverEffect
<1> QED BY <1>1, <1>2, <1>3 DEF doWork

LEMMA LoopEffect ==
  ASSUME Observing, StartNotifyInteractions
  PROVE  ObserverEffect
<1>1. CASE FlagPending \/ NoRoomForNotification \/ NotificationDropped
           \/ \E type \in NotifierTypes : StartNotification(type)
  BY <1>1 DEF FlagPending, NoRoomForNotification, NotificationDropped,
              StartNotification, ObserverEffect
<1>2. ASSUME NEW type, NotifierError(type)
      PROVE  ObserverEffect
  <2>1. LoopRes \in Resources
    BY LoopObserverType DEF Observing, StartNotifyInteractions
  <2>2. Removes(LoopRes, LoopObserver.ep, LoopObserver.tok) /\ list' = list
    BY <1>2 DEF NotifierError, Removes
  <2>3. \A i \in 1..Len(list) :
          ~(/\ IsNotification(list[i]) /\ ia[list[i]].res = LoopRes
            /\ ia[list[i]].ep = LoopObserver.ep)
    BY <1>2 DEF NotifierError, PendingNotification, Matching, IsNotification
  <2>4. NoneLeft(LoopRes, LoopObserver.ep, LoopObserver.tok)
    BY <2>2, <2>3 DEF NoneLeft, Elems
  <2> QED BY <2>1, <2>2, <2>4 DEF ObserverEffect
<1> QED BY <1>1, <1>2 DEF StartNotifyInteractions

LEMMA NextEffect ==
  ASSUME Observing, TokensNameResources, [Next]_vars
  PROVE  ObserverEffect
<1>1. CASE onNewPacketHandler
  BY <1>1 DEF onNewPacketHandler, ReceivePing, ReceiveIgnored,
              ReceiveUnknownResource, ReceiveBadOption, StateUnchanged,
              ReceiveReset, ReceiveAck, ReceiveRequest,
              StartNewServerInteraction, ReceiveSeparate, ObserverEffect
<1>2. ASSUME NEW r \in Changing, NotifyResourceObservers(r)
      PROVE  ObserverEffect
  BY <1>2 DEF NotifyResourceObservers, ObserverEffect
<1>3. ASSUME NEW ep \in Servers, StartNewGetRequest(ep)
      PROVE  ObserverEffect
  BY <1>3 DEF StartNewGetRequest, ObserverEffect
<1>4. CASE Tick \/ UNCHANGED vars
  BY <1>4 DEF Tick, vars, ObserverEffect
<1> QED BY <1>1, <1>2, <1>3, <1>4, WorkEffect, LoopEffect DEF Next

(***************************************************************************)
(* The names and the observers of what is linked.                          *)
(***************************************************************************)
LEMMA EffectNames ==
  ASSUME Observing, ObserverEffect
  PROVE  \A r \in Resources : \A i \in 1..Len(observers'[r]) :
           Names(observers'[r][i].ep, observers'[r][i].tok, r)
<1> USE ObservingBase
<1>1. \A r \in Resources : \A i \in 1..Len(observers[r]) :
        Names(observers[r][i].ep, observers[r][i].tok, r)
  BY DEF Observing, ObsInv, NamesInv
\* What is left of a list is named as it was.
<1>2. ASSUME NEW r \in Resources, NEW ep, NEW tok
      PROVE  /\ WithoutObserver(observers[r], ep, tok) \in Seq(Observer)
             /\ \A i \in 1..Len(WithoutObserver(observers[r], ep, tok)) :
                  Names(WithoutObserver(observers[r], ep, tok)[i].ep,
                        WithoutObserver(observers[r], ep, tok)[i].tok, r)
  <2> DEFINE q == WithoutObserver(observers[r], ep, tok)
  <2>1. PartOf(q, observers[r])
    <3>1. q = WithoutObserver(observers[r], ep, tok)
      OBVIOUS
    <3> HIDE DEF q
    <3> QED BY <3>1, RemovesDistinct DEF Observing, TypeInv
  <2>2. q \in Seq(Observer)
    BY WithoutObserverType
  <2> HIDE DEF q
  <2> QED BY <1>1, <2>1, <2>2 DEF PartOf, q
<1>3. ASSUME NEW r \in Resources, NEW o \in Observer, Names(o.ep, o.tok, r),
             Registers(r, o)
      PROVE  \A u \in Resources : \A i \in 1..Len(observers'[u]) :
               Names(observers'[u][i].ep, observers'[u][i].tok, u)
  <2> DEFINE q == WithoutObserver(observers[r], o.ep, o.tok)
  <2>1. /\ q \in Seq(Observer)
        /\ \A i \in 1..Len(q) : Names(q[i].ep, q[i].tok, r)
    BY <1>2
  <2>2. observers' = [observers EXCEPT ![r] = Append(q, o)]
    BY <1>3 DEF Registers
  <2> HIDE DEF q
  <2>3. /\ observers'[r] = Append(q, o)
        /\ \A u \in Resources : u # r => observers'[u] = observers[u]
    BY <2>2
  <2>4. /\ Len(q) \in Nat /\ Len(Append(q, o)) = Len(q) + 1
        /\ \A i \in 1..Len(q) : Append(q, o)[i] = q[i]
        /\ Append(q, o)[Len(q) + 1] = o
    BY <2>1, LenProperties, AppendProperties
  <2>5. \A i \in 1..Len(observers'[r]) :
          Names(observers'[r][i].ep, observers'[r][i].tok, r)
    BY <1>3, <2>1, <2>3, <2>4
  <2> QED BY <1>1, <2>3, <2>5
<1>4. ASSUME NEW r \in Resources, NEW ep, NEW tok, Removes(r, ep, tok)
      PROVE  \A u \in Resources : \A i \in 1..Len(observers'[u]) :
               Names(observers'[u][i].ep, observers'[u][i].tok, u)
  <2>1. /\ observers'[r] = WithoutObserver(observers[r], ep, tok)
        /\ \A u \in Resources : u # r => observers'[u] = observers[u]
    BY <1>4 DEF Removes
  <2>2. \A i \in 1..Len(observers'[r]) :
          Names(observers'[r][i].ep, observers'[r][i].tok, r)
    BY <1>2, <2>1
  <2> QED BY <1>1, <2>1, <2>2
<1> QED BY <1>1, <1>3, <1>4 DEF ObserverEffect

\* An observer stays when it is not removed, or is registered anew.
LEMMA EffectObserves ==
  ASSUME Observing, ObserverEffect, NEW r \in Resources, NEW ep, NEW tok,
         ~NoneLeft(r, ep, tok),
         \E i \in 1..Len(observers[r]) :
           observers[r][i].ep = ep /\ observers[r][i].tok = tok
  PROVE  \E i \in 1..Len(observers'[r]) :
           observers'[r][i].ep = ep /\ observers'[r][i].tok = tok
<1> USE ObservingBase
<1>1. PICK i \in 1..Len(observers[r]) :
        observers[r][i].ep = ep /\ observers[r][i].tok = tok
  OBVIOUS
<1>2. ASSUME NEW u \in Resources, NEW o \in Observer, Registers(u, o)
      PROVE  \E j \in 1..Len(observers'[r]) :
               observers'[r][j].ep = ep /\ observers'[r][j].tok = tok
  <2> DEFINE q == WithoutObserver(observers[u], o.ep, o.tok)
  <2>1. q \in Seq(Observer)
    BY WithoutObserverType
  <2>2. /\ observers'[u] = Append(q, o)
        /\ \A t \in Resources : t # u => observers'[t] = observers[t]
    BY <1>2 DEF Registers
  <2>3. CASE u # r
    BY <1>1, <2>2, <2>3
  <2>4. CASE u = r /\ o.ep = ep /\ o.tok = tok
    <3> HIDE DEF q
    <3>1. /\ Len(q) + 1 \in 1..Len(Append(q, o))
          /\ Append(q, o)[Len(q) + 1] = o
      BY <2>1, LenProperties, AppendProperties
    <3> QED BY <2>2, <2>4, <3>1
  <2>5. CASE u = r /\ ~(o.ep = ep /\ o.tok = tok)
    <3>1. PICK j \in 1..Len(q) : q[j] = observers[r][i]
      BY <1>1, <2>5, OthersStay
    <3> HIDE DEF q
    <3>2. j \in 1..Len(Append(q, o)) /\ Append(q, o)[j] = q[j]
      BY <2>1, LenProperties, AppendProperties
    <3> QED BY <1>1, <2>2, <2>5, <3>1, <3>2
  <2> QED BY <2>3, <2>4, <2>5
<1>3. ASSUME NEW u \in Resources, NEW e, NEW k, Removes(u, e, k),
             NoneLeft(u, e, k)
      PROVE  \E j \in 1..Len(observers'[r]) :
               observers'[r][j].ep = ep /\ observers'[r][j].tok = tok
  <2>1. /\ observers'[u] = WithoutObserver(observers[u], e, k)
        /\ \A t \in Resources : t # u => observers'[t] = observers[t]
    BY <1>3 DEF Removes
  <2>2. CASE u # r
    BY <1>1, <2>1, <2>2
  <2>3. CASE u = r
    <3>1. ~(ep = e /\ tok = k)
      BY <1>3, <2>3
    <3>2. /\ observers[r] \in Seq(Observer)
          /\ ~(observers[r][i].ep = e /\ observers[r][i].tok = k)
      BY <1>1, <3>1
    <3>3. \E j \in 1..Len(WithoutObserver(observers[r], e, k)) :
            WithoutObserver(observers[r], e, k)[j] = observers[r][i]
      BY <3>2, OthersStay
    <3> QED BY <1>1, <2>1, <2>3, <3>3
  <2> QED BY <2>2, <2>3
<1> QED BY <1>1, <1>2, <1>3 DEF ObserverEffect

LEMMA NextNames ==
  ASSUME Observing, ObserverEffect, Keeps \/ AddsOne
  PROVE  NamesInv'
<1> USE ObservingBase, LinkedIsElemsNext
<1>1. \A s \in Elems(list) :
        /\ ia[s].role = "SERVER" /\ ia[s].req.obs \in {"REGISTER", "DEREGISTER"}
        => Names(ia[s].ep, ia[s].req.tok, ia[s].res)
  BY DEF Observing, ObsInv, NamesInv
<1>2. ASSUME NEW s \in Elems(list'), ia'[s].role = "SERVER",
             ia'[s].req.obs \in {"REGISTER", "DEREGISTER"}
      PROVE  Names(ia'[s].ep, ia'[s].req.tok, ia'[s].res)
  <2>1. CASE s \in Elems(list) /\ SameKey(ia[s], ia'[s])
    BY <1>1, <1>2, <2>1 DEF SameKey
  <2>2. CASE \E p \in Packets : IsRequest(p) /\ AddsRequest(s, p)
    BY <1>2, <2>2 DEF AddsRequest, Names
  <2>3. \/ s \in Elems(list) /\ SameKey(ia[s], ia'[s])
        \/ \E p \in Packets : IsRequest(p) /\ AddsRequest(s, p)
    BY <1>2 DEF Keeps, AddsOne, Adds, AddsRequest, AddsNotification, AddsClient
  <2> QED BY <2>1, <2>2, <2>3
<1>3. \A s \in Linked' :
        /\ ia'[s].role = "SERVER"
        /\ ia'[s].req.obs \in {"REGISTER", "DEREGISTER"}
        => Names(ia'[s].ep, ia'[s].req.tok, ia'[s].res)
  BY <1>2
<1> QED BY <1>3, EffectNames DEF NamesInv

LEMMA NextObserved ==
  ASSUME Observing, ObserverEffect, Keeps \/ AddsOne
  PROVE  PendingObserved'
<1> USE ObservingBase, LinkedIsElemsNext
<1>1. ASSUME NEW s \in Elems(list'), s \in Elems(list),
             SameKey(ia[s], ia'[s]), ia'[s].role = "NOTIFICATION"
      PROVE  /\ ia'[s].res \in Resources /\ ia'[s].req = NoReq
             /\ \E i \in 1..Len(observers'[ia'[s].res]) :
                  /\ observers'[ia'[s].res][i].ep = ia'[s].ep
                  /\ observers'[ia'[s].res][i].tok = ia'[s].resp.tok
  <2>1. /\ IsNotification(s) /\ ia'[s].res = ia[s].res /\ ia'[s].ep = ia[s].ep
        /\ ia'[s].req = ia[s].req /\ ia'[s].resp.tok = ia[s].resp.tok
    BY <1>1 DEF SameKey, SameObservation, IsNotification
  <2>2. /\ ia[s].res \in Resources /\ ia[s].req = NoReq
        /\ \E i \in 1..Len(observers[ia[s].res]) :
             /\ observers[ia[s].res][i].ep = ia[s].ep
             /\ observers[ia[s].res][i].tok = ia[s].resp.tok
    BY <1>1, <2>1 DEF Observing, ObsInv, PendingObserved
  <2>3. ~NoneLeft(ia[s].res, ia[s].ep, ia[s].resp.tok)
    BY <1>1, <2>1 DEF NoneLeft
  <2>4. \E i \in 1..Len(observers'[ia[s].res]) :
          /\ observers'[ia[s].res][i].ep = ia[s].ep
          /\ observers'[ia[s].res][i].tok = ia[s].resp.tok
    <3>1. PICK r, ep, tok : /\ r \in Resources /\ r = ia[s].res
                            /\ ep = ia[s].ep /\ tok = ia[s].resp.tok
      BY <2>2
    <3>2. r \in Resources /\ ~NoneLeft(r, ep, tok)
      BY <2>3, <3>1
    <3>3. \E i \in 1..Len(observers[r]) :
            observers[r][i].ep = ep /\ observers[r][i].tok = tok
      BY <2>2, <3>1
    <3>4. \E i \in 1..Len(observers'[r]) :
            observers'[r][i].ep = ep /\ observers'[r][i].tok = tok
      BY <3>2, <3>3, EffectObserves
    <3> QED BY <3>1, <3>4
  <2> QED BY <2>1, <2>2, <2>4
<1>2. ASSUME NEW s \in Elems(list'), AddsNotification(s)
      PROVE  /\ ia'[s].res \in Resources /\ ia'[s].req = NoReq
             /\ \E i \in 1..Len(observers'[ia'[s].res]) :
                  /\ observers'[ia'[s].res][i].ep = ia'[s].ep
                  /\ observers'[ia'[s].res][i].tok = ia'[s].resp.tok
  <2>1. /\ LoopRes \in Resources
        /\ notifying.pos \in 1..Len(observers[LoopRes])
    BY <1>2 DEF AddsNotification, Observing, TypeInv, PointersOK,
                LoopAtObserver, LoopRes
  <2> QED BY <1>2, <2>1 DEF AddsNotification, LoopObserver
<1>3. ASSUME NEW s \in Elems(list'), ia'[s].role = "NOTIFICATION"
      PROVE  \/ s \in Elems(list) /\ SameKey(ia[s], ia'[s])
             \/ AddsNotification(s)
  BY <1>3 DEF Keeps, AddsOne, Adds, AddsRequest, AddsNotification, AddsClient
<1> QED BY <1>1, <1>2, <1>3 DEF PendingObserved, IsNotification

LEMMA InitObs == Init => ObsInv
<1> SUFFICES ASSUME Init PROVE ObsInv
  OBVIOUS
<1>1. Linked = {} /\ \A r \in Resources : observers[r] = <<>>
  BY DEF Init, Linked
<1> QED BY <1>1 DEF ObsInv, NamesInv, PendingObserved

LEMMA NextObs ==
  ASSUME Observing, TokensNameResources, [Next]_vars
  PROVE  ObsInv'
<1>1. Keeps \/ AddsOne
  BY KeepsOrAdds DEF Observing, UniqueInv
<1> QED BY <1>1, NextEffect, NextNames, NextObserved DEF ObsInv

ObserversInv == Distinct(observers) /\ ObsInv

LEMMA ObserversInvariant ==
  ASSUME TokensNameResources
  PROVE  Spec => []ObserversInv
<1>1. Init => ObserversInv
  <2> SUFFICES ASSUME Init PROVE Distinct(observers)
    BY InitObs DEF ObserversInv
  <2>1. \A r \in Resources : observers[r] = <<>>
    BY DEF Init
  <2> QED BY <2>1 DEF Distinct
<1>2. TypeInv /\ UniqueInv /\ ObserversInv /\ [Next]_vars => ObserversInv'
  BY NextObs, NextChange, ChangeDistinct
  DEF TypeInv, Distinct, Observing, ObserversInv
<1> QED BY <1>1, <1>2, TypeInvariant, UniqueInvariant, PTL DEF Spec

\* A notification is only ever under way to a client that observes: no
\* cancellation, registration, Notifier error, reset or silence removes an
\* observer and leaves its notification behind; for clients that do not use one
\* token for two resources.
THEOREM NotificationsObserved ==
  ASSUME TokensNameResources
  PROVE  Spec => []NotifiedIsObserver
<1>1. ObserversInv => NotifiedIsObserver
  BY DEF ObserversInv, ObsInv, PendingObserved, IsNotification,
         NotifiedIsObserver, IsObserver
<1> QED BY <1>1, ObserversInvariant, PTL

(***************************************************************************)
(* The loop over the observers.  A round leaves it the rest of the list    *)
(* behind its observer, also when that observer is removed under it.       *)
(***************************************************************************)
\* What the loop that goes on at pos in list q has still to visit.
LEMMA StillFrom ==
  ASSUME NEW r \in Resources, NEW q \in Seq(Observer), NEW pos \in Nat,
         observers'[r] = q, notifying' = NextObserver(r, pos, q)
  PROVE  StillToNotify' = SubSeq(q, pos, Len(q))
<1>0. Len(q) \in Nat
  BY LenProperties
<1>1. CASE pos > Len(q)
  <2>1. SubSeq(q, pos, Len(q)) = <<>>
    BY <1>0, <1>1, SubSeqEmpty
  <2> QED BY <1>1, <2>1 DEF NextObserver, StillToNotify
<1>2. CASE pos <= Len(q)
  <2>1. /\ notifying' # NoNotify
        /\ notifying'.res = r /\ notifying'.pos = pos
    BY <1>0, <1>2 DEF NextObserver, NoNotify
  <2> QED BY <2>1 DEF StillToNotify, LoopRes
<1> QED BY <1>0, <1>1, <1>2

\* What is behind position k, before and after k is taken out.
LEMMA RestBehind ==
  ASSUME NEW S, NEW p \in Seq(S), NEW k \in 1..Len(p)
  PROVE  /\ SubSeq(p, k+1, Len(p)) = Tail(SubSeq(p, k, Len(p)))
         /\ LET q == RemoveAt(p, k)
            IN SubSeq(q, k, Len(q)) = Tail(SubSeq(p, k, Len(p)))
<1> DEFINE q == RemoveAt(p, k)
           n == Len(p)
           s == SubSeq(p, k+1, n)
           t == SubSeq(q, k, n-1)
<1>1. /\ n \in Nat /\ k \in Nat /\ k >= 1 /\ k <= n
      /\ \A i \in 1..n : p[i] \in S
  BY LenProperties
<1>2. Tail(SubSeq(p, k, n)) = s
  <2>1. n \in k..n
    BY <1>1
  <2> QED BY <2>1, HeadTailOfSubSeq
<1>3. /\ Len(q) = n - 1
      /\ \A i \in 1..n-1 : q[i] = IF i < k THEN p[i] ELSE p[i+1]
  BY RemoveAtProperties
<1> HIDE DEF q, n
<1>4. /\ s \in Seq(S) /\ Len(s) = n - k
      /\ \A i \in 1..n-k : s[i] = p[k+i]
  <2>1. /\ k+1 \in Int /\ n \in Int /\ \A i \in k+1..n : p[i] \in S
        /\ n - (k+1) + 1 = n - k
        /\ (IF k+1 <= n THEN n - (k+1) + 1 ELSE 0) = n - k
        /\ \A i \in 1..n-k : (k+1) + i - 1 = k+i
    BY <1>1
  <2> QED BY <2>1, SubSeqProperties
<1>5. /\ t \in Seq(S) /\ Len(t) = n - k
      /\ \A i \in 1..n-k : t[i] = p[k+i]
  <2>1. \A j \in k..n-1 : q[j] = p[j+1] /\ j+1 \in 1..n
    BY <1>1, <1>3
  <2>2. /\ n-1 \in Int /\ k \in Int /\ \A j \in k..n-1 : q[j] \in S
        /\ (n-1) - k + 1 = n - k
        /\ (IF k <= n-1 THEN (n-1) - k + 1 ELSE 0) = n - k
    BY <1>1, <2>1
  <2>3. /\ t \in Seq(S) /\ Len(t) = n - k
        /\ \A i \in 1..n-k : t[i] = q[k+i-1]
    BY <2>2, SubSeqProperties
  <2>4. \A i \in 1..n-k : k+i-1 \in k..n-1 /\ (k+i-1)+1 = k+i
    BY <1>1
  <2> QED BY <2>1, <2>3, <2>4
<1>6. s = t
  <2> HIDE DEF s, t
  <2> QED BY <1>4, <1>5, SeqEqual
<1> QED BY <1>2, <1>3, <1>6 DEF n, q

LEMMA LoopPasses ==
  ASSUME TypeInv, Distinct(observers), StartNotifyInteractions
  PROVE  \/ StillToNotify' = Tail(StillToNotify)
         \/ PendingNotification(LoopRes, LoopObserver) = {} /\ FreeSlots = {}
<1>1. /\ notifying # NoNotify /\ LoopRes \in Resources
      /\ observers \in [Resources -> Seq(Observer)]
      /\ notifying.pos \in 1..Len(observers[LoopRes])
  BY DEF StartNotifyInteractions, TypeInv, TypeOK, PointersOK,
         LoopAtObserver, LoopRes
<1>2. PICK r \in Resources, p \in Seq(Observer), k \in Nat :
        /\ r = LoopRes /\ p = observers[LoopRes] /\ k = notifying.pos
        /\ k \in 1..Len(p)
        /\ StillToNotify = SubSeq(p, k, Len(p))
  <2>1. notifying.pos \in Nat /\ observers[LoopRes] \in Seq(Observer)
    BY <1>1, LenProperties
  <2> QED BY <1>1, <2>1 DEF StillToNotify
<1>3. k \in Nat /\ k + 1 \in Nat
  OBVIOUS
<1>4. CASE LoopGoesOn /\ observers' = observers
  <2>1. observers'[r] = p /\ notifying' = NextObserver(r, k+1, p)
    BY <1>2, <1>4 DEF LoopGoesOn
  <2>2. StillToNotify' = SubSeq(p, k+1, Len(p))
    BY <1>3, <2>1, StillFrom
  <2> QED BY <1>2, <2>2, RestBehind
<1>5. ASSUME NEW type, NotifierError(type)
      PROVE  StillToNotify' = Tail(StillToNotify)
  <2>1. PICK q : q = WithoutObserver(p, p[k].ep, p[k].tok)
    OBVIOUS
  <2>2. observers'[r] = q /\ notifying' = NextObserver(r, k, q)
    BY <1>1, <1>2, <1>5, <2>1 DEF NotifierError, LoopObserver
  <2>3. q \in Seq(Observer)
    BY <2>1, WithoutObserverType
  <2>4. StillToNotify' = SubSeq(q, k, Len(q))
    BY <1>3, <2>2, <2>3, StillFrom
  <2>5. \A i, j \in 1..Len(p) : SameTarget(p[i], p[j]) => i = j
    BY <1>2, OwnListDistinct
  <2>6. q = RemoveAt(p, k)
    <3>1. k \in 1..Len(p)
      BY <1>2
    <3> QED BY ONLY <2>1, <2>5, <3>1, p \in Seq(Observer), RemovesMeant
  <2> QED BY <1>2, <2>4, <2>6, RestBehind
<1>6. CASE FlagPending \/ NotificationDropped
           \/ \E type \in NotifierTypes : StartNotification(type)
  BY <1>4, <1>6 DEF FlagPending, NotificationDropped, StartNotification
<1>7. CASE NoRoomForNotification
  BY <1>7 DEF NoRoomForNotification
<1> QED BY <1>5, <1>6, <1>7 DEF StartNotifyInteractions

\* The loop runs alone.
LEMMA NoLoopElsewhere ==
  ASSUME \/ onNewPacketHandler \/ doWork \/ Tick
         \/ \E ep \in Servers : StartNewGetRequest(ep)
  PROVE  notifying = NoNotify /\ UNCHANGED updateCnt
<1>1. CASE onNewPacketHandler
  BY <1>1 DEF onNewPacketHandler, Running, ReceivePing, ReceiveIgnored,
              ReceiveUnknownResource, ReceiveBadOption, StateUnchanged,
              ReceiveReset, ReceiveAck, ReceiveRequest,
              StartNewServerInteraction, ReceiveSeparate
<1>2. CASE ServerWork
  BY <1>2 DEF ServerWork, MethodNotAllowed, RespAllocFails,
              PostponeWithAck, PostponeAgain, Answer, ResponseSent,
              Handling, Turn, Running
<1>3. CASE NotifyWork \/ RequesterWork \/ StillSleeping
  BY <1>3 DEF NotifyWork, ReadyToNotify, NotificationSent, RequesterWork,
              ReadyToRequest, WaitingResponse, HandleResponse,
              StillSleeping, Turn, Running
<1>4. CASE Tick \/ \E ep \in Servers : StartNewGetRequest(ep)
  BY <1>4 DEF Tick, StartNewGetRequest, Running
<1> QED BY <1>1, <1>2, <1>3, <1>4 DEF doWork

\* No round of the loop that notifies the observers of a resource passes one
\* over, visits one twice or reads a removed one, also when a Notifier's error
\* removes the observer the loop is at; the loop ends early only for want of an
\* interaction.
THEOREM LoopPassesNobodyOver == Spec => NobodyPassedOver
<1>1. ASSUME TypeInv, Distinct(observers), [Next]_vars
      PROVE  [notifying # NoNotify =>
                \/ StillToNotify' = Tail(StillToNotify)
                \/ /\ PendingNotification(LoopRes, LoopObserver) = {}
                   /\ FreeSlots = {}]_vars
  <2> SUFFICES ASSUME Next, notifying # NoNotify
               PROVE  \/ StillToNotify' = Tail(StillToNotify)
                      \/ /\ PendingNotification(LoopRes, LoopObserver) = {}
                         /\ FreeSlots = {}
    BY <1>1
  <2>1. StartNotifyInteractions
    BY NoLoopElsewhere DEF Next, NotifyResourceObservers, Running
  <2> QED BY <1>1, <2>1, LoopPasses
<1> QED BY <1>1, TypeInvariant, DistinctInvariant, PTL
        DEF Spec, NobodyPassedOver

(***************************************************************************)
(* A notification that fails takes its observation with it.                *)
(***************************************************************************)
Ends(t) ==
  /\ ia[t].res \in Resources
  /\ Removes(ia[t].res, ia[t].ep, ia[t].resp.tok)

LEMMA AppendKeeps ==
  ASSUME NEW q \in Seq(Slots), NoDup(q), NEW s \in Slots
  PROVE  Elems(q) \subseteq Elems(Append(q, s))
<1>1. /\ Len(q) \in Nat /\ Len(Append(q, s)) = Len(q) + 1
      /\ \A i \in 1..Len(q) : Append(q, s)[i] = q[i]
  BY LenProperties, AppendProperties
<1> QED BY <1>1 DEF Elems

\* What a step of CoAP_doWork may remove from the list, of the notifications
\* in flight: the head, acknowledged or given up, or the one a cancellation
\* aborts.
LEMMA ServerWorkLeaves ==
  ASSUME Observing, TokensNameResources, ServerWork,
         NEW t \in Elems(list), ia[t].st = "NOTIFICATION_SENT"
  PROVE  t \in Elems(list') \/ Ends(t)
<1> USE ObservingBase
<1>0. Head1 \in Elems(list) /\ Head1 \in Slots
  BY HeadIsElem, TurnElem
  DEF ServerWork, MethodNotAllowed, RespAllocFails, PostponeWithAck,
      PostponeAgain, Answer, ResponseSent, Handling
<1>1. t # Head1
  BY DEF ServerWork, MethodNotAllowed, RespAllocFails, PostponeWithAck,
         PostponeAgain, Answer, ResponseSent, Handling, Turn
\* The server role's own interaction is the head.
<1>2. ASSUME NEW a, SendResp(a, "RESPONSE_SENT", list, ia)
      PROVE  t \in Elems(list')
  BY <1>0, <1>1, <1>2, SendRespLeaves
<1>3. ASSUME NEW a, Requeue(a)
      PROVE  t \in Elems(list')
  BY <1>0, <1>3, MoveToListEndElems DEF Requeue
<1>4. CASE Delete
  BY <1>1, <1>4, UnlinkElems DEF Delete
<1>5. ASSUME NEW a, ResendResp(a)
      PROVE  t \in Elems(list')
  <2>1. CASE RespRefused(a, list, ia)
    BY <1>1, <2>1, UnlinkElems DEF RespRefused
  <2> QED BY <1>5, <2>1 DEF ResendResp
<1>6. CASE MethodNotAllowed \/ RespAllocFails \/ PostponeWithAck
           \/ PostponeAgain \/ ResponseSent
  BY <1>2, <1>3, <1>4, <1>5, <1>6
  DEF MethodNotAllowed, RespAllocFails, PostponeWithAck, PostponeAgain,
      ResponseSent
<1>7. ASSUME NEW code, NEW type, Answer(code, type)
      PROVE  t \in Elems(list') \/ Ends(t)
  <2> DEFINE a == Allocated(ia[Head1])
             r == AnswerMsg(a, code, type)
  <2>1. /\ a.res \in Resources /\ a.role = "SERVER"
        /\ SameKey(ia[Head1], a)
    BY <1>7, TurnElem, AllocatedKey, AllocatedGood DEF Answer, Handling, Observing
  <2>2. \/ Register(a, r)
        \/ Observes(a, code, "DEREGISTER") /\ Deregister(a, r)
        \/ SendResp([a EXCEPT !.resp = r], "RESPONSE_SENT", list, ia)
    BY <1>7 DEF Answer
  <2> HIDE DEF a, r
  <2>3. CASE Register(a, r)
    BY <1>2, <2>3 DEF Register
  <2>4. CASE Observes(a, code, "DEREGISTER") /\ Deregister(a, r)
    <3>1. a.req.obs = "DEREGISTER"
      BY <2>4 DEF Observes
    <3>2. /\ Removes(a.res, a.ep, a.req.tok)
          /\ \/ t = Head1 \/ t \in Elems(list')
             \/ /\ IsNotification(t) /\ ia[t].res = a.res
                /\ ia[t].ep = a.ep /\ ia[t].resp.tok = a.req.tok
      BY <1>0, <2>1, <2>4, <3>1, DeregisterEffect
    <3> QED BY <1>1, <2>1, <3>2 DEF Removes, Ends
  <2> QED BY <1>2, <2>2, <2>3, <2>4
<1> QED BY <1>6, <1>7 DEF ServerWork

LEMMA NotifyWorkLeaves ==
  ASSUME Observing, NotifyWork, NEW t \in Elems(list),
         ia[t].st = "NOTIFICATION_SENT", CheckRespStatus(ia[t]) # "OK"
  PROVE  t \in Elems(list') \/ Ends(t)
<1> USE ObservingBase
<1> DEFINE a == ia[Head1]
<1>0. /\ Head1 \in Elems(list) /\ Head1 \in Slots
      /\ IsNotification(Head1) /\ a \in Interaction
  BY TurnElem DEF NotifyWork, ReadyToNotify, NotificationSent, IsNotification
<1>1. a.req = NoReq
  BY <1>0 DEF Observing, ObsInv, PendingObserved
<1>2. CASE ReadyToNotify
  <2>1. t # Head1
    BY <1>2 DEF ReadyToNotify, Turn
  <2> QED BY <1>0, <1>2, <2>1, SendRespLeaves DEF ReadyToNotify
<1>3. CASE NotificationWaiting(a)
  BY <1>0, <1>3, MoveToListEndElems DEF NotificationWaiting, Requeue
\* Nothing is freed when the socket refuses: the program has crashed before.
<1>4. CASE NotificationRetry(a)
  <2>1. ASSUME NEW b, b.req = NoReq, ResendResp(b)
        PROVE  list' = list
    BY <2>1 DEF ResendResp, RespRefused
  <2>2. \A code, obs : Refreshed(a, code, a.resp.type, obs).req = NoReq
    BY <1>0, <1>1 DEF Refreshed, Interaction
  <2> QED BY <1>1, <1>4, <2>1, <2>2 DEF NotificationRetry
<1>5. CASE NotificationDone(a)
  <2>1. t # Head1
    BY <1>5 DEF NotificationDone
  <2>2. Delete \/ \E b : Requeue(b)
    BY <1>5 DEF NotificationDone
  <2> QED BY <1>0, <2>1, <2>2, UnlinkElems, MoveToListEndElems
          DEF Delete, Requeue
<1>6. CASE NotificationAborted(a)
  <2>1. CASE t = Head1
    BY <1>0, <1>6, <2>1, AbortedEffect DEF Ends
  <2>2. CASE t # Head1
    BY <1>6, <2>2, UnlinkElems DEF NotificationAborted, Delete
  <2> QED BY <2>1, <2>2
<1> QED BY <1>2, <1>3, <1>4, <1>5, <1>6 DEF NotifyWork, NotificationSent

LEMMA NextLeaves ==
  ASSUME Observing, TokensNameResources, Next, NEW t \in Elems(list),
         ia[t].st = "NOTIFICATION_SENT", CheckRespStatus(ia[t]) # "OK"
  PROVE  t \in Elems(list') \/ Ends(t)
<1> USE ObservingBase
<1>1. CASE onNewPacketHandler
  <2>1. ASSUME NEW p, StartNewServerInteraction(p)
        PROVE  list' = list \/ \E s \in Slots : list' = Append(list, s)
    BY <2>1 DEF StartNewServerInteraction, DuplicateRequest,
                NewServerInteraction, NoRoomForRequest, FreeSlots
  <2>2. list' = list \/ \E s \in Slots : list' = Append(list, s)
    BY <1>1, <2>1
    DEF onNewPacketHandler, ReceivePing, ReceiveIgnored,
        ReceiveUnknownResource, ReceiveBadOption, StateUnchanged,
        ReceiveReset, ReceiveAck, ReceiveRequest, ReceiveSeparate
  <2> QED BY <2>2, AppendKeeps
<1>2. CASE doWork
  <2>1. CASE StillSleeping
    BY <2>1, HeadIsElem, MoveToListEndElems DEF StillSleeping, Requeue
  <2>2. CASE RequesterWork
    <3>1. t # Head1 /\ Head1 \in Slots
      BY <2>2, TurnElem
      DEF RequesterWork, ReadyToRequest, WaitingResponse, HandleResponse, Turn
    <3>2. Delete \/ (\E b : Requeue(b)) \/ list' = list
      BY <2>2 DEF RequesterWork, ReadyToRequest, WaitingResponse,
                  HandleResponse, ResendReq
    <3> QED BY <3>1, <3>2, UnlinkElems, MoveToListEndElems DEF Delete, Requeue
  <2> QED BY <1>2, <2>1, <2>2, ServerWorkLeaves, NotifyWorkLeaves DEF doWork
<1>3. ASSUME NEW r \in Changing, NotifyResourceObservers(r)
      PROVE  list' = list
  BY <1>3 DEF NotifyResourceObservers
<1>4. CASE StartNotifyInteractions
  <2>1. list' = list \/ \E s \in Slots : list' = Append(list, s)
    BY <1>4 DEF StartNotifyInteractions, FlagPending, NoRoomForNotification,
                NotificationDropped, StartNotification, NotifierError,
                FreeSlots
  <2> QED BY <2>1, AppendKeeps
<1>5. ASSUME NEW ep \in Servers, StartNewGetRequest(ep)
      PROVE  t \in Elems(list')
  <2>1. list' = list \/ \E s \in Slots : list' = Append(list, s)
    BY <1>5 DEF StartNewGetRequest, FreeSlots
  <2> QED BY <2>1, AppendKeeps
<1>6. CASE Tick
  BY <1>6 DEF Tick
<1> QED BY <1>1, <1>2, <1>3, <1>4, <1>5, <1>6 DEF Next

\* A reset, an acknowledgement that never comes, and a cancellation end the
\* observation together with its notification, for every client that does not
\* use one token for two resources.
THEOREM FailedNotificationsEnd ==
  ASSUME TokensNameResources
  PROVE  Spec => FailedNotificationEndsObservation
<1>1. ASSUME TypeInv, UniqueInv, ObserversInv, [Next]_vars
      PROVE  [\A s \in Linked :
                LET a == ia[s] IN
                /\ a.st = "NOTIFICATION_SENT" /\ ia'[s].role = "FREE"
                /\ CheckRespStatus(a) # "OK"
                => \A i \in 1..Len(observers'[a.res]) :
                     LET o == observers'[a.res][i] IN
                     ~(o.ep = a.ep /\ o.tok = a.resp.tok)]_vars
  <2> SUFFICES ASSUME Next, NEW s \in Linked,
                      ia[s].st = "NOTIFICATION_SENT", ia'[s].role = "FREE",
                      CheckRespStatus(ia[s]) # "OK"
               PROVE  NoTarget(observers'[ia[s].res], ia[s].ep, ia[s].resp.tok)
    BY <1>1 DEF NoTarget
  <2>1. Observing
    BY <1>1 DEF Observing, ObserversInv
  <2>2. s \in Elems(list)
    BY LinkedIsElems
  <2>3. s \notin Elems(list')
    BY <1>1, NextUnique DEF UniqueInv, ListInv
  <2>4. Ends(s)
    BY <2>1, <2>2, <2>3, NextLeaves
  <2> DEFINE r == ia[s].res
             ep == ia[s].ep
             tok == ia[s].resp.tok
  <2>5. r \in Resources /\ Removes(r, ep, tok)
    BY <2>4 DEF Ends
  <2> HIDE DEF r, ep, tok
  <2>6. TypeOK /\ observers \in [Resources -> Seq(Observer)]
    BY <1>1 DEF TypeInv, TypeOK
  <2>7. PICK q : q = WithoutObserver(observers[r], ep, tok)
    OBVIOUS
  <2>8. NoTarget(q, ep, tok)
    BY <2>1, <2>5, <2>6, <2>7, RemovesDistinct DEF Observing
  <2>9. observers'[r] = q
    BY <2>5, <2>6, <2>7 DEF Removes
  <2>10. NoTarget(observers'[r], ep, tok)
    BY <2>8, <2>9
  <2> QED BY <2>10 DEF r, ep, tok
<1> QED BY <1>1, TypeInvariant, UniqueInvariant, ObserversInvariant, PTL
        DEF Spec, FailedNotificationEndsObservation

(***************************************************************************)
(* A change reaches every pending notification.  While the notify loop is  *)
(* under way some of them may be stale; but then their observer is at the  *)
(* loop's position or behind it (InTurn).                                  *)
(***************************************************************************)
Fresh(s) == ia[s].upd \/ ia[s].resp.obs = updateCnt[ia[s].res]

InTurn(s) ==
  /\ notifying # NoNotify /\ notifying.res = ia[s].res
  /\ \E i \in 1..Len(observers[ia[s].res]) :
       i >= notifying.pos /\ observers[ia[s].res][i].ep = ia[s].ep

FreshInv == \A s \in Linked : IsNotification(s) => Fresh(s) \/ InTurn(s)

\* The loop never runs out of interactions: the code would leave it, and with
\* it the observers that are still to be notified.
RoomToNotify ==
  notifying # NoNotify =>
    PendingNotification(LoopRes, LoopObserver) # {} \/ FreeSlots # {}

LEMMA ObservationStaysFresh ==
  ASSUME ~MemMayFail, NEW s, IsNotification(s), Fresh(s),
         SameKey(ia[s], ia'[s]), updateCnt'[ia[s].res] = updateCnt[ia[s].res]
  PROVE  Fresh(s)'
<1>1. ia'[s].res = ia[s].res /\ SameObservation(ia[s], ia'[s])
  BY DEF SameKey, IsNotification
<1> QED BY <1>1 DEF SameObservation, Fresh

\* Outside the loop nothing is in turn.
LEMMA IdleFresh ==
  ASSUME Observing, FreshInv, ~MemMayFail, Keeps \/ AddsOne,
         notifying = NoNotify, UNCHANGED updateCnt
  PROVE  FreshInv'
<1> USE ObservingBase, LinkedIsElemsNext
<1>1. ASSUME NEW s \in Elems(list'), ia'[s].role = "NOTIFICATION"
      PROVE  Fresh(s)'
  <2>1. s \in Elems(list) /\ SameKey(ia[s], ia'[s])
    BY <1>1 DEF Keeps, AddsOne, Adds, AddsRequest, AddsNotification, AddsClient
  <2>2. IsNotification(s)
    BY <1>1, <2>1 DEF SameKey, IsNotification
  <2>3. Fresh(s)
    BY <2>1, <2>2 DEF FreshInv, InTurn
  <2> QED BY <2>1, <2>2, <2>3, ObservationStaysFresh
<1>2. ASSUME NEW s \in Elems(list'), ia'[s].role = "NOTIFICATION"
      PROVE  (Fresh(s) \/ InTurn(s))'
  BY <1>1, <1>2
<1> QED BY <1>2 DEF FreshInv, IsNotification

\* A change puts every pending notification of the resource in turn.
LEMMA NotifyFresh ==
  ASSUME Observing, FreshInv, NEW r \in Resources, NotifyResourceObservers(r)
  PROVE  FreshInv'
<1> USE ObservingBase, LinkedIsElemsNext
<1>1. /\ notifying = NoNotify /\ list' = list /\ ia' = ia
      /\ observers' = observers
      /\ notifying' = NextObserver(r, 1, observers[r])
      /\ \A q \in Resources : q # r => updateCnt'[q] = updateCnt[q]
  BY DEF NotifyResourceObservers, Running, Observing, TypeInv, TypeOK
<1>2. ASSUME NEW s \in Elems(list), IsNotification(s)
      PROVE  (Fresh(s) \/ InTurn(s))'
  <2>1. Fresh(s) /\ ia[s].res \in Resources
    BY <1>1, <1>2 DEF FreshInv, InTurn, Observing, ObsInv, PendingObserved
  <2>2. CASE ia[s].res # r
    BY <1>1, <2>1, <2>2 DEF Fresh
  <2>3. CASE ia[s].res = r
    <3>1. PICK i \in 1..Len(observers[r]) : observers[r][i].ep = ia[s].ep
      BY <1>2, <2>3 DEF Observing, ObsInv, PendingObserved
    <3>2. Len(observers[r]) \in Nat
      BY LenProperties
    <3>3. notifying' = [res |-> r, pos |-> 1] /\ i >= 1
      BY <1>1, <3>1, <3>2 DEF NextObserver
    <3>4. notifying' # NoNotify /\ notifying'.res = r /\ notifying'.pos = 1
      BY <3>3 DEF NoNotify
    <3>5. InTurn(s)'
      BY <1>1, <2>3, <3>1, <3>3, <3>4 DEF InTurn
    <3> QED BY <3>5
  <2> QED BY <2>2, <2>3
<1> QED BY <1>1, <1>2 DEF FreshInv, IsNotification

\* The loop moves on to the next observer of list q.
LEMMA NextInTurn ==
  ASSUME NEW r \in Resources, NEW q \in Seq(Observer), NEW pos \in Nat,
         NEW i \in 1..Len(q), i >= pos
  PROVE  /\ NextObserver(r, pos, q) # NoNotify
         /\ NextObserver(r, pos, q).res = r /\ NextObserver(r, pos, q).pos = pos
<1>1. Len(q) \in Nat
  BY LenProperties
<1>2. NextObserver(r, pos, q) = [res |-> r, pos |-> pos]
  BY <1>1 DEF NextObserver
<1> QED BY <1>2, MessageAssumption DEF NoNotify

\* Which pending notifications are stale during the loop: none but those of
\* the observer the loop is at and of later ones.
LEMMA StaleObserver ==
  ASSUME Observing, FreshInv, notifying # NoNotify,
         NEW s \in Elems(list), IsNotification(s), ~Fresh(s)
  PROVE  /\ ia[s].res = LoopRes
         /\ \/ ia[s].ep = LoopObserver.ep
            \/ \E i \in 1..Len(observers[LoopRes]) :
                 i > notifying.pos /\ observers[LoopRes][i].ep = ia[s].ep
<1> USE ObservingBase
<1>1. InTurn(s)
  BY DEF FreshInv
<1>2. PICK i \in 1..Len(observers[LoopRes]) :
        i >= notifying.pos /\ observers[LoopRes][i].ep = ia[s].ep
  BY <1>1 DEF InTurn, LoopRes
<1>3. notifying.pos \in Nat /\ i \in Nat
  BY <1>2, LoopObserverType, LenProperties DEF Observing
<1>4. i = notifying.pos \/ i > notifying.pos
  BY <1>2, <1>3
<1> QED BY <1>1, <1>2, <1>4 DEF InTurn, LoopRes, LoopObserver

\* The search of the loop finds the notification of its observer.
LEMMA PendingFound ==
  ASSUME Observing, notifying # NoNotify, NEW s \in Elems(list),
         IsNotification(s), ia[s].res = LoopRes, ia[s].ep = LoopObserver.ep
  PROVE  /\ PendingNotification(LoopRes, LoopObserver) # {}
         /\ list[First(PendingNotification(LoopRes, LoopObserver))] = s
<1> USE ObservingBase
<1> DEFINE P == PendingNotification(LoopRes, LoopObserver)
<1>1. /\ P \subseteq 1..Len(list)
      /\ \A i \in 1..Len(list) :
           i \in P <=> /\ IsNotification(list[i]) /\ ia[list[i]].res = LoopRes
                       /\ ia[list[i]].ep = LoopObserver.ep
  BY DEF PendingNotification, Matching, IsNotification
<1> HIDE DEF P
<1>2. P # {}
  BY <1>1 DEF Elems
<1>3. First(P) \in P
  <2>1. Len(list) \in Nat
    BY LenProperties
  <2>2. P \subseteq Nat
    BY <1>1, <2>1
  <2> QED BY <1>2, <2>2, FirstIsFirst
<1>4. /\ list[First(P)] \in Elems(list) /\ IsNotification(list[First(P)])
      /\ ia[list[First(P)]].res = LoopRes
      /\ ia[list[First(P)]].ep = LoopObserver.ep
  BY <1>1, <1>3 DEF Elems
<1>5. list[First(P)] = s
  BY <1>4
  DEF Observing, UniqueInv, OneNotificationPerObserver, IsNotification
<1> QED BY <1>2, <1>5 DEF P

\* The loop moves on, behind an observer whose notification it has dealt with.
LEMMA LoopMovesOn ==
  ASSUME Observing, FreshInv, notifying # NoNotify, UNCHANGED observers,
         LoopGoesOn, NEW s \in Elems(list), IsNotification(s), ~Fresh(s),
         ia[s].ep # LoopObserver.ep, ia'[s].ep = ia[s].ep,
         ia'[s].res = ia[s].res
  PROVE  InTurn(s)'
<1>1. /\ LoopRes \in Resources /\ observers[LoopRes] \in Seq(Observer)
      /\ notifying.pos + 1 \in Nat /\ notifying.pos \in Nat
  BY LoopObserverType DEF Observing
<1>2. PICK i \in 1..Len(observers[LoopRes]) :
        i > notifying.pos /\ observers[LoopRes][i].ep = ia[s].ep
  BY StaleObserver
<1>3. i >= notifying.pos + 1
  BY <1>1, <1>2, LenProperties
<1>4. PICK r \in Resources, q \in Seq(Observer), pos \in Nat :
        r = LoopRes /\ q = observers[LoopRes] /\ pos = notifying.pos + 1
  BY <1>1
<1>5. /\ NextObserver(r, pos, q) # NoNotify
      /\ NextObserver(r, pos, q).res = r /\ NextObserver(r, pos, q).pos = pos
  BY <1>2, <1>3, <1>4, NextInTurn
<1>6. notifying' = NextObserver(r, pos, q)
  BY <1>4 DEF LoopGoesOn
<1>7. ia[s].res = LoopRes
  BY StaleObserver
<1> QED BY <1>2, <1>3, <1>4, <1>5, <1>6, <1>7 DEF InTurn

LEMMA FlagFresh ==
  ASSUME Observing, FreshInv, ~MemMayFail, notifying # NoNotify, Keeps,
         FlagPending, UNCHANGED updateCnt
  PROVE  FreshInv'
<1> USE ObservingBase, LinkedIsElemsNext
<1>1. ASSUME NEW s \in Elems(list'), ia'[s].role = "NOTIFICATION"
      PROVE  (Fresh(s) \/ InTurn(s))'
  <2>1. /\ s \in Elems(list) /\ SameKey(ia[s], ia'[s]) /\ IsNotification(s)
        /\ ia'[s].ep = ia[s].ep /\ ia'[s].res = ia[s].res
    BY <1>1 DEF Keeps, SameKey, IsNotification
  <2>2. CASE Fresh(s)
    BY <2>1, <2>2, ObservationStaysFresh
  <2>3. CASE ~Fresh(s) /\ ia[s].ep = LoopObserver.ep
    <3>1. list[First(PendingNotification(LoopRes, LoopObserver))] = s
      BY <2>1, <2>3, StaleObserver, PendingFound
    <3>2. ia' = [ia EXCEPT ![s] = [ia[s] EXCEPT !.upd = TRUE]]
      BY <3>1 DEF FlagPending
    <3>3. ia[s] \in Interaction /\ s \in Slots /\ ia \in [Slots -> Interaction]
      BY <2>1 DEF Base, Typing, GoodHeap
    <3>4. ia'[s].upd = TRUE
      BY <3>2, <3>3 DEF Interaction
    <3> QED BY <3>4 DEF Fresh
  <2>4. CASE ~Fresh(s) /\ ia[s].ep # LoopObserver.ep
    BY <2>1, <2>4, LoopMovesOn DEF FlagPending
  <2> QED BY <2>2, <2>3, <2>4
<1> QED BY <1>1 DEF FreshInv, IsNotification

\* A round that starts a notification, or would have and freed it again.
LEMMA RoundFresh ==
  ASSUME Observing, FreshInv, ~MemMayFail, notifying # NoNotify,
         Keeps \/ \E t \in Slots : AddsNotification(t),
         PendingNotification(LoopRes, LoopObserver) = {}, LoopGoesOn,
         UNCHANGED <<observers, updateCnt>>
  PROVE  FreshInv'
<1> USE ObservingBase, LinkedIsElemsNext
<1>1. ASSUME NEW s \in Elems(list'), s \in Elems(list),
             SameKey(ia[s], ia'[s]), ia'[s].role = "NOTIFICATION"
      PROVE  (Fresh(s) \/ InTurn(s))'
  <2>1. /\ IsNotification(s)
        /\ ia'[s].ep = ia[s].ep /\ ia'[s].res = ia[s].res
    BY <1>1 DEF SameKey, IsNotification
  <2>2. CASE Fresh(s)
    BY <1>1, <2>1, <2>2, ObservationStaysFresh
  <2>3. CASE ~Fresh(s)
    <3>1. ia[s].ep # LoopObserver.ep
      BY <1>1, <2>1, <2>3, StaleObserver, PendingFound
    <3> QED BY <1>1, <2>1, <2>3, <3>1, LoopMovesOn
  <2> QED BY <2>2, <2>3
<1>2. ASSUME NEW s \in Elems(list'), AddsNotification(s)
      PROVE  Fresh(s)'
  BY <1>2 DEF AddsNotification, Fresh
<1>3. ASSUME NEW s \in Elems(list'), ia'[s].role = "NOTIFICATION"
      PROVE  (Fresh(s) \/ InTurn(s))'
  <2>1. \/ s \in Elems(list) /\ SameKey(ia[s], ia'[s])
        \/ AddsNotification(s)
    BY DEF Keeps, Adds, AddsNotification
  <2> QED BY <1>1, <1>2, <1>3, <2>1
<1> QED BY <1>3 DEF FreshInv, IsNotification

\* The observer at the loop's position leaves the list, and the next one takes
\* its place.
LEMMA ErrorFresh ==
  ASSUME Observing, FreshInv, ~MemMayFail, notifying # NoNotify, Keeps,
         NEW type, NotifierError(type), UNCHANGED updateCnt
  PROVE  FreshInv'
<1> USE ObservingBase, LinkedIsElemsNext
<1>0. /\ LoopRes \in Resources /\ notifying.pos \in Nat
      /\ notifying.pos \in 1..Len(observers[LoopRes])
      /\ observers[LoopRes] \in Seq(Observer)
  BY LoopObserverType
  DEF Observing, TypeInv, PointersOK, LoopAtObserver, LoopRes
<1>1. PICK r \in Resources, p \in Seq(Observer), k \in Nat :
        /\ r = LoopRes /\ p = observers[LoopRes] /\ k = notifying.pos
        /\ k \in 1..Len(p)
  BY <1>0
<1>2. PICK q : q = WithoutObserver(p, p[k].ep, p[k].tok)
  OBVIOUS
<1>3. q \in Seq(Observer)
  BY <1>2, WithoutObserverType
<1>4. /\ observers'[r] = q /\ notifying' = NextObserver(r, k, q)
      /\ list' = list /\ PendingNotification(LoopRes, LoopObserver) = {}
  BY <1>1, <1>2 DEF NotifierError, LoopObserver
<1>5. \A i, j \in 1..Len(p) : SameTarget(p[i], p[j]) => i = j
  BY <1>1, OwnListDistinct DEF Observing
<1>6. ASSUME NEW s \in Elems(list'), ia'[s].role = "NOTIFICATION"
      PROVE  (Fresh(s) \/ InTurn(s))'
  <2>1. /\ s \in Elems(list) /\ SameKey(ia[s], ia'[s]) /\ IsNotification(s)
        /\ ia'[s].ep = ia[s].ep /\ ia'[s].res = ia[s].res
    BY <1>6 DEF Keeps, SameKey, IsNotification
  <2>2. CASE Fresh(s)
    BY <2>1, <2>2, ObservationStaysFresh
  <2>3. CASE ~Fresh(s)
    <3>1. /\ ia[s].res = r
          /\ \E i \in 1..Len(p) : i > k /\ p[i].ep = ia[s].ep
      BY <1>1, <1>4, <2>1, <2>3, StaleObserver, PendingFound
    <3>2. PICK i \in 1..Len(p) : i > k /\ p[i].ep = ia[s].ep
      BY <3>1
    <3>3. i-1 \in k..Len(q) /\ q[i-1] = p[i]
      <4>1. p \in Seq(Observer) /\ k \in 1..Len(p) /\ i \in 1..Len(p) /\ i > k
        BY <1>1, <3>2
      <4> QED BY ONLY <1>2, <1>5, <4>1, LaterStay
    <3>4. k \in Nat /\ i-1 \in 1..Len(q) /\ i-1 >= k
      BY <1>1, <1>3, <3>3, LenProperties
    <3>5. /\ NextObserver(r, k, q) # NoNotify
          /\ NextObserver(r, k, q).res = r /\ NextObserver(r, k, q).pos = k
      BY <1>3, <3>4, NextInTurn
    <3> QED BY <1>4, <2>1, <3>1, <3>2, <3>3, <3>4, <3>5 DEF InTurn
  <2> QED BY <2>2, <2>3
<1> QED BY <1>6 DEF FreshInv, IsNotification

LEMMA LoopFresh ==
  ASSUME Observing, FreshInv, ~MemMayFail, RoomToNotify,
         StartNotifyInteractions
  PROVE  FreshInv'
<1>1. notifying # NoNotify /\ UNCHANGED updateCnt
  BY DEF StartNotifyInteractions
<1>2. TypeInv /\ ListInv
  BY DEF Observing, UniqueInv
<1>3. CASE FlagPending
  BY <1>1, <1>2, <1>3, LoopKeeps, FlagFresh
<1>4. ~NoRoomForNotification
  BY <1>1 DEF NoRoomForNotification, RoomToNotify
<1>5. CASE NotificationDropped
  BY <1>1, <1>2, <1>5, LoopKeeps, RoundFresh DEF NotificationDropped
<1>6. ASSUME NEW type \in NotifierTypes, StartNotification(type)
      PROVE  FreshInv'
  BY <1>1, <1>2, <1>6, NotificationStarts, RoundFresh DEF StartNotification
<1>7. ASSUME NEW type \in NotifierTypes, NotifierError(type)
      PROVE  FreshInv'
  BY <1>1, <1>2, <1>7, LoopKeeps, ErrorFresh
<1> QED BY <1>3, <1>4, <1>5, <1>6, <1>7 DEF StartNotifyInteractions

LEMMA NextFresh ==
  ASSUME Observing, FreshInv, ~MemMayFail, RoomToNotify, [Next]_vars
  PROVE  FreshInv'
<1>1. CASE UNCHANGED vars
  BY <1>1 DEF vars, FreshInv, Fresh, InTurn, IsNotification, Linked
<1>2. ASSUME NEW r \in Changing, NotifyResourceObservers(r)
      PROVE  FreshInv'
  BY <1>2, MainAssumption, NotifyFresh
<1>3. CASE \/ onNewPacketHandler \/ doWork \/ Tick
           \/ \E ep \in Servers : StartNewGetRequest(ep)
  <2>1. Keeps \/ AddsOne
    BY <1>3, KeepsOrAdds DEF Observing, UniqueInv, Next
  <2>2. notifying = NoNotify /\ UNCHANGED updateCnt
    BY <1>3, NoLoopElsewhere
  <2> QED BY <2>1, <2>2, IdleFresh
<1> QED BY <1>1, <1>2, <1>3, LoopFresh DEF Next

\* A change reaches every notification under way: when the loop of
\* CoAP_StartNotifyInteractions has ended, each pending notification carries
\* the newest state or is flagged to be refreshed, whatever registrations,
\* cancellations, Notifier errors and retransmissions came in between; as long
\* as no memory runs out, and a client does not use one token for two
\* resources.
THEOREM PendingStaysFresh ==
  ASSUME TokensNameResources, ~MemMayFail
  PROVE  Spec /\ []RoomToNotify => []PendingIsFresh
<1>1. Init => FreshInv
  BY DEF Init, FreshInv, Linked
<1>2. ASSUME TypeInv, UniqueInv, ObserversInv, RoomToNotify, FreshInv,
             [Next]_vars
      PROVE  FreshInv'
  BY <1>2, NextFresh DEF Observing, ObserversInv
<1>3. FreshInv => PendingIsFresh
  BY DEF FreshInv, PendingIsFresh, Fresh, InTurn, IsNotification
<1>4. Spec /\ []RoomToNotify => []FreshInv
  BY <1>1, <1>2, TypeInvariant, UniqueInvariant, ObserversInvariant, PTL
  DEF Spec
<1> QED BY <1>3, <1>4, PTL
=============================================================================
