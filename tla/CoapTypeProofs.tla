---------------------------- MODULE CoapTypeProofs ----------------------------
(***************************************************************************)
(* Type correctness of the stack, that no role follows a pointer that is   *)
(* not there, and in the last part what a step may do to one interaction.  *)
(*                                                                         *)
(* TypeOK is not inductive alone: transmitting the response of an          *)
(* interaction that has none would leave the type.  TypeInv adds           *)
(* PointersOK, the messages each role and state can count on.              *)
(*                                                                         *)
(* The first part states what the list operators of CoapInteraction do,    *)
(* for every list; all proofs about the stack rest on it.                  *)
(***************************************************************************)
EXTENDS CoapMain, SequenceLemmas

(***************************************************************************)
(* Search loops.                                                           *)
(***************************************************************************)
\* A search loop that has something to find stops at the first match.
LEMMA FirstIsFirst ==
  ASSUME NEW S, S \subseteq Nat, S # {}
  PROVE  First(S) \in S /\ \A y \in S : First(S) <= y
BY LeastElement DEF First

\* The slot a search of the list stops at is one of the list.
LEMMA FirstMatchIsSlot ==
  ASSUME list \in Seq(Slots), NEW S, S \subseteq 1..Len(list), S # {}
  PROVE  First(S) \in 1..Len(list) /\ list[First(S)] \in Slots
<1>1. Len(list) \in Nat
  BY LenProperties
<1>2. First(S) \in S
  <2>1. S \subseteq Nat
    BY <1>1
  <2> QED BY <2>1, FirstIsFirst
<1> QED BY <1>2, ElementOfSeq

(***************************************************************************)
(* Unlinking (coap_interaction.c, CoAP_UnlinkInteractionFromList).         *)
(***************************************************************************)
\* An interaction that is unlinked leaves a list of the others, in order.
LEMMA UnlinkType ==
  ASSUME NEW S, NEW q \in Seq(S), NEW s
  PROVE  Unlink(q, s) \in Seq(S)
<1>1. CASE \E i \in 1..Len(q) : q[i] = s
  <2>1. PICK i \in 1..Len(q) : RemoveFirst(q, s) = RemoveAt(q, i)
    BY <1>1, RemoveFirstIsRemoveAt
  <2>2. RemoveAt(q, i) \in Seq(S)
    BY RemoveAtProperties
  <2> QED BY <2>1, <2>2 DEF Unlink
<1>2. CASE ~\E i \in 1..Len(q) : q[i] = s
  BY <1>2, ZenonT(60) DEF Unlink, RemoveFirst
<1> QED BY <1>1, <1>2

LEMMA MoveToListEndType ==
  ASSUME NEW S, NEW q \in Seq(S), NEW s \in S
  PROVE  MoveToListEnd(q, s) \in Seq(S)
BY UnlinkType, AppendProperties DEF MoveToListEnd

(***************************************************************************)
(* Lists without repetitions, and their elements.                          *)
(***************************************************************************)
NoDup(q) == \A i, j \in 1..Len(q) : q[i] = q[j] => i = j
Elems(q) == {q[i] : i \in 1..Len(q)}

\* Unlinking removes exactly the interaction asked for.
LEMMA UnlinkElems ==
  ASSUME NEW S, NEW q \in Seq(S), NEW s, NoDup(q)
  PROVE  NoDup(Unlink(q, s)) /\ Elems(Unlink(q, s)) = Elems(q) \ {s}
<1>0. Len(q) \in Nat
  BY LenProperties
<1>1. CASE ~\E i \in 1..Len(q) : q[i] = s
  <2>1. Unlink(q, s) = q
    BY <1>1, ZenonT(60) DEF Unlink, RemoveFirst
  <2> QED BY <1>1, <2>1 DEF Elems
<1>2. CASE \E i \in 1..Len(q) : q[i] = s
  <2>1. PICK k \in 1..Len(q) : q[k] = s /\ Unlink(q, s) = RemoveAt(q, k)
    BY <1>2, RemoveFirstIsRemoveAt DEF Unlink
  <2> DEFINE u == RemoveAt(q, k)
  <2>2. /\ Len(u) = Len(q) - 1
        /\ \A j \in 1..Len(q)-1 : u[j] = IF j < k THEN q[j] ELSE q[j+1]
    BY RemoveAtProperties
  <2> HIDE DEF u
  <2>3. NoDup(u)
    <3> SUFFICES ASSUME NEW i \in 1..Len(u), NEW j \in 1..Len(u), u[i] = u[j]
                 PROVE  i = j
      BY DEF NoDup
    <3>1. PICK m \in 1..Len(q) : u[i] = q[m] /\ m = (IF i < k THEN i ELSE i+1)
      BY <1>0, <2>2
    <3>2. PICK n \in 1..Len(q) : u[j] = q[n] /\ n = (IF j < k THEN j ELSE j+1)
      BY <1>0, <2>2
    <3>3. m = n
      BY <3>1, <3>2 DEF NoDup
    <3> QED BY <1>0, <2>2, <3>1, <3>2, <3>3
  <2>4. ASSUME NEW x \in Elems(u) PROVE x \in Elems(q) \ {s}
    <3>1. PICK i \in 1..Len(u) : u[i] = x
      BY DEF Elems
    <3>2. PICK m \in 1..Len(q) : u[i] = q[m] /\ m = (IF i < k THEN i ELSE i+1)
      BY <1>0, <2>2
    <3>3. m # k
      BY <1>0, <2>2, <3>2
    <3>4. q[m] # s
      BY <2>1, <3>3 DEF NoDup
    <3> QED BY <3>1, <3>2, <3>4 DEF Elems
  <2>5. ASSUME NEW x \in Elems(q) \ {s} PROVE x \in Elems(u)
    <3>1. PICK m \in 1..Len(q) : q[m] = x
      BY DEF Elems
    <3>2. m # k
      BY <2>1, <3>1
    <3>3. CASE m < k
      <4>1. m \in 1..Len(u) /\ u[m] = q[m]
        BY <1>0, <2>2, <3>3
      <4> QED BY <3>1, <4>1 DEF Elems
    <3>4. CASE m > k
      <4>1. m-1 \in 1..Len(u) /\ u[m-1] = q[m]
        BY <1>0, <2>2, <3>4
      <4> QED BY <3>1, <4>1 DEF Elems
    <3> QED BY <1>0, <3>2, <3>3, <3>4
  <2>6. Elems(u) = Elems(q) \ {s}
    BY <2>4, <2>5
  <2> QED BY <2>1, <2>3, <2>6 DEF u
<1> QED BY <1>1, <1>2

\* An interaction appended to a list it is not in.
LEMMA AppendElems ==
  ASSUME NEW S, NEW q \in Seq(S), NEW s \in S, NoDup(q), s \notin Elems(q)
  PROVE  NoDup(Append(q, s)) /\ Elems(Append(q, s)) = Elems(q) \cup {s}
<1> DEFINE u == Append(q, s)
<1>1. /\ Len(q) \in Nat /\ Len(u) = Len(q) + 1
      /\ \A i \in 1..Len(q) : u[i] = q[i]
      /\ u[Len(q)+1] = s
  BY LenProperties, AppendProperties
<1> HIDE DEF u
<1>2. NoDup(u)
  <2> SUFFICES ASSUME NEW i \in 1..Len(u), NEW j \in 1..Len(u), u[i] = u[j]
               PROVE  i = j
    BY DEF NoDup
  <2>1. \A n \in 1..Len(q) : q[n] # s
    BY DEF Elems
  <2>2. CASE i \in 1..Len(q) /\ j \in 1..Len(q)
    BY <2>2, <1>1 DEF NoDup
  <2>3. CASE i = Len(q) + 1 \/ j = Len(q) + 1
    BY <2>1, <2>3, <1>1
  <2> QED BY <1>1, <2>2, <2>3
<1>3. Elems(u) = Elems(q) \cup {s}
  <2>1. ASSUME NEW x \in Elems(u) PROVE x \in Elems(q) \cup {s}
    <3>1. PICK i \in 1..Len(u) : u[i] = x
      BY DEF Elems
    <3> QED BY <1>1, <3>1 DEF Elems
  <2>2. ASSUME NEW x \in Elems(q) PROVE x \in Elems(u)
    <3>1. PICK i \in 1..Len(q) : q[i] = x
      BY DEF Elems
    <3>2. i \in 1..Len(u) /\ u[i] = x
      BY <1>1, <3>1
    <3> QED BY <3>2 DEF Elems
  <2>3. s \in Elems(u)
    <3>1. Len(q)+1 \in 1..Len(u)
      BY <1>1
    <3> QED BY <1>1, <3>1 DEF Elems
  <2> QED BY <2>1, <2>2, <2>3
<1> QED BY <1>2, <1>3 DEF u

LEMMA MoveToListEndElems ==
  ASSUME NEW S, NEW q \in Seq(S), NEW s \in S, NoDup(q)
  PROVE  /\ NoDup(MoveToListEnd(q, s))
         /\ Elems(MoveToListEnd(q, s)) = Elems(q) \cup {s}
<1>1. /\ Unlink(q, s) \in Seq(S) /\ NoDup(Unlink(q, s))
      /\ Elems(Unlink(q, s)) = Elems(q) \ {s}
  BY UnlinkType, UnlinkElems
<1>2. /\ NoDup(Append(Unlink(q, s), s))
      /\ Elems(Append(Unlink(q, s), s)) = (Elems(q) \ {s}) \cup {s}
  <2>1. s \notin Elems(Unlink(q, s))
    BY <1>1
  <2> QED BY <1>1, <2>1, AppendElems
<1> QED BY <1>2 DEF MoveToListEnd

(***************************************************************************)
(* Observers (coap_observe.c): removing one leaves a list of observers.    *)
(***************************************************************************)
LEMMA WithoutObserverType ==
  ASSUME NEW S, NEW q \in Seq(S), NEW ep, NEW tok
  PROVE  WithoutObserver(q, ep, tok) \in Seq(S)
<1> DEFINE T(o) == o.ep = ep /\ o.tok = tok
           I == {i \in 1..Len(q) : T(q[i])}
<1>1. CASE I # {}
  <2>1. I \subseteq Nat
    BY LenProperties
  <2>2. Min(I) \in I
    <3> HIDE DEF I
    <3> QED BY <1>1, <2>1, LeastElement DEF Min
  <2>3. WithoutObserver(q, ep, tok) = RemoveAt(q, Min(I))
    BY <1>1 DEF WithoutObserver, RemoveFirstMatch, SelectInSeq
  <2> QED BY <2>2, <2>3, RemoveAtProperties
<1>2. CASE I = {}
  BY <1>2 DEF WithoutObserver, RemoveFirstMatch
<1> QED BY <1>1, <1>2

-----------------------------------------------------------------------------

Good(a) == a \in Interaction /\ FitsRole(a)
GoodHeap(h) == h \in [Slots -> Interaction] /\ \A s \in Slots : FitsRole(h[s])
TypeInv == TypeOK /\ PointersOK

USE MessageAssumption

(***************************************************************************)
(* Messages and interactions.                                              *)
(***************************************************************************)
LEMMA EmptyBlock == Good(NewInteraction)
BY DEF Good, FitsRole, Interaction, NewInteraction, Role, State, Reliability

LEMMA HeapUpdated ==
  ASSUME NEW h, GoodHeap(h), NEW s, NEW a, s \in Slots => Good(a)
  PROVE  GoodHeap([h EXCEPT ![s] = a])
BY DEF Good, GoodHeap

LEMMA HeapFreed ==
  ASSUME NEW h, GoodHeap(h), NEW s
  PROVE  GoodHeap(Freed(h, s))
BY EmptyBlock, HeapUpdated DEF Freed

LEMMA NextMidType == 
  ASSUME NEW m \in Mid
  PROVE  GetNextMid(m) \in Mid
BY DEF Mid, GetNextMid

LEMMA DeadlineType ==
  ASSUME now \in Time, NEW n \in 0..MAX_RETRANSMIT
  PROVE  AckDeadline(n) \in Nat
<1>1. n + 1 \in 0..MAX_RETRANSMIT+1
  OBVIOUS
<1>2. ACK_TIMEOUT ^ (n + 1) \in Nat
  BY <1>1, BackoffAssumption
<1> QED BY <1>2 DEF AckDeadline, Time

\* The message CoAP_AllocRespMsg hands out fits the response of a request.
LEMMA AllocRespMsgType ==
  ASSUME NEW q \in ReqMsg, NEW code \in RespCode, NEW m \in Mid
  PROVE  AllocRespMsg(q, code, m) \in RespMsg
BY DEF AllocRespMsg, ReqMsg, RespMsg, MsgType, ObserveVal, NoObserve, Time

LEMMA RespDatagramType ==
  ASSUME NEW ep \in Eps, NEW r \in RespMsg
  PROVE  RespDatagram(ep, r) \in Datagram
BY DEF RespDatagram, RespMsg, Datagram

LEMMA ReqDatagramType ==
  ASSUME NEW ep \in Eps, NEW q \in ReqMsg
  PROVE  ReqDatagram(ep, q) \in Datagram
BY DEF ReqDatagram, ReqMsg, Datagram, MsgType, ObserveVal, NoObserve

LEMMA ShortDatagramType ==
  ASSUME NEW ep \in Eps, NEW type \in MsgType, NEW code \in RespCode,
         NEW m \in Mid, NEW tok \in Nat
  PROVE  ShortDatagram(ep, type, code, m, tok) \in Datagram
BY DEF ShortDatagram, Datagram, ObserveVal, NoObserve

\* A response that has been sent can be sent again.
Sendable(a, next) ==
  /\ Good(a) /\ a.role \in {"SERVER", "NOTIFICATION"}
  /\ a.resp \in RespMsg /\ next \in State

LEMMA TransmittedGood ==
  ASSUME now \in Time, NEW a, NEW next, Sendable(a, next)
  PROVE  Good(Transmitted(a, next))
<1>1. a.retrans \in 0..MAX_RETRANSMIT
  BY DEF Sendable, Good, FitsRole, Interaction
<1>2. AckDeadline(a.retrans) \in Nat
  BY <1>1, DeadlineType
<1>3. [a.resp EXCEPT !.ts = now] \in RespMsg
  BY DEF Sendable, RespMsg
<1>4. Transmitted(a, next) \in Interaction
  BY <1>2, <1>3 DEF Transmitted, Sendable, Good, Interaction, Reliability
<1>5. FitsRole(Transmitted(a, next))
  BY <1>3 DEF Transmitted, Sendable, Good, Interaction, FitsRole
<1> QED BY <1>4, <1>5 DEF Good

(***************************************************************************)
(* Steps of the transmission helpers.  Typed collects what such a step     *)
(* determines.                                                             *)
(***************************************************************************)
Typed ==
  /\ list' \in Seq(Slots) /\ GoodHeap(ia')
  /\ tx' \in Datagram \cup {NoDatagram} /\ fault' \in BOOLEAN

Typing == now \in Time /\ list \in Seq(Slots) /\ GoodHeap(ia) /\ fault \in BOOLEAN

LEMMA HeadIsSlot ==
  ASSUME list \in Seq(Slots), list # <<>>
  PROVE  Head1 \in Slots
<1>1. 1 \in 1..Len(list)
  BY EmptySeq
<1> QED BY <1>1, ElementOfSeq DEF Head1

\* The head of the list, when it is some role's turn, is a good interaction.
LEMMA TurnType ==
  ASSUME Typing, NEW role, NEW states, Turn(role, states)
  PROVE  /\ Head1 \in Slots /\ Good(ia[Head1])
         /\ ia[Head1].role = role /\ ia[Head1].st \in states
BY HeadIsSlot DEF Typing, Turn, GoodHeap, Good

LEMMA RequeueType ==
  ASSUME Typing, NEW a, Good(a), Head1 \in Slots, Requeue(a)
  PROVE  list' \in Seq(Slots) /\ GoodHeap(ia')
BY MoveToListEndType, HeapUpdated DEF Typing, Requeue

LEMMA DeleteType ==
  ASSUME Typing, Delete
  PROVE  list' \in Seq(Slots) /\ GoodHeap(ia')
BY UnlinkType, HeapFreed DEF Typing, Delete

LEMMA RespRefusedType ==
  ASSUME Typing, NEW a, NEW q \in Seq(Slots), NEW h, GoodHeap(h),
         RespRefused(a, q, h)
  PROVE  Typed
<1>1. CASE a.req = NoReq
  BY <1>1 DEF RespRefused, Typed, Silent
<1>2. CASE a.req # NoReq
  BY <1>2, UnlinkType, HeapFreed DEF RespRefused, Typed, Typing, Silent
<1> QED BY <1>1, <1>2

LEMMA SendRespType ==
  ASSUME Typing, Head1 \in Slots, NEW a, NEW next, Sendable(a, next),
         NEW q \in Seq(Slots), NEW h, GoodHeap(h), SendResp(a, next, q, h)
  PROVE  Typed
<1>1. ASSUME tx' = RespDatagram(a.ep, a.resp),
             list' = MoveToListEnd(q, Head1),
             ia' = [h EXCEPT ![Head1] = Transmitted(a, next)],
             fault' = fault
      PROVE  Typed
  <2>1. a.ep \in Eps /\ a.resp \in RespMsg
    BY DEF Sendable, Good, FitsRole
  <2>2. Good(Transmitted(a, next))
    BY TransmittedGood DEF Typing
  <2> QED
    BY <1>1, <2>1, <2>2, RespDatagramType, MoveToListEndType, HeapUpdated
    DEF Typed, Typing
<1>2. CASE RespRefused(a, q, h)
  BY <1>2, RespRefusedType
<1> QED BY <1>1, <1>2 DEF SendResp

LEMMA ResendRespType ==
  ASSUME Typing, Head1 \in Slots, NEW a, Sendable(a, a.st),
         a.retrans + 1 <= MAX_RETRANSMIT, ResendResp(a)
  PROVE  Typed
<1> DEFINE b == [a EXCEPT !.resp.ts = now, !.retrans = @ + 1,
                          !.ackTo = AckDeadline(a.retrans + 1)]
<1>1. ASSUME tx' = RespDatagram(a.ep, a.resp),
             ia' = [ia EXCEPT ![Head1] = b], UNCHANGED <<list, fault>>
      PROVE  Typed
  <2>1. a.ep \in Eps /\ a.resp \in RespMsg /\ a \in Interaction
        /\ a.retrans \in Nat /\ a.retrans + 1 \in Nat
    BY DEF Sendable, Good, FitsRole, Interaction
  <2>2. AckDeadline(a.retrans + 1) \in Nat
    BY <2>1, DeadlineType DEF Typing
  <2>3. [a.resp EXCEPT !.ts = now] \in RespMsg
    BY <2>1 DEF RespMsg, Typing
  <2>4. b \in Interaction
    <3>1. b = [a EXCEPT !.resp = [a.resp EXCEPT !.ts = now],
                        !.retrans = a.retrans + 1,
                        !.ackTo = AckDeadline(a.retrans + 1)]
      BY <2>1 DEF Interaction
    <3> HIDE DEF b
    <3> QED BY <3>1, <2>1, <2>2, <2>3 DEF Interaction
  <2>5. FitsRole(b)
    BY <2>1, <2>3 DEF Sendable, Good, FitsRole, Interaction
  <2>6. Good(b)
    BY <2>4, <2>5 DEF Good
  <2> HIDE DEF b
  <2> QED
    BY <1>1, <2>1, <2>6, RespDatagramType, HeapUpdated DEF Typed, Typing
<1>2. CASE RespRefused(a, list, ia)
  BY <1>2, RespRefusedType DEF Typing
<1> QED BY <1>1, <1>2 DEF ResendResp

(***************************************************************************)
(* From the parts of a step to TypeInv'.                                   *)
(***************************************************************************)
LEMMA TypeInvTyping ==
  ASSUME TypeInv
  PROVE  Typing /\ mid \in Mid /\ ownTok \in Nat /\ lost \in BOOLEAN
BY DEF TypeInv, TypeOK, PointersOK, Typing, GoodHeap

\* A step outside the notify loop that leaves the resources alone.
LEMMA QuietStep ==
  ASSUME TypeInv, Typed, now' \in Time, mid' \in Mid, ownTok' \in Nat,
         lost' \in BOOLEAN, UNCHANGED <<observers, updateCnt, notifying>>
  PROVE  TypeInv'
BY DEF TypeInv, TypeOK, PointersOK, LoopAtObserver, Typed, GoodHeap

\* A step outside the notify loop that changes observers.
LEMMA ObserverStep ==
  ASSUME TypeInv, Typed, now' \in Time, mid' \in Mid, ownTok' \in Nat,
         lost' \in BOOLEAN, notifying = NoNotify,
         UNCHANGED <<updateCnt, notifying>>,
         observers' \in [Resources -> Seq(Observer)]
  PROVE  TypeInv'
BY DEF TypeInv, TypeOK, PointersOK, LoopAtObserver, Typed, GoodHeap

LEMMA SendShortType ==
  ASSUME NEW d \in Datagram, SendShort(d)
  PROVE  tx' \in Datagram \cup {NoDatagram}
BY DEF SendShort, Silent

LEMMA DrawMidType ==
  ASSUME mid \in Mid, DrawMid \/ UNCHANGED mid
  PROVE  mid' \in Mid
BY NextMidType DEF DrawMid

(***************************************************************************)
(* The server role.                                                        *)
(***************************************************************************)
LEMMA RequestOfType ==
  ASSUME now \in Time, NEW p \in PacketSet, p.type \in {"CON", "NON"}
  PROVE  RequestOf(p) \in ReqMsg
BY DEF RequestOf, ReqMsg, PacketSet

LEMMA StartServerType ==
  ASSUME TypeInv, NEW p \in PacketSet, p.type \in {"CON", "NON"},
         p.res \in Resources, StartNewServerInteraction(p)
  PROVE  TypeInv'
<1> USE TypeInvTyping
<1>0. p.ep \in Eps /\ p.mid \in Mid /\ p.tok \in Nat
  BY DEF PacketSet
<1>1. CASE DuplicateRequest(p)
  <2> DEFINE S == SameRequest(p)
             a == ia[list[First(S)]]
  <2>1. First(S) \in S /\ list[First(S)] \in Slots
    <3>1. S \subseteq 1..Len(list) /\ S # {}
      BY <1>1 DEF DuplicateRequest, SameRequest, Matching
    <3>2. S \subseteq Nat
      BY <3>1, LenProperties DEF Typing
    <3> HIDE DEF S
    <3> QED BY <3>1, <3>2, FirstIsFirst, FirstMatchIsSlot DEF Typing
  <2>2. a.role = "SERVER" /\ Good(a)
    BY <2>1 DEF SameRequest, Matching, Typing, GoodHeap, Good
  <2>3. a.ep \in Eps /\ a.req.mid \in Mid
    BY <2>2 DEF Good, FitsRole, ReqMsg
  <2>4. ShortDatagram(a.ep, "ACK", "EMPTY", a.req.mid, 0) \in Datagram
    BY <2>3, ShortDatagramType DEF MsgType, RespCode
  <2>5. tx' \in Datagram \cup {NoDatagram}
    BY <1>1, <2>4, SendShortType DEF DuplicateRequest, Silent
  <2>6. Typed
    BY <1>1, <2>5 DEF DuplicateRequest, StartNewServerInteraction, Typed,
                      Typing, GoodHeap
  <2> QED BY <2>6, QuietStep DEF StartNewServerInteraction, Typing
<1>2. CASE NewServerInteraction(p)
  <2> DEFINE a == [NewInteraction EXCEPT !.role = "SERVER",
                      !.st = "HANDLE_REQUEST", !.ep = p.ep, !.res = p.res,
                      !.req = RequestOf(p)]
  <2>1. Good(a)
    BY <1>0, RequestOfType, EmptyBlock
    DEF Good, Interaction, FitsRole, NewInteraction, Role, State, Typing
  <2>2. PICK s \in FreeSlots : /\ ia' = [ia EXCEPT ![s] = a]
                               /\ list' = Append(list, s)
    BY <1>2 DEF NewServerInteraction
  <2>3. s \in Slots
    BY DEF FreeSlots
  <2> HIDE DEF a
  <2>4. Typed
    BY <1>2, <2>1, <2>2, <2>3, HeapUpdated, AppendProperties
    DEF NewServerInteraction, StartNewServerInteraction, Typed, Typing, Silent
  <2> QED BY <2>4, QuietStep DEF StartNewServerInteraction, Typing
<1>3. CASE NoRoomForRequest(p)
  <2>1. ShortDatagram(p.ep, "ACK", "ERROR", p.mid, p.tok) \in Datagram
    BY <1>0, ShortDatagramType DEF MsgType, RespCode
  <2>2. tx' \in Datagram \cup {NoDatagram}
    BY <1>3, <2>1, SendShortType DEF NoRoomForRequest, Silent
  <2>3. Typed
    BY <1>3, <2>2 DEF NoRoomForRequest, StartNewServerInteraction, Typed,
                      Typing, GoodHeap
  <2> QED BY <2>3, QuietStep DEF StartNewServerInteraction, Typing
<1> QED BY <1>1, <1>2, <1>3 DEF StartNewServerInteraction

\* The head, once its response is allocated: a server interaction with one.
LEMMA AllocatedGood ==
  ASSUME TypeInv, Handling
  PROVE  /\ Head1 \in Slots /\ ia[Head1].req \in ReqMsg
         /\ Good(Allocated(ia[Head1])) /\ Allocated(ia[Head1]).resp \in RespMsg
         /\ Allocated(ia[Head1]).role = "SERVER"
         /\ Allocated(ia[Head1]).req = ia[Head1].req
         /\ Allocated(ia[Head1]).res \in Resources
         /\ Allocated(ia[Head1]).st # "RESPONSE_SENT"
         /\ notifying = NoNotify
<1> USE TypeInvTyping
<1> DEFINE a == ia[Head1]
<1>1. Head1 \in Slots /\ Good(a) /\ a.role = "SERVER"
      /\ a.st \in {"HANDLE_REQUEST", "RESOURCE_POSTPONE_EMPTY_ACK_SENT"}
  BY TurnType DEF Handling
<1>2. AllocRespMsg(a.req, "EMPTY", GetNextMid(mid)) \in RespMsg
  BY <1>1, AllocRespMsgType, NextMidType DEF Good, FitsRole, RespCode
<1>3. Good(Allocated(a)) /\ Allocated(a).resp \in RespMsg
  BY <1>1, <1>2 DEF Allocated, Good, FitsRole, Interaction
<1>4. /\ Allocated(a).role = "SERVER" /\ Allocated(a).req = a.req
      /\ Allocated(a).res = a.res /\ Allocated(a).st = a.st
  BY <1>1 DEF Allocated, Good, Interaction
<1>5. notifying = NoNotify
  BY DEF Handling, Turn, Running
<1> QED BY <1>1, <1>3, <1>4, <1>5 DEF Good, FitsRole

LEMMA AllocDrawsType ==
  ASSUME mid \in Mid, NEW a, AllocDraws(a)
  PROVE  mid' \in Mid
BY DrawMidType DEF AllocDraws

LEMMA MethodNotAllowedType ==
  ASSUME TypeInv, MethodNotAllowed
  PROVE  TypeInv'
<1> USE TypeInvTyping
<1> DEFINE a == ia[Head1]
           r == AllocRespMsg(a.req, "ERROR", GetNextMid(mid))
           b == [a EXCEPT !.resp = r]
<1>1. Head1 \in Slots /\ Good(a) /\ a.role = "SERVER"
  BY TurnType DEF MethodNotAllowed, Handling
<1>2. r \in RespMsg
  BY <1>1, AllocRespMsgType, NextMidType DEF Good, FitsRole, RespCode
<1>3. Sendable(b, "RESPONSE_SENT")
  BY <1>1, <1>2 DEF Sendable, Good, FitsRole, Interaction, State
<1>4. Typed
  <2>1. SendResp(b, "RESPONSE_SENT", list, ia)
    BY DEF MethodNotAllowed
  <2> HIDE DEF b
  <2> QED BY <1>1, <1>3, <2>1, SendRespType DEF Typing
<1> QED BY <1>4, AllocDrawsType, QuietStep DEF MethodNotAllowed, Typing

LEMMA RespAllocFailsType ==
  ASSUME TypeInv, RespAllocFails
  PROVE  TypeInv'
<1> USE TypeInvTyping
<1>1. Typed
  BY DEF RespAllocFails, Typed, Typing, GoodHeap, Silent
<1> QED BY <1>1, AllocDrawsType, QuietStep DEF RespAllocFails, Typing

LEMMA PostponeWithAckType ==
  ASSUME TypeInv, PostponeWithAck
  PROVE  TypeInv'
<1> USE TypeInvTyping
<1> DEFINE a == Allocated(ia[Head1])
           d == ShortDatagram(a.ep, "ACK", "EMPTY", a.req.mid, 0)
           b == [a EXCEPT !.reqRel = "ACK_SET",
                          !.st = "RESOURCE_POSTPONE_EMPTY_ACK_SENT",
                          !.sleep = now + POSTPONE_WAIT_TIME_SEK]
<1>0. Handling
  BY DEF PostponeWithAck
<1>1. Head1 \in Slots /\ Good(a) /\ a.role = "SERVER"
  BY <1>0, AllocatedGood
<1>2. d \in Datagram
  BY <1>1, ShortDatagramType DEF Good, FitsRole, ReqMsg, MsgType, RespCode
<1>3. Good(b)
  <2>1. now + POSTPONE_WAIT_TIME_SEK \in Nat
    BY DEF Typing, Time
  <2> QED BY <1>1, <2>1 DEF Good, FitsRole, Interaction, State, Reliability
<1>4. Typed
  <2>1. (tx' = d /\ Requeue(b)) \/ (Silent /\ Delete)
    BY DEF PostponeWithAck
  <2>2. fault' = fault
    BY DEF PostponeWithAck
  <2> HIDE DEF b, d
  <2> QED BY <1>1, <1>2, <1>3, <2>1, <2>2, RequeueType, DeleteType
          DEF Typed, Typing, Silent
<1> QED BY <1>4, QuietStep DEF PostponeWithAck, Typing

LEMMA PostponeAgainType ==
  ASSUME TypeInv, PostponeAgain
  PROVE  TypeInv'
<1> USE TypeInvTyping
<1> DEFINE a == Allocated(ia[Head1])
           b == [a EXCEPT !.sleep = now + POSTPONE_WAIT_TIME_SEK]
<1>0. Handling
  BY DEF PostponeAgain
<1>1. Head1 \in Slots /\ Good(a) /\ a.role = "SERVER"
  BY <1>0, AllocatedGood
<1>2. Good(b)
  <2>1. now + POSTPONE_WAIT_TIME_SEK \in Nat
    BY DEF Typing, Time
  <2> QED BY <1>1, <2>1 DEF Good, FitsRole, Interaction
<1>3. Typed
  <2>1. Requeue(b) /\ Silent /\ fault' = fault
    BY DEF PostponeAgain
  <2> HIDE DEF b
  <2> QED BY <1>1, <1>2, <2>1, RequeueType DEF Typed, Typing, Silent
<1> QED BY <1>3, AllocDrawsType, QuietStep DEF PostponeAgain, Typing

LEMMA AnswerMsgType ==
  ASSUME NEW a, a.resp \in RespMsg, mid \in Mid, NEW code \in RespCode,
         NEW type \in {"CON", "NON"}
  PROVE  AnswerMsg(a, code, type) \in RespMsg
BY NextMidType DEF AnswerMsg, RespMsg, MsgType

LEMMA RegisterType ==
  ASSUME TypeInv, Head1 \in Slots, NEW a, Good(a), a.role = "SERVER",
         a.res \in Resources, NEW r \in RespMsg, Register(a, r)
  PROVE  Typed /\ observers' \in [Resources -> Seq(Observer)]
<1> USE TypeInvTyping
<1>1. ASSUME NEW m \in RespMsg,
             SendResp([a EXCEPT !.resp = m], "RESPONSE_SENT", list, ia)
      PROVE  Typed
  <2> DEFINE b == [a EXCEPT !.resp = m]
  <2>1. Sendable(b, "RESPONSE_SENT")
    BY DEF Sendable, Good, FitsRole, Interaction, State
  <2>2. SendResp(b, "RESPONSE_SENT", list, ia)
    BY <1>1
  <2> HIDE DEF b
  <2> QED BY <2>1, <2>2, SendRespType DEF Typing
<1>2. ASSUME NEW o \in FreeObsSlots,
             observers' = [observers EXCEPT ![a.res] =
               Append(WithoutObserver(@, a.ep, a.req.tok),
                      [id |-> o, ep |-> a.ep, tok |-> a.req.tok])]
      PROVE  observers' \in [Resources -> Seq(Observer)]
  <2>1. [id |-> o, ep |-> a.ep, tok |-> a.req.tok] \in Observer
    BY DEF Observer, FreeObsSlots, Good, FitsRole, ReqMsg
  <2>2. observers \in [Resources -> Seq(Observer)]
    BY DEF TypeInv, TypeOK
  <2>3. WithoutObserver(observers[a.res], a.ep, a.req.tok) \in Seq(Observer)
    BY <2>2, WithoutObserverType
  <2>4. Append(WithoutObserver(observers[a.res], a.ep, a.req.tok),
               [id |-> o, ep |-> a.ep, tok |-> a.req.tok]) \in Seq(Observer)
    BY <2>1, <2>3, AppendProperties
  <2> QED BY <1>2, <2>2, <2>4
<1>3. ASSUME NEW obs \in ObserveOption(0)
      PROVE  [r EXCEPT !.obs = obs] \in RespMsg
  BY DEF RespMsg, ObserveVal, ObserveOption, NoObserve
<1>4. CASE UNCHANGED observers
           /\ SendResp([a EXCEPT !.resp = r], "RESPONSE_SENT", list, ia)
  BY <1>4, <1>1 DEF TypeInv, TypeOK
<1>5. ASSUME NEW o \in FreeObsSlots,
             observers' = [observers EXCEPT ![a.res] =
               Append(WithoutObserver(@, a.ep, a.req.tok),
                      [id |-> o, ep |-> a.ep, tok |-> a.req.tok])],
             NEW obs \in ObserveOption(0),
             SendResp([a EXCEPT !.resp = [r EXCEPT !.obs = obs]],
                      "RESPONSE_SENT", list, ia)
      PROVE  Typed /\ observers' \in [Resources -> Seq(Observer)]
  <2>1. [r EXCEPT !.obs = obs] \in RespMsg
    BY <1>3
  <2> QED BY <1>1, <1>2, <1>5, <2>1
<1> QED BY <1>4, <1>5 DEF Register

LEMMA DeregisterType ==
  ASSUME TypeInv, Head1 \in Slots, NEW a, Good(a), a.role = "SERVER",
         a.res \in Resources, NEW r \in RespMsg, Deregister(a, r)
  PROVE  Typed /\ observers' \in [Resources -> Seq(Observer)]
<1> USE TypeInvTyping
<1> DEFINE b == [a EXCEPT !.resp = r]
           s == list[First(PendingWithToken(a.ep, a.req.tok))]
<1>1. Sendable(b, "RESPONSE_SENT")
  BY DEF Sendable, Good, FitsRole, Interaction, State
<1>2. observers' \in [Resources -> Seq(Observer)]
  <2>1. observers \in [Resources -> Seq(Observer)]
    BY DEF TypeInv, TypeOK
  <2>2. WithoutObserver(observers[a.res], a.ep, a.req.tok) \in Seq(Observer)
    BY <2>1, WithoutObserverType
  <2> QED BY <2>1, <2>2 DEF Deregister
<1>3. \/ SendResp(b, "RESPONSE_SENT", list, ia)
      \/ SendResp(b, "RESPONSE_SENT", Unlink(list, s), Freed(ia, s))
  BY DEF Deregister
<1>4. Unlink(list, s) \in Seq(Slots) /\ GoodHeap(Freed(ia, s))
  BY UnlinkType, HeapFreed DEF Typing
<1> HIDE DEF b, s
<1>5. Typed
  BY <1>1, <1>3, <1>4, SendRespType DEF Typing
<1> QED BY <1>2, <1>5

LEMMA AnswerType ==
  ASSUME TypeInv, NEW code \in {"CONTENT", "ERROR"},
         NEW type \in {"CON", "NON"}, Answer(code, type)
  PROVE  TypeInv'
<1> USE TypeInvTyping
<1> DEFINE a == Allocated(ia[Head1])
           r == AnswerMsg(a, code, type)
<1>0. Handling
  BY DEF Answer
<1>1. /\ Head1 \in Slots /\ Good(a) /\ a.role = "SERVER"
      /\ a.res \in Resources /\ a.resp \in RespMsg /\ notifying = NoNotify
  BY <1>0, AllocatedGood
<1>2. r \in RespMsg
  <2> HIDE DEF a
  <2> QED BY <1>1, AnswerMsgType DEF RespCode
<1>3. mid' \in Mid
  BY DrawMidType, AllocDrawsType DEF Answer
<1>4. Typed /\ observers' \in [Resources -> Seq(Observer)]
  <2>1. \/ Register(a, r) \/ Deregister(a, r)
        \/ /\ UNCHANGED observers
           /\ SendResp([a EXCEPT !.resp = r], "RESPONSE_SENT", list, ia)
    BY DEF Answer
  <2> HIDE DEF a, r
  <2>2. CASE Register(a, r)
    BY <2>2, <1>1, <1>2, RegisterType
  <2>3. CASE Deregister(a, r)
    BY <2>3, <1>1, <1>2, DeregisterType
  <2>4. CASE /\ UNCHANGED observers
             /\ SendResp([a EXCEPT !.resp = r], "RESPONSE_SENT", list, ia)
    <3> DEFINE b == [a EXCEPT !.resp = r]
    <3>1. Sendable(b, "RESPONSE_SENT")
      BY <1>1, <1>2 DEF Sendable, Good, FitsRole, Interaction, State
    <3>2. SendResp(b, "RESPONSE_SENT", list, ia)
      BY <2>4
    <3> HIDE DEF b
    <3> QED BY <2>4, <3>1, <3>2, <1>1, SendRespType DEF Typing, TypeInv, TypeOK
  <2> QED BY <2>1, <2>2, <2>3, <2>4
<1> QED BY <1>1, <1>3, <1>4, ObserverStep DEF Answer, Typing

LEMMA ResponseSentType ==
  ASSUME TypeInv, ResponseSent
  PROVE  TypeInv'
<1> USE TypeInvTyping
<1> DEFINE a == ia[Head1]
<1>1. /\ Head1 \in Slots /\ Good(a) /\ a.role = "SERVER"
      /\ a.st = "RESPONSE_SENT"
  BY TurnType DEF ResponseSent
<1>2. Typed
  <2>1. CASE Requeue(a) /\ Silent /\ UNCHANGED fault
    BY <2>1, <1>1, RequeueType DEF Typed, Typing, Silent
  <2>2. CASE CheckRespStatus(a) = "RETRY" /\ ResendResp(a)
    <3>1. a.retrans + 1 <= MAX_RETRANSMIT
      BY <2>2, <1>1 DEF CheckRespStatus, Good, Interaction
    <3>2. Sendable(a, a.st)
      BY <1>1 DEF Sendable, Good, FitsRole, State
    <3> QED BY <2>2, <1>1, <3>1, <3>2, ResendRespType
  <2>3. CASE Delete /\ Silent /\ UNCHANGED fault
    BY <2>3, DeleteType DEF Typed, Typing, Silent
  <2> QED BY <2>1, <2>2, <2>3 DEF ResponseSent
<1> QED BY <1>2, QuietStep DEF ResponseSent, Typing

LEMMA ServerWorkType ==
  ASSUME TypeInv, ServerWork
  PROVE  TypeInv'
BY MethodNotAllowedType, RespAllocFailsType, PostponeWithAckType,
   PostponeAgainType, AnswerType, ResponseSentType DEF ServerWork

(***************************************************************************)
(* The notification role.                                                  *)
(***************************************************************************)
\* The position the loop goes on with is one of the observers', or the end.
LEMMA NextObserverType ==
  ASSUME NEW r \in Resources, NEW pos \in Nat \ {0}, NEW q,
         q \in Seq(Observer)
  PROVE  /\ NextObserver(r, pos, q)
              \in [res: Resources, pos: Nat \ {0}] \cup {NoNotify}
         /\ NextObserver(r, pos, q) # NoNotify =>
              /\ NextObserver(r, pos, q).res = r
              /\ NextObserver(r, pos, q).pos \in 1..Len(q)
<1>1. Len(q) \in Nat
  BY LenProperties
<1> QED BY <1>1 DEF NextObserver

LEMMA NotifyType ==
  ASSUME TypeInv, NEW r \in Resources, NotifyResourceObservers(r)
  PROVE  TypeInv'
<1> USE TypeInvTyping
<1>1. observers[r] \in Seq(Observer) /\ updateCnt[r] \in 0..CntMod-1
  BY DEF TypeInv, TypeOK
<1>2. updateCnt' \in [Resources -> 0..CntMod-1]
  <2>1. (updateCnt[r] + 1) % CntMod \in 0..CntMod-1
    BY <1>1
  <2> QED BY <2>1 DEF NotifyResourceObservers, TypeInv, TypeOK
<1>3. /\ notifying' \in [res: Resources, pos: Nat \ {0}] \cup {NoNotify}
      /\ LoopAtObserver'
  <2>1. 1 \in Nat \ {0}
    OBVIOUS
  <2> QED BY <1>1, <2>1, NextObserverType
          DEF NotifyResourceObservers, LoopAtObserver
<1>4. Typed
  BY DEF NotifyResourceObservers, Typed, Typing, Silent, GoodHeap
<1> QED BY <1>2, <1>3, <1>4
        DEF TypeInv, TypeOK, PointersOK, NotifyResourceObservers, NoLoss,
            Typed, GoodHeap

\* The observer the loop is at.
LEMMA LoopObserverType ==
  ASSUME TypeInv, notifying # NoNotify
  PROVE  /\ LoopRes \in Resources /\ LoopObserver \in Observer
         /\ notifying.pos \in Nat \ {0}
         /\ updateCnt[LoopRes] \in Nat
         /\ observers[LoopRes] \in Seq(Observer)
<1>1. /\ LoopRes \in Resources
      /\ notifying.pos \in 1..Len(observers[LoopRes])
  BY DEF TypeInv, PointersOK, LoopAtObserver, LoopRes
<1>2. observers[LoopRes] \in Seq(Observer) /\ updateCnt[LoopRes] \in Nat
  BY <1>1 DEF TypeInv, TypeOK
<1>3. Len(observers[LoopRes]) \in Nat
  BY <1>2, LenProperties
<1> QED BY <1>1, <1>2, <1>3, ElementOfSeq DEF LoopObserver

LEMMA NewNotificationGood ==
  ASSUME TypeInv, notifying # NoNotify, NEW code \in RespCode,
         NEW type \in MsgType, NEW obs \in ObserveVal
  PROVE  Good(NewNotification(code, type, obs))
<1> DEFINE m == [type |-> type, code |-> code, mid |-> GetNextMid(mid),
                 tok |-> LoopObserver.tok, obs |-> obs, ts |-> 0]
           a == NewNotification(code, type, obs)
<1>1. /\ LoopObserver.ep \in Eps /\ LoopObserver.id \in ObsSlots
      /\ LoopObserver.tok \in Nat /\ LoopRes \in Resources
  BY LoopObserverType DEF Observer
<1>2. m \in RespMsg
  BY <1>1, NextMidType, TypeInvTyping DEF RespMsg, Time
<1>3. /\ a = [NewInteraction EXCEPT
                !.role = "NOTIFICATION", !.st = "READY_TO_NOTIFY",
                !.ep = LoopObserver.ep, !.res = LoopRes,
                !.observer = LoopObserver.id, !.resp = m]
  BY DEF NewNotification
<1> HIDE DEF a, m
<1>4. a \in Interaction
  BY <1>1, <1>2, <1>3, EmptyBlock DEF Good, Interaction, Role, State
<1>5. FitsRole(a)
  BY <1>1, <1>2, <1>3, EmptyBlock
  DEF FitsRole, NewInteraction
<1> QED BY <1>4, <1>5 DEF Good, a

\* A round of the loop that leaves the observers as they are.
LEMMA LoopRoundType ==
  ASSUME TypeInv, notifying # NoNotify, LoopGoesOn \/ notifying' = NoNotify,
         UNCHANGED <<now, observers, updateCnt, ownTok, lost>>,
         Typed, mid' \in Mid
  PROVE  TypeInv'
<1>1. notifying.pos + 1 \in Nat \ {0}
  BY LoopObserverType
<1>2. /\ notifying' \in [res: Resources, pos: Nat \ {0}] \cup {NoNotify}
      /\ LoopAtObserver'
  <2>1. CASE notifying' = NoNotify
    BY <2>1 DEF LoopAtObserver
  <2>2. CASE LoopGoesOn
    BY <2>2, <1>1, LoopObserverType, NextObserverType
    DEF LoopGoesOn, LoopAtObserver
  <2> QED BY <2>1, <2>2
<1> QED BY <1>2 DEF TypeInv, TypeOK, PointersOK, Typed, GoodHeap

LEMMA FlagPendingType ==
  ASSUME TypeInv, notifying # NoNotify, FlagPending
  PROVE  GoodHeap(ia') /\ list' = list
<1> USE TypeInvTyping
<1> DEFINE P == PendingNotification(LoopRes, LoopObserver)
           s == list[First(P)]
<1>1. P \subseteq 1..Len(list) /\ P # {}
  BY DEF FlagPending, PendingNotification, Matching
<1>2. s \in Slots
  <2> HIDE DEF P
  <2> QED BY <1>1, FirstMatchIsSlot DEF Typing
<1>3. ia' = [ia EXCEPT ![s].upd = TRUE] /\ list' = list
  BY DEF FlagPending
<1> HIDE DEF s
<1>4. Good([ia[s] EXCEPT !.upd = TRUE])
  <2> DEFINE a == ia[s]
             b == [a EXCEPT !.upd = TRUE]
  <2>1. a \in Interaction /\ FitsRole(a)
    BY <1>2 DEF Typing, GoodHeap
  <2> HIDE DEF a
  <2>2. b \in Interaction
    BY <2>1 DEF Interaction
  <2>3. /\ b.retrans = a.retrans /\ b.role = a.role /\ b.ep = a.ep
        /\ b.res = a.res /\ b.req = a.req /\ b.st = a.st /\ b.resp = a.resp
    BY <2>1 DEF Interaction
  <2> HIDE DEF b
  <2>4. FitsRole(b)
    BY <2>1, <2>3 DEF FitsRole
  <2> QED BY <2>2, <2>4 DEF Good, a, b
<1> QED BY <1>3, <1>4, HeapUpdated DEF Typing

LEMMA StartNotifyInteractionsType ==
  ASSUME TypeInv, StartNotifyInteractions
  PROVE  TypeInv'
<1> USE TypeInvTyping
<1>0. /\ notifying # NoNotify /\ Silent /\ NoLoss
      /\ UNCHANGED <<now, updateCnt, ownTok, fault>>
  BY DEF StartNotifyInteractions
<1>1. CASE FlagPending
  <2>1. Typed
    BY <1>0, <1>1, FlagPendingType DEF Typed, Typing, Silent
  <2> QED BY <1>0, <1>1, <2>1, LoopRoundType DEF FlagPending, NoLoss
<1>2. CASE NoRoomForNotification
  <2>1. Typed
    BY <1>0, <1>2 DEF NoRoomForNotification, Typed, Typing, GoodHeap, Silent
  <2> QED BY <1>0, <1>2, <2>1, LoopRoundType DEF NoRoomForNotification, NoLoss
<1>3. CASE NotificationDropped
  <2>1. Typed
    BY <1>0, <1>3 DEF NotificationDropped, Typed, Typing, GoodHeap, Silent
  <2> QED BY <1>0, <1>3, <2>1, DrawMidType, LoopRoundType
          DEF NotificationDropped, NoLoss
<1>4. ASSUME NEW type \in NotifierTypes, StartNotification(type)
      PROVE  TypeInv'
  <2>1. PICK s \in FreeSlots, obs \in ObserveOption(updateCnt[LoopRes]) :
          /\ ia' = [ia EXCEPT ![s] =
                      NewNotification("CONTENT", NotificationType(type), obs)]
          /\ list' = Append(list, s)
    BY <1>4 DEF StartNotification
  <2>2. /\ obs \in ObserveVal /\ NotificationType(type) \in MsgType
        /\ "CONTENT" \in RespCode
    BY <1>0, LoopObserverType, NotifyAssumption
    DEF ObserveVal, ObserveOption, NoObserve, NotificationType, MsgType, RespCode
  <2>3. Good(NewNotification("CONTENT", NotificationType(type), obs))
    BY <1>0, <2>2, NewNotificationGood
  <2>4. s \in Slots
    BY DEF FreeSlots
  <2>5. Typed
    BY <1>0, <2>1, <2>3, <2>4, HeapUpdated, AppendProperties
    DEF Typed, Typing, Silent
  <2> QED BY <1>0, <1>4, <2>5, DrawMidType, LoopRoundType
          DEF StartNotification, NoLoss
<1>5. ASSUME NEW type \in NotifierTypes, NotifierError(type)
      PROVE  TypeInv'
  <2> DEFINE q == WithoutObserver(observers[LoopRes], LoopObserver.ep,
                                  LoopObserver.tok)
  <2>1. PICK s \in FreeSlots :
          ia' = [ia EXCEPT ![s] = NewNotification("ERROR", type, NoObserve)]
    BY <1>5 DEF NotifierError
  <2>2. Good(NewNotification("ERROR", type, NoObserve))
    BY <1>0, NewNotificationGood, NotifyAssumption
    DEF ObserveVal, RespCode, MsgType
  <2>3. Typed
    BY <1>0, <1>5, <2>1, <2>2, HeapUpdated
    DEF NotifierError, Typed, Typing, Silent
  <2>4. /\ LoopRes \in Resources /\ notifying.pos \in Nat \ {0}
        /\ q \in Seq(Observer)
    BY <1>0, LoopObserverType, WithoutObserverType
  <2>5. observers' = [observers EXCEPT ![LoopRes] = q]
        /\ notifying' = NextObserver(LoopRes, notifying.pos, q)
    BY <1>5 DEF NotifierError
  <2> HIDE DEF q
  <2>6. /\ observers' \in [Resources -> Seq(Observer)]
        /\ observers'[LoopRes] = q
    BY <2>4, <2>5 DEF TypeInv, TypeOK
  <2>7. /\ notifying' \in [res: Resources, pos: Nat \ {0}] \cup {NoNotify}
        /\ LoopAtObserver'
    BY <2>4, <2>5, <2>6, NextObserverType DEF LoopAtObserver
  <2>8. mid' \in Mid
    BY <1>5, DrawMidType DEF NotifierError
  <2> QED BY <1>0, <2>3, <2>6, <2>7, <2>8
          DEF TypeInv, TypeOK, PointersOK, Typed, GoodHeap, NoLoss
<1> QED BY <1>1, <1>2, <1>3, <1>4, <1>5 DEF StartNotifyInteractions

LEMMA ReadyToNotifyType ==
  ASSUME TypeInv, ReadyToNotify
  PROVE  TypeInv'
<1> USE TypeInvTyping
<1> DEFINE a == ia[Head1]
<1>1. Head1 \in Slots /\ Good(a) /\ a.role = "NOTIFICATION"
  BY TurnType DEF ReadyToNotify
<1>2. Sendable(a, "NOTIFICATION_SENT")
  BY <1>1 DEF Sendable, Good, FitsRole, State
<1>3. Typed
  BY <1>1, <1>2, SendRespType DEF ReadyToNotify, Typing
<1> QED BY <1>3, QuietStep DEF ReadyToNotify, Typing

LEMMA RefreshedGood ==
  ASSUME mid \in Mid, NEW a, Good(a), a.role = "NOTIFICATION",
         NEW code \in RespCode, NEW type \in MsgType, NEW obs \in ObserveVal
  PROVE  /\ Good(Refreshed(a, code, type, obs))
         /\ Refreshed(a, code, type, obs).role = "NOTIFICATION"
         /\ Refreshed(a, code, type, obs).retrans = a.retrans
         /\ Refreshed(a, code, type, obs).st = a.st
         /\ Refreshed(a, code, type, obs).resp \in RespMsg
<1> DEFINE m == [a.resp EXCEPT !.mid = GetNextMid(mid), !.code = code,
                               !.type = type, !.obs = obs]
           b == Refreshed(a, code, type, obs)
<1>1. a.resp \in RespMsg /\ a \in Interaction /\ FitsRole(a)
  BY DEF Good, FitsRole
<1>2. m \in RespMsg
  BY <1>1, NextMidType DEF RespMsg
<1>3. b = [a EXCEPT !.upd = FALSE, !.resp = m]
  BY <1>1 DEF Refreshed, Interaction
<1> HIDE DEF m, b
<1>4. b \in Interaction /\ b.role = a.role /\ b.retrans = a.retrans
      /\ b.st = a.st /\ b.resp = m /\ b.ep = a.ep /\ b.res = a.res
  BY <1>1, <1>2, <1>3 DEF Interaction
<1>5. FitsRole(b)
  BY <1>1, <1>2, <1>4 DEF FitsRole
<1> QED BY <1>2, <1>4, <1>5 DEF Good, b

LEMMA ObserveOptionType ==
  ASSUME TypeInv, NEW r \in Resources, NEW obs \in ObserveOption(updateCnt[r])
  PROVE  obs \in ObserveVal
BY DEF TypeInv, TypeOK, ObserveOption, ObserveVal, NoObserve

LEMMA RestartedGood ==
  ASSUME NEW a, Good(a), a.role = "NOTIFICATION"
  PROVE  Good(Restarted(a))
<1>1. a \in Interaction /\ FitsRole(a)
  BY DEF Good
<1>2. Restarted(a) \in Interaction
  BY <1>1 DEF Interaction, Restarted, State, Reliability
<1>3. FitsRole(Restarted(a))
  BY <1>1 DEF FitsRole, Interaction, Restarted
<1> QED BY <1>2, <1>3 DEF Good

LEMMA NotificationSentType ==
  ASSUME TypeInv, NotificationSent
  PROVE  TypeInv'
<1> USE TypeInvTyping
<1> DEFINE a == ia[Head1]
<1>1. /\ Head1 \in Slots /\ Good(a) /\ a.role = "NOTIFICATION"
      /\ a.res \in Resources /\ a.resp \in RespMsg /\ a.retrans \in Nat
      /\ notifying = NoNotify
  BY TurnType
  DEF NotificationSent, Good, FitsRole, Interaction, Turn, Running
<1>2. NotifierCodes \subseteq RespCode /\ NotifierTypes \subseteq MsgType
      /\ a.resp.type \in MsgType
  BY <1>1, NotifyAssumption DEF RespCode, MsgType, RespMsg
<1>3. /\ now' \in Time /\ ownTok' \in Nat /\ lost' \in BOOLEAN
      /\ UNCHANGED <<updateCnt, notifying>>
  BY DEF NotificationSent, Typing
<1>4. observers \in [Resources -> Seq(Observer)]
  BY DEF TypeInv, TypeOK
<1>5. CASE NotificationWaiting(a)
  <2>1. Typed
    BY <1>1, <1>5, RequeueType DEF NotificationWaiting, Typed, Typing, Silent
  <2> QED BY <1>3, <1>5, <2>1, QuietStep DEF NotificationWaiting
<1>6. CASE NotificationRetry(a)
  <2>1. a.retrans + 1 <= MAX_RETRANSMIT
    BY <1>1, <1>6 DEF NotificationRetry, CheckRespStatus
  <2>2. mid' \in Mid
    BY <1>6, DrawMidType DEF NotificationRetry
  <2>3. ASSUME NEW b, Good(b), b.role = "NOTIFICATION", b.resp \in RespMsg,
               b.retrans = a.retrans, ResendResp(b)
        PROVE  Typed
    <3>1. Sendable(b, b.st)
      BY <2>3 DEF Sendable, Good, Interaction
    <3> QED BY <1>1, <2>1, <2>3, <3>1, ResendRespType
  <2>4. CASE ~a.upd
    <3>1. ResendResp(a)
      BY <1>6, <2>4 DEF NotificationRetry
    <3> QED BY <1>1, <1>3, <1>6, <2>2, <2>3, <3>1, QuietStep
            DEF NotificationRetry
  <2>5. CASE a.upd
    <3>1. PICK code \in NotifierCodes, obs \in ObserveOption(updateCnt[a.res]) :
            ResendResp(Refreshed(a, code, a.resp.type, obs))
      BY <1>6, <2>5 DEF NotificationRetry
    <3>2. obs \in ObserveVal
      BY <1>1, ObserveOptionType
    <3> DEFINE b == Refreshed(a, code, a.resp.type, obs)
    <3>3. /\ Good(b) /\ b.role = "NOTIFICATION" /\ b.resp \in RespMsg
          /\ b.retrans = a.retrans
      BY <1>1, <1>2, <3>2, RefreshedGood
    <3>4. ResendResp(b)
      BY <3>1
    <3> HIDE DEF b
    <3> QED BY <1>3, <1>6, <2>2, <2>3, <3>3, <3>4, QuietStep
            DEF NotificationRetry
  <2> QED BY <2>4, <2>5
<1>7. CASE NotificationDone(a)
  <2>1. mid' \in Mid
    BY <1>7, DrawMidType DEF NotificationDone
  <2>2. CASE ~a.upd
    <3>1. Typed
      BY <1>7, <2>2, DeleteType DEF NotificationDone, Typed, Typing, Silent
    <3> QED BY <1>3, <1>7, <2>1, <3>1, QuietStep DEF NotificationDone
  <2>3. CASE a.upd
    <3>1. PICK code \in NotifierCodes, type \in NotifierTypes \cup {a.resp.type},
               obs \in ObserveOption(updateCnt[a.res]) :
            Requeue(Restarted(Refreshed(a, code, type, obs)))
      BY <1>7, <2>3 DEF NotificationDone
    <3>2. obs \in ObserveVal
      BY <1>1, ObserveOptionType
    <3>3. Good(Restarted(Refreshed(a, code, type, obs)))
      BY <1>1, <1>2, <3>2, RefreshedGood, RestartedGood
    <3>4. Typed
      BY <1>1, <1>7, <3>1, <3>3, RequeueType
      DEF NotificationDone, Typed, Typing, Silent
    <3> QED BY <1>3, <1>7, <2>1, <3>4, QuietStep DEF NotificationDone
  <2> QED BY <2>2, <2>3
<1>8. CASE NotificationAborted(a)
  <2>1. Typed
    BY <1>8, DeleteType DEF NotificationAborted, Typed, Typing, Silent
  <2>2. observers' \in [Resources -> Seq(Observer)]
    <3>1. WithoutObserver(observers[a.res], a.ep, a.resp.tok) \in Seq(Observer)
      BY <1>1, <1>4, WithoutObserverType
    <3> QED BY <1>4, <1>8, <3>1 DEF NotificationAborted
  <2> QED BY <1>1, <1>3, <1>8, <2>1, <2>2, ObserverStep DEF NotificationAborted
<1> QED BY <1>5, <1>6, <1>7, <1>8 DEF NotificationSent

(***************************************************************************)
(* The client role.                                                        *)
(***************************************************************************)
LEMMA StartNewGetRequestType ==
  ASSUME TypeInv, NEW ep \in Servers, StartNewGetRequest(ep)
  PROVE  TypeInv'
<1> USE TypeInvTyping
<1>0. ep \in Eps
  BY RequesterAssumption
<1>1. GetRequest \in ReqMsg
  BY NextMidType DEF GetRequest, ReqMsg, Method, ObserveOpt, Time
<1> DEFINE a == [NewInteraction EXCEPT !.role = "CLIENT",
                   !.st = "READY_TO_REQUEST", !.ep = ep, !.req = GetRequest]
<1>2. Good(a)
  BY <1>0, <1>1, EmptyBlock
  DEF Good, Interaction, FitsRole, NewInteraction, Role, State
<1> HIDE DEF a
<1>3. ASSUME NEW s \in FreeSlots, ia' = [ia EXCEPT ![s] = a],
             list' = Append(list, s)
      PROVE  list' \in Seq(Slots) /\ GoodHeap(ia')
  <2>1. s \in Slots
    BY DEF FreeSlots
  <2> QED BY <1>2, <1>3, <2>1, HeapUpdated, AppendProperties DEF Typing
<1>4. Typed
  BY <1>3 DEF StartNewGetRequest, Typed, Typing, Silent, a, GoodHeap
<1>5. mid' \in Mid
  BY DrawMidType DEF StartNewGetRequest
<1>6. ownTok' \in Nat /\ lost' \in BOOLEAN
  <2>1. ownTok' = ownTok + 1
    BY DEF StartNewGetRequest
  <2>2. lost' = lost \/ lost' = TRUE
    BY Zenon DEF StartNewGetRequest, NoLoss
  <2>3. ownTok' \in Nat
    BY <2>1
  <2>4. lost' \in BOOLEAN
    BY <2>2, Zenon
  <2> QED BY <2>3, <2>4
<1> QED BY <1>4, <1>5, <1>6, QuietStep DEF StartNewGetRequest, Typing

LEMMA ReadyToRequestType ==
  ASSUME TypeInv, ReadyToRequest
  PROVE  TypeInv'
<1> USE TypeInvTyping
<1> DEFINE a == ia[Head1]
           b == [a EXCEPT !.req.ts = now, !.st = "WAITING_RESPONSE",
                          !.ackTo = IF a.req.type = "CON"
                                      THEN AckDeadline(a.retrans) ELSE @]
<1>1. /\ Head1 \in Slots /\ Good(a) /\ a.role = "CLIENT"
      /\ a.req \in ReqMsg /\ a.ep \in Eps /\ a \in Interaction /\ FitsRole(a)
  BY TurnType DEF ReadyToRequest, Good, FitsRole
<1>2. Good(b)
  <2>1. a.retrans \in 0..MAX_RETRANSMIT
    BY <1>1 DEF FitsRole, Interaction
  <2>2. AckDeadline(a.retrans) \in Nat
    BY <2>1, DeadlineType DEF Typing
  <2>3. [a.req EXCEPT !.ts = now] \in ReqMsg
    BY <1>1 DEF ReqMsg, Typing
  <2>4. b \in Interaction
    BY <1>1, <2>2, <2>3 DEF Interaction, State
  <2>5. FitsRole(b)
    BY <1>1, <2>3 DEF FitsRole, Interaction
  <2> QED BY <2>4, <2>5 DEF Good
<1>3. ReqDatagram(a.ep, a.req) \in Datagram
  BY <1>1, ReqDatagramType
<1>4. Typed
  <2>1. \/ tx' = ReqDatagram(a.ep, a.req) /\ Requeue(b)
        \/ Silent /\ Delete
    BY DEF ReadyToRequest
  <2>2. fault' = fault
    BY DEF ReadyToRequest
  <2> HIDE DEF b
  <2> QED BY <1>1, <1>2, <1>3, <2>1, <2>2, RequeueType, DeleteType
          DEF Typed, Typing, Silent
<1> QED BY <1>4, QuietStep DEF ReadyToRequest, Typing

LEMMA WaitingResponseType ==
  ASSUME TypeInv, WaitingResponse
  PROVE  TypeInv'
<1> USE TypeInvTyping
<1> DEFINE a == ia[Head1]
           b == [a EXCEPT !.req.ts = now, !.retrans = @ + 1,
                          !.ackTo = AckDeadline(a.retrans + 1)]
<1>1. /\ Head1 \in Slots /\ Good(a) /\ a.role = "CLIENT"
      /\ a.req \in ReqMsg /\ a.ep \in Eps /\ a \in Interaction /\ FitsRole(a)
      /\ a.retrans \in Nat /\ a.retrans + 1 \in Nat
  BY TurnType DEF WaitingResponse, Good, FitsRole, Interaction
<1>2. ReqDatagram(a.ep, a.req) \in Datagram
  BY <1>1, ReqDatagramType
<1>3. ASSUME a.retrans + 1 <= MAX_RETRANSMIT
      PROVE  Good(b)
  <2>1. AckDeadline(a.retrans + 1) \in Nat
    BY <1>1, <1>3, DeadlineType DEF Typing
  <2>2. [a.req EXCEPT !.ts = now] \in ReqMsg
    BY <1>1 DEF ReqMsg, Typing
  <2>3. b = [a EXCEPT !.req = [a.req EXCEPT !.ts = now],
                      !.retrans = a.retrans + 1,
                      !.ackTo = AckDeadline(a.retrans + 1)]
    BY <1>1 DEF Interaction
  <2> HIDE DEF b
  <2>4. b \in Interaction
    BY <1>1, <2>1, <2>2, <2>3 DEF Interaction
  <2>5. FitsRole(b)
    BY <1>1, <1>3, <2>2, <2>3 DEF FitsRole, Interaction
  <2> QED BY <2>4, <2>5 DEF Good
<1>4. Typed
  <2>0. fault' = fault
    BY DEF WaitingResponse
  <2>1. CASE Requeue(a) /\ Silent
    BY <2>0, <2>1, <1>1, RequeueType DEF Typed, Typing, Silent
  <2>2. CASE CheckReqStatus(a) = "RETRY" /\ ResendReq(a)
    <3>1. a.retrans + 1 <= MAX_RETRANSMIT
      BY <2>2, <1>1 DEF CheckReqStatus
    <3>2. \/ /\ tx' = ReqDatagram(a.ep, a.req)
             /\ ia' = [ia EXCEPT ![Head1] = b] /\ list' = list
          \/ Silent /\ Delete
      BY <2>2 DEF ResendReq
    <3>3. Good(b)
      BY <1>3, <3>1
    <3> HIDE DEF b
    <3>4. CASE Silent /\ Delete
      BY <2>0, <3>4, DeleteType DEF Typed, Typing, Silent
    <3>5. CASE /\ tx' = ReqDatagram(a.ep, a.req)
               /\ ia' = [ia EXCEPT ![Head1] = b] /\ list' = list
      BY <2>0, <3>3, <3>5, <1>1, <1>2, HeapUpdated DEF Typed, Typing
    <3> QED BY <3>2, <3>4, <3>5
  <2>3. CASE Delete /\ Silent
    BY <2>0, <2>3, DeleteType DEF Typed, Typing, Silent
  <2> QED BY <2>1, <2>2, <2>3 DEF WaitingResponse
<1> QED BY <1>4, QuietStep DEF WaitingResponse, Typing

LEMMA HandleResponseType ==
  ASSUME TypeInv, HandleResponse
  PROVE  TypeInv'
<1> USE TypeInvTyping
<1>1. Typed
  BY DeleteType DEF HandleResponse, Typed, Typing, Silent
<1> QED BY <1>1, QuietStep DEF HandleResponse, Typing

LEMMA RequesterWorkType ==
  ASSUME TypeInv, RequesterWork
  PROVE  TypeInv'
BY ReadyToRequestType, WaitingResponseType, HandleResponseType DEF RequesterWork

(***************************************************************************)
(* Packets.                                                                *)
(***************************************************************************)
\* An ACK or a reset only marks an interaction, or hands it its response.
LEMMA WithReliabilityGood ==
  ASSUME NEW a, Good(a), NEW r \in Reliability
  PROVE  Good(WithReliability(a, r)) /\ WithReliability(a, r).role = a.role
BY DEF Good, FitsRole, Interaction, WithReliability

LEMMA WithResponseGood ==
  ASSUME now \in Time, NEW a, Good(a), a.role = "CLIENT",
         NEW p \in PacketSet
  PROVE  Good(WithResponse(a, p))
<1>1. ResponseOf(p) \in RespMsg
  BY DEF ResponseOf, PacketSet, RespMsg, RespCode, ObserveVal, NoObserve
<1>2. a \in Interaction /\ FitsRole(a)
  BY DEF Good
<1>3. WithResponse(a, p) \in Interaction
  BY <1>1, <1>2 DEF WithResponse, Interaction, State
<1>4. FitsRole(WithResponse(a, p))
  BY <1>2 DEF WithResponse, Interaction, FitsRole
<1> QED BY <1>3, <1>4 DEF Good

LEMMA AcknowledgedGood ==
  ASSUME now \in Time, NEW a, Good(a), NEW p \in PacketSet
  PROVE  Good(Acknowledged(a, p))
<1>1. "ACK_SET" \in Reliability
  BY DEF Reliability
<1> QED BY <1>1, WithReliabilityGood, WithResponseGood DEF Acknowledged

\* The slot an ACK or a reset is applied to.
LEMMA TargetIsSlot ==
  ASSUME Typing, NEW ep, NEW m, ReliabilityTargets(ep, m) # {}
  PROVE  list[First(ReliabilityTargets(ep, m))] \in Slots
<1>1. ReliabilityTargets(ep, m) \subseteq 1..Len(list)
  BY DEF ReliabilityTargets, Matching
<1> QED BY <1>1, FirstMatchIsSlot DEF Typing

LEMMA ReceiveResetType ==
  ASSUME TypeInv, NEW p \in PacketSet, ReceiveReset(p)
  PROVE  TypeInv'
<1> USE TypeInvTyping
<1> DEFINE T == ReliabilityTargets(p.ep, p.mid)
           s == list[First(T)]
<1>1. GoodHeap(ia')
  <2>1. CASE T = {}
    BY <2>1 DEF ReceiveReset, Apply, Typing, GoodHeap
  <2>2. CASE T # {}
    <3>1. ia' = [ia EXCEPT ![s] = WithReliability(ia[s], "RST_SET")]
      BY <2>2 DEF ReceiveReset, Apply
    <3>2. s \in Slots
      BY <2>2, TargetIsSlot
    <3> HIDE DEF s
    <3>3. Good(WithReliability(ia[s], "RST_SET"))
      BY <3>2, WithReliabilityGood DEF Typing, GoodHeap, Good, Reliability
    <3> QED BY <3>1, <3>3, HeapUpdated DEF Typing
  <2> QED BY <2>1, <2>2
<1>2. Typed
  BY <1>1 DEF ReceiveReset, Typed, Typing, Silent
<1> QED BY <1>2, QuietStep DEF ReceiveReset, Typing

LEMMA ReceiveAckType ==
  ASSUME TypeInv, NEW p \in PacketSet, ReceiveAck(p)
  PROVE  TypeInv'
<1> USE TypeInvTyping
<1> DEFINE T == ReliabilityTargets(p.ep, p.mid)
           s == list[First(T)]
<1>1. GoodHeap(ia')
  <2>1. CASE T = {}
    BY <2>1 DEF ReceiveAck, Apply, Typing, GoodHeap
  <2>2. CASE T # {}
    <3>1. ia' = [ia EXCEPT ![s] = Acknowledged(ia[s], p)]
      BY <2>2 DEF ReceiveAck, Apply
    <3>2. s \in Slots
      BY <2>2, TargetIsSlot
    <3> HIDE DEF s
    <3>3. Good(Acknowledged(ia[s], p))
      BY <3>2, AcknowledgedGood DEF Typing, GoodHeap, Good
    <3> QED BY <3>1, <3>3, HeapUpdated DEF Typing
  <2> QED BY <2>1, <2>2
<1>2. Typed
  BY <1>1 DEF ReceiveAck, Typed, Typing, Silent
<1> QED BY <1>2, QuietStep DEF ReceiveAck, Typing

LEMMA ReceiveSeparateType ==
  ASSUME TypeInv, NEW p \in PacketSet, ReceiveSeparate(p)
  PROVE  TypeInv'
<1> USE TypeInvTyping
<1> DEFINE W == AwaitingToken(p.ep, p.tok)
           s == list[First(W)]
<1>0. /\ p.ep \in Eps /\ p.mid \in Mid /\ p.tok \in Nat
      /\ UNCHANGED <<now, mid, list, observers, updateCnt, notifying, ownTok,
                     fault>>
  BY DEF PacketSet, ReceiveSeparate
<1>1. ShortDatagram(p.ep, "ACK", "EMPTY", p.mid, p.tok) \in Datagram
      /\ ShortDatagram(p.ep, "RST", "EMPTY", p.mid, p.tok) \in Datagram
  BY <1>0, ShortDatagramType DEF MsgType, RespCode
<1>2. CASE W = {}
  <2>1. SendShort(ShortDatagram(p.ep, "RST", "EMPTY", p.mid, p.tok))
        /\ UNCHANGED <<ia, lost>>
    BY <1>2 DEF ReceiveSeparate
  <2>2. Typed
    BY <1>0, <1>1, <2>1, SendShortType DEF Typed, Typing, GoodHeap
  <2> QED BY <1>0, <2>1, <2>2, QuietStep DEF Typing
<1>3. CASE W # {}
  <2>1. SeparateAccepted(p, s)
    BY <1>3 DEF ReceiveSeparate
  <2>2. First(W) \in W /\ s \in Slots
    <3>1. W \subseteq 1..Len(list)
      BY DEF AwaitingToken, Matching
    <3>2. W \subseteq Nat
      BY <3>1, LenProperties DEF Typing
    <3> HIDE DEF W
    <3> QED BY <1>3, <3>1, <3>2, FirstIsFirst, FirstMatchIsSlot DEF Typing
  <2>3. Good(ia[s]) /\ ia[s].role = "CLIENT"
    BY <2>2 DEF AwaitingToken, Matching, Typing, GoodHeap, Good
  <2> HIDE DEF s
  <2> DEFINE b == IF ia[s].st \in {"WAITING_RESPONSE", "HANDLE_RESPONSE"}
                    THEN WithResponse(ia[s], p) ELSE ia[s]
  <2>4. Good(b)
    BY <2>3, WithResponseGood DEF Typing
  <2>5. Good([b EXCEPT !.respRel = "ACK_SET"])
    <3> HIDE DEF b
    <3> QED BY <2>4 DEF Good, Interaction, FitsRole, Reliability
  <2>6. /\ lost' \in BOOLEAN
        /\ \/ /\ tx' = ShortDatagram(p.ep, "ACK", "EMPTY", p.mid, p.tok)
              /\ ia' = [ia EXCEPT ![s] = [b EXCEPT !.respRel = "ACK_SET"]]
           \/ Silent /\ ia' = [ia EXCEPT ![s] = b]
    BY <2>1 DEF SeparateAccepted
  <2> HIDE DEF b
  <2>7. GoodHeap(ia')
    <3>1. /\ GoodHeap([ia EXCEPT ![s] = b])
          /\ GoodHeap([ia EXCEPT ![s] = [b EXCEPT !.respRel = "ACK_SET"]])
      BY <2>4, <2>5, HeapUpdated DEF Typing
    <3> QED BY <2>6, <3>1
  <2>8. tx' \in Datagram \cup {NoDatagram}
    BY <1>0, <1>1, <2>6 DEF Silent
  <2>9. Typed
    BY <1>0, <2>7, <2>8 DEF Typed, Typing
  <2> QED BY <1>0, <2>6, <2>9, QuietStep DEF Typing
<1> QED BY <1>2, <1>3

\* Packets that are answered, or ignored, without any state.
LEMMA ReceiveStatelessType ==
  ASSUME TypeInv, NEW p \in PacketSet,
         ReceivePing(p) \/ ReceiveIgnored(p) \/ ReceiveUnknownResource(p)
           \/ ReceiveBadOption(p)
  PROVE  TypeInv'
<1> USE TypeInvTyping
<1>0. p.ep \in Eps /\ p.mid \in Mid /\ p.tok \in Nat
  BY DEF PacketSet
<1>1. ASSUME NEW type \in MsgType, NEW code \in RespCode, NEW m \in Mid,
             NEW tok \in Nat, SendShort(ShortDatagram(p.ep, type, code, m, tok))
      PROVE  tx' \in Datagram \cup {NoDatagram}
  BY <1>0, <1>1, ShortDatagramType, SendShortType
<1>2. mid' \in Mid /\ StateUnchanged
  BY DrawMidType
  DEF ReceivePing, ReceiveIgnored, ReceiveUnknownResource, ReceiveBadOption
<1>3. tx' \in Datagram \cup {NoDatagram}
  <2>1. {"ACK", "RST", "NON"} \subseteq MsgType /\ {"EMPTY", "ERROR"} \subseteq RespCode
    BY DEF MsgType, RespCode
  <2>2. CASE ReceivePing(p)
    BY <2>1, <2>2, <1>0, <1>1 DEF ReceivePing
  <2>3. CASE ReceiveIgnored(p)
    BY <2>3 DEF ReceiveIgnored, Silent
  <2>4. CASE ReceiveUnknownResource(p)
    BY <2>1, <2>4, <1>0, <1>1, <1>2 DEF ReceiveUnknownResource
  <2>5. CASE ReceiveBadOption(p)
    BY <2>1, <2>5, <1>0, <1>1 DEF ReceiveBadOption
  <2> QED BY <2>2, <2>3, <2>4, <2>5
<1>4. Typed
  BY <1>2, <1>3 DEF StateUnchanged, Typed, Typing, GoodHeap
<1> QED BY <1>2, <1>4, QuietStep DEF StateUnchanged, Typing

LEMMA onNewPacketHandlerType ==
  ASSUME TypeInv, onNewPacketHandler
  PROVE  TypeInv'
<1>1. PICK p \in Packets :
       \/ ReceivePing(p) \/ ReceiveIgnored(p) \/ ReceiveUnknownResource(p)
       \/ ReceiveBadOption(p) \/ ReceiveReset(p) \/ ReceiveAck(p)
       \/ ReceiveRequest(p) \/ ReceiveSeparate(p)
  BY DEF onNewPacketHandler
<1>2. p \in PacketSet
  BY MainAssumption
<1>3. CASE ReceiveRequest(p)
  <2>1. /\ p.type \in {"CON", "NON"} /\ p.res \in Resources
        /\ StartNewServerInteraction(p)
    BY <1>2, <1>3
    DEF ReceiveRequest, Accepted, UnknownResource, PacketSet
  <2> QED BY <1>2, <2>1, StartServerType
<1> QED BY <1>1, <1>2, <1>3, ReceiveStatelessType, ReceiveResetType,
           ReceiveAckType, ReceiveSeparateType

(***************************************************************************)
(* The stack.                                                              *)
(***************************************************************************)
LEMMA StillSleepingType ==
  ASSUME TypeInv, StillSleeping
  PROVE  TypeInv'
<1> USE TypeInvTyping
<1>1. Head1 \in Slots /\ Good(ia[Head1])
  BY HeadIsSlot DEF StillSleeping, Typing, GoodHeap, Good
<1>2. Typed
  BY <1>1, RequeueType DEF StillSleeping, Typed, Typing, Silent
<1> QED BY <1>2, QuietStep DEF StillSleeping, Typing

LEMMA TickType ==
  ASSUME TypeInv, Tick
  PROVE  TypeInv'
<1> USE TypeInvTyping
<1>1. now' \in Time
  BY DEF Tick, Typing, Time
<1>2. Typed
  BY DEF Tick, Typed, Typing, Silent, GoodHeap
<1> QED BY <1>1, <1>2, QuietStep DEF Tick

LEMMA StutterType ==
  ASSUME TypeInv, UNCHANGED vars
  PROVE  TypeInv'
BY DEF vars, TypeInv, TypeOK, PointersOK, LoopAtObserver

LEMMA InitType == Init => TypeInv
<1> SUFFICES ASSUME Init PROVE TypeInv
  OBVIOUS
<1>1. list \in Seq(Slots) /\ observers \in [Resources -> Seq(Observer)]
  BY EmptySeq DEF Init
<1>2. \A s \in Slots : Good(ia[s])
  BY EmptyBlock DEF Init
<1>3. /\ now \in Time /\ mid \in Mid /\ ownTok \in Nat
      /\ ia \in [Slots -> Interaction]
      /\ updateCnt \in [Resources -> 0..CntMod-1]
  BY EmptyBlock DEF Init, Time, Mid, TokenStart, Good
<1>4. /\ notifying = NoNotify /\ tx = NoDatagram
      /\ lost \in BOOLEAN /\ fault \in BOOLEAN
  BY Zenon DEF Init
<1> QED
  BY <1>1, <1>2, <1>3, <1>4, Zenon
  DEF TypeInv, TypeOK, PointersOK, LoopAtObserver, Good

LEMMA NextType ==
  ASSUME TypeInv, [Next]_vars
  PROVE  TypeInv'
<1>1. CASE doWork
  <2>1. CASE NotifyWork
    BY <2>1, ReadyToNotifyType, NotificationSentType DEF NotifyWork
  <2> QED BY <1>1, <2>1, StillSleepingType, ServerWorkType, RequesterWorkType
          DEF doWork
<1>2. ASSUME NEW r \in Changing, NotifyResourceObservers(r)
      PROVE  TypeInv'
  BY <1>2, NotifyType, MainAssumption
<1> QED
  BY <1>1, <1>2, onNewPacketHandlerType, StartNotifyInteractionsType,
     StartNewGetRequestType, TickType, StutterType DEF Next

\* TypeInv is an invariant of the stack.
THEOREM TypeInvariant == Spec => []TypeInv
BY InitType, NextType, PTL DEF Spec

\* Every variable keeps the type its C counterpart declares, whatever packets
\* arrive and however many interactions, observers and retries there are.
THEOREM TypeCorrect == Spec => []TypeOK
<1>1. TypeInv => TypeOK
  BY DEF TypeInv
<1> QED BY <1>1, TypeInvariant, PTL

\* No branch of CoAP_doWork or CoAP_onNewPacketHandler dereferences a message,
\* peer or resource its interaction does not have, and the loop of
\* CoAP_StartNotifyInteractions never stands beyond the list of observers.
THEOREM PointersCorrect == Spec => []PointersOK
<1>1. TypeInv => PointersOK
  BY DEF TypeInv
<1> QED BY <1>1, TypeInvariant, PTL

(***************************************************************************)
(* What a step may do to one interaction: the retransmission timer follows *)
(* the transmissions (BackoffFitsRetries, WaitsOnlyForSent), a response    *)
(* fits the request it answers, on either side (ResponseFitsRequest,       *)
(* CallbackFitsRequest), and an accepted request is not forgotten          *)
(* (AnsweredBeforeForgotten).                                              *)
(*                                                                         *)
(* The argument looks at each slot alone.  SlotInv is what the contents of *)
(* a slot always satisfy; Step relates the contents before and after a     *)
(* step.  ResponseFitsRequest is not inductive: it says nothing of an      *)
(* interaction whose response is not sent yet, so SlotInv adds when an     *)
(* empty ACK has gone out, and that only an allowed method gets that far.  *)
(***************************************************************************)
AsksCon(a) == a.role = "CLIENT" => a.req.type = "CON"

Matched(a) ==
  a.st = "HANDLE_RESPONSE" => a.resp # NoResp /\ a.resp.tok = a.req.tok

\* m can be the response of a: ResponseFitsRequest before the transmission.
Answers(a, m) ==
  /\ m.tok = a.req.tok /\ m.code # "EMPTY"
  /\ m.type = "ACK" <=> (a.req.type = "CON" /\ a.sleep = 0)
  /\ a.req.type = "CON" /\ m.type # "ACK" => a.reqRel = "ACK_SET"

\* Before its response is sent, an interaction has slept exactly when the
\* empty ACK went out, and then its method was allowed.
Prepared(a) ==
  /\ a.resp # NoResp => a.resp.tok = a.req.tok
  /\ a.reqRel = "ACK_SET" <=> (a.req.type = "CON" /\ a.sleep # 0)
  /\ a.reqRel = "ACK_SET" => Allowed(a)

Serves(a) ==
  /\ a.st = "RESPONSE_SENT" =>
       /\ a.role = "SERVER" /\ Answers(a, a.resp)
       /\ a.req.type = "CON" => a.reqRel = "ACK_SET"
  /\ a.role = "SERVER" /\ a.st # "RESPONSE_SENT" => Prepared(a)

SlotInv(a) == AsksCon(a) /\ Matched(a) /\ Serves(a)

\* The timer of b was already running, for the same transmission.
SameTimer(a, b) ==
  /\ InFlight(a) /\ a.retrans = b.retrans /\ a.ackTo = b.ackTo
  /\ LastSent(a) = LastSent(b)

\* The step gave the message of b to the socket and started its timer.
JustSent(b) ==
  /\ SentAs(b, tx') /\ LastSent(b) = now
  /\ b.ackTo = AckDeadline(b.retrans)

Step(a, b) ==
  /\ SlotInv(b)
  /\ ~InFlight(b) \/ SameTimer(a, b) \/ JustSent(b)
  /\ \/ SendMayFail
     \/ a.role = "SERVER" /\ b.role # "SERVER" => a.st = "RESPONSE_SENT"

HeapInv == \A s \in Slots : SlotInv(ia[s])
AllStep == \A s \in Slots : Step(ia[s], ia'[s])
Start == Typing /\ HeapInv

(***************************************************************************)
(* Kinds of steps of one interaction.                                      *)
(***************************************************************************)
LEMMA StepReflexive ==
  ASSUME NEW a, SlotInv(a)
  PROVE  Step(a, a)
BY DEF Step, SameTimer

LEMMA EmptyBlockStep ==
  ASSUME NEW a,
         SendMayFail \/ (a.role = "SERVER" => a.st = "RESPONSE_SENT")
  PROVE  Step(a, NewInteraction)
<1>1. SlotInv(NewInteraction)
  BY DEF SlotInv, AsksCon, Matched, Serves, NewInteraction
<1>2. ~InFlight(NewInteraction)
  BY DEF InFlight, NewInteraction
<1> QED BY <1>1, <1>2 DEF Step

\* Marks and flags: nothing Step looks at changes.
LEMMA MarkStep ==
  ASSUME NEW a, NEW b, SlotInv(a),
         b.role = a.role, b.st = a.st, b.res = a.res, b.req = a.req,
         b.resp = a.resp, b.retrans = a.retrans, b.ackTo = a.ackTo,
         b.sleep = a.sleep, a.role = "SERVER" => b.reqRel = a.reqRel
  PROVE  Step(a, b)
<1>1. SlotInv(b)
  BY DEF SlotInv, AsksCon, Matched, Serves, Answers, Prepared, Allowed
<1>2. InFlight(b) => SameTimer(a, b)
  BY DEF InFlight, SameTimer, LastSent
<1> QED BY <1>1, <1>2 DEF Step

\* A response is transmitted for the first time, or again after a restart.
LEMMA TransmittedStep ==
  ASSUME NEW o, NEW a \in Interaction, a.role = o.role, a.resp \in RespMsg,
         NEW next,
         \/ a.role = "SERVER" /\ next = "RESPONSE_SENT" /\ Answers(a, a.resp)
         \/ a.role = "NOTIFICATION" /\ next = "NOTIFICATION_SENT",
         tx' = RespDatagram(a.ep, a.resp)
  PROVE  Step(o, Transmitted(a, next))
<1> DEFINE b == Transmitted(a, next)
<1>1. /\ b.role = a.role /\ b.st = next /\ b.ep = a.ep /\ b.res = a.res
      /\ b.req = a.req /\ b.retrans = a.retrans /\ b.sleep = a.sleep
      /\ b.reqRel = IF a.resp.type = "ACK" THEN "ACK_SET" ELSE a.reqRel
      /\ a.resp.type = "CON" => b.ackTo = AckDeadline(a.retrans)
      /\ b.resp = [a.resp EXCEPT !.ts = now]
  BY DEF Transmitted, Interaction
<1> HIDE DEF b
<1>2. /\ b.resp.type = a.resp.type /\ b.resp.code = a.resp.code
      /\ b.resp.mid = a.resp.mid /\ b.resp.tok = a.resp.tok
      /\ b.resp.obs = a.resp.obs /\ b.resp.ts = now
  BY <1>1 DEF RespMsg
<1>3. SlotInv(b)
  BY <1>1, <1>2 DEF SlotInv, AsksCon, Matched, Serves, Answers
<1>4. InFlight(b) => JustSent(b)
  <2>1. SentAs(b, tx')
    BY <1>1, <1>2 DEF SentAs, RespDatagram
  <2>2. LastSent(b) = now
    BY <1>1, <1>2 DEF LastSent
  <2>3. InFlight(b) => b.ackTo = AckDeadline(b.retrans)
    BY <1>1, <1>2 DEF InFlight
  <2> QED BY <2>1, <2>2, <2>3 DEF JustSent
<1>5. Step(o, b)
  BY <1>1, <1>3, <1>4 DEF Step
<1> QED BY <1>5 DEF b

\* A response is transmitted again by a retry.
Resent(a) ==
  [a EXCEPT !.resp.ts = now, !.retrans = @ + 1,
            !.ackTo = AckDeadline(a.retrans + 1)]

LEMMA ResentStep ==
  ASSUME NEW o, NEW a \in Interaction, a.role = o.role, a.resp \in RespMsg,
         a.role \in {"SERVER", "NOTIFICATION"}, a.st # "HANDLE_RESPONSE",
         a.role = "SERVER" => a.st = "RESPONSE_SENT", SlotInv(a),
         tx' = RespDatagram(a.ep, a.resp)
  PROVE  Step(o, Resent(a))
<1> DEFINE b == Resent(a)
<1>1. /\ b.role = a.role /\ b.st = a.st /\ b.ep = a.ep /\ b.res = a.res
      /\ b.req = a.req /\ b.retrans = a.retrans + 1 /\ b.sleep = a.sleep
      /\ b.reqRel = a.reqRel /\ b.ackTo = AckDeadline(a.retrans + 1)
      /\ b.resp = [a.resp EXCEPT !.ts = now]
  BY DEF Resent, Interaction
<1> HIDE DEF b
<1>2. /\ b.resp.type = a.resp.type /\ b.resp.code = a.resp.code
      /\ b.resp.mid = a.resp.mid /\ b.resp.tok = a.resp.tok
      /\ b.resp.obs = a.resp.obs /\ b.resp.ts = now
  BY <1>1 DEF RespMsg
<1>3. SlotInv(b)
  BY <1>1, <1>2 DEF SlotInv, AsksCon, Matched, Serves, Answers
<1>4. JustSent(b)
  <2>1. SentAs(b, tx')
    BY <1>1, <1>2 DEF SentAs, RespDatagram
  <2>2. LastSent(b) = now
    BY <1>1, <1>2 DEF LastSent
  <2> QED BY <1>1, <2>1, <2>2 DEF JustSent
<1>5. Step(o, b)
  BY <1>1, <1>3, <1>4 DEF Step
<1> QED BY <1>5 DEF b

(***************************************************************************)
(* From the interactions a step changes to the whole heap.                 *)
(***************************************************************************)
LEMMA SameHeapSteps ==
  ASSUME Start, ia' = ia
  PROVE  AllStep
BY StepReflexive DEF Start, HeapInv, AllStep

LEMMA SetSteps ==
  ASSUME Start, NEW s \in Slots, NEW a, ia' = [ia EXCEPT ![s] = a],
         Step(ia[s], a)
  PROVE  AllStep
<1>1. \A t \in Slots : ia'[t] = IF t = s THEN a ELSE ia[t]
  BY DEF Start, Typing, GoodHeap
<1> QED BY <1>1, StepReflexive DEF Start, HeapInv, AllStep

LEMMA RequeueSteps ==
  ASSUME Start, Head1 \in Slots, NEW a, Requeue(a), Step(ia[Head1], a)
  PROVE  AllStep
BY SetSteps DEF Requeue

LEMMA DeleteSteps ==
  ASSUME Start, Head1 \in Slots, Delete,
         \/ SendMayFail
         \/ ia[Head1].role = "SERVER" => ia[Head1].st = "RESPONSE_SENT"
  PROVE  AllStep
BY SetSteps, EmptyBlockStep DEF Delete, Freed

\* The steps that lead from the heap to h, and then give away the head.
Reaches(h) ==
  /\ h \in [Slots -> Interaction]
  /\ \A s \in Slots : Step(ia[s], h[s])

LEMMA SelfReaches ==
  ASSUME Start
  PROVE  Reaches(ia)
BY StepReflexive DEF Start, HeapInv, Typing, GoodHeap, Reaches

LEMMA RespRefusedSteps ==
  ASSUME NEW a, NEW q, NEW h, Reaches(h), RespRefused(a, q, h)
  PROVE  AllStep
<1>1. CASE ia' = h
  BY <1>1 DEF Reaches, AllStep
<1>2. CASE ia' = Freed(h, Head1)
  <2>1. \A s \in Slots : ia'[s] = IF s = Head1 THEN NewInteraction ELSE h[s]
    BY <1>2 DEF Reaches, Freed
  <2>2. SendMayFail
    BY DEF RespRefused
  <2> QED BY <2>1, <2>2, EmptyBlockStep DEF Reaches, AllStep
<1> QED BY <1>1, <1>2 DEF RespRefused

LEMMA SendRespSteps ==
  ASSUME NEW a \in Interaction, a.role = ia[Head1].role, a.resp \in RespMsg,
         NEW next,
         \/ a.role = "SERVER" /\ next = "RESPONSE_SENT" /\ Answers(a, a.resp)
         \/ a.role = "NOTIFICATION" /\ next = "NOTIFICATION_SENT",
         NEW q, NEW h, Reaches(h), SendResp(a, next, q, h)
  PROVE  AllStep
<1>1. CASE RespRefused(a, q, h)
  BY <1>1, RespRefusedSteps
<1>2. ASSUME tx' = RespDatagram(a.ep, a.resp),
             ia' = [h EXCEPT ![Head1] = Transmitted(a, next)]
      PROVE  AllStep
  <2>1. Step(ia[Head1], Transmitted(a, next))
    BY <1>2, TransmittedStep
  <2>2. \A s \in Slots :
          ia'[s] = IF s = Head1 THEN Transmitted(a, next) ELSE h[s]
    BY <1>2 DEF Reaches
  <2> QED BY <2>1, <2>2 DEF Reaches, AllStep
<1> QED BY <1>1, <1>2 DEF SendResp

LEMMA ResendRespSteps ==
  ASSUME Start, Head1 \in Slots, NEW a \in Interaction,
         a.role = ia[Head1].role, a.resp \in RespMsg,
         a.role \in {"SERVER", "NOTIFICATION"}, a.st # "HANDLE_RESPONSE",
         a.role = "SERVER" => a.st = "RESPONSE_SENT", SlotInv(a),
         ResendResp(a)
  PROVE  AllStep
<1>1. CASE RespRefused(a, list, ia)
  BY <1>1, SelfReaches, RespRefusedSteps
<1>2. ASSUME tx' = RespDatagram(a.ep, a.resp),
             ia' = [ia EXCEPT ![Head1] = Resent(a)]
      PROVE  AllStep
  <2>1. Step(ia[Head1], Resent(a))
    BY <1>2, ResentStep
  <2> QED BY <1>2, <2>1, SetSteps
<1> QED BY <1>1, <1>2 DEF ResendResp, Resent

(***************************************************************************)
(* The server role.                                                        *)
(***************************************************************************)
\* The head is sent a response of its own.
LEMMA OwnResponseSteps ==
  ASSUME NEW a \in Interaction, a.role = ia[Head1].role, a.role = "SERVER",
         NEW m \in RespMsg, Answers(a, m), NEW q, NEW h, Reaches(h),
         SendResp([a EXCEPT !.resp = m], "RESPONSE_SENT", q, h)
  PROVE  AllStep
<1> DEFINE b == [a EXCEPT !.resp = m]
<1>1. /\ b \in Interaction /\ b.role = a.role /\ b.resp = m
      /\ b.req = a.req /\ b.sleep = a.sleep /\ b.reqRel = a.reqRel
  BY DEF Interaction
<1>2. SendResp(b, "RESPONSE_SENT", q, h)
  OBVIOUS
<1> HIDE DEF b
<1>3. Answers(b, b.resp)
  BY <1>1 DEF Answers
<1> QED BY <1>1, <1>2, <1>3, SendRespSteps

\* The message CoAP_AllocRespMsg hands out has the token of the request.
LEMMA AllocatedServes ==
  ASSUME TypeInv, HeapInv, Handling
  PROVE  LET a == Allocated(ia[Head1]) IN
         /\ Head1 \in Slots /\ ia[Head1].role = "SERVER"
         /\ a \in Interaction /\ a.role = "SERVER" /\ a.req \in ReqMsg
         /\ a.st = ia[Head1].st
         /\ a.st \in {"HANDLE_REQUEST", "RESOURCE_POSTPONE_EMPTY_ACK_SENT"}
         /\ a.resp \in RespMsg /\ a.resp.tok = a.req.tok /\ Prepared(a)
<1> DEFINE o == ia[Head1]
           m == AllocRespMsg(o.req, "EMPTY", GetNextMid(mid))
           a == Allocated(o)
<1>1. /\ Head1 \in Slots /\ Good(o) /\ o.role = "SERVER"
      /\ o.st \in {"HANDLE_REQUEST", "RESOURCE_POSTPONE_EMPTY_ACK_SENT"}
      /\ o.req \in ReqMsg /\ Good(a) /\ a.resp \in RespMsg
  BY TurnType, AllocatedGood, TypeInvTyping DEF Handling
<1>2. Prepared(o)
  BY <1>1 DEF HeapInv, SlotInv, Serves
<1>3. /\ a.role = o.role /\ a.req = o.req /\ a.st = o.st /\ a.res = o.res
      /\ a.sleep = o.sleep /\ a.reqRel = o.reqRel
      /\ o.resp = NoResp => a.resp = m
      /\ o.resp # NoResp => a.resp = o.resp
  BY <1>1 DEF Allocated, Good, Interaction
<1>4. m.tok = o.req.tok
  BY DEF AllocRespMsg
<1> HIDE DEF o, m, a
<1>5. a.resp.tok = a.req.tok
  BY <1>2, <1>3, <1>4 DEF Prepared
<1>6. Prepared(a)
  BY <1>2, <1>3, <1>5 DEF Prepared, Allowed
<1> QED BY <1>1, <1>3, <1>5, <1>6 DEF Good, o, a

LEMMA MethodNotAllowedSteps ==
  ASSUME TypeInv, HeapInv, Start, MethodNotAllowed
  PROVE  AllStep
<1> DEFINE a == ia[Head1]
           m == AllocRespMsg(a.req, "ERROR", GetNextMid(mid))
<1>1. /\ Head1 \in Slots /\ a \in Interaction /\ a.role = "SERVER"
      /\ a.req \in ReqMsg /\ a.st # "RESPONSE_SENT"
  BY TurnType DEF MethodNotAllowed, Handling, Start, Good, FitsRole
<1>2. m \in RespMsg
  BY <1>1, AllocRespMsgType, NextMidType, TypeInvTyping DEF RespCode
<1>3. Prepared(a) /\ ~Allowed(a)
  BY <1>1 DEF HeapInv, SlotInv, Serves, MethodNotAllowed
<1>4. Answers(a, m)
  BY <1>1, <1>3 DEF Answers, Prepared, AllocRespMsg, ReqMsg
<1>5. SendResp([a EXCEPT !.resp = m], "RESPONSE_SENT", list, ia)
  BY DEF MethodNotAllowed
<1> HIDE DEF m
<1> QED BY <1>1, <1>2, <1>4, <1>5, SelfReaches, OwnResponseSteps

\* Having answered, or postponed for too long.
LEMMA AnswerMsgAnswers ==
  ASSUME NEW a, a.resp \in RespMsg, a.req \in ReqMsg,
         a.resp.tok = a.req.tok, Prepared(a),
         NEW code \in {"CONTENT", "ERROR"}, NEW type \in {"CON", "NON"}
  PROVE  Answers(a, AnswerMsg(a, code, type))
<1> DEFINE m == AnswerMsg(a, code, type)
<1>1. /\ m.tok = a.resp.tok /\ m.code = code
      /\ m.type = IF IsSeparate(a) THEN "CON"
                  ELSE IF a.req.type = "CON" THEN "ACK" ELSE type
  BY DEF AnswerMsg, RespMsg
<1> HIDE DEF m
<1>2. Answers(a, m)
  BY <1>1 DEF Answers, Prepared, IsSeparate, ReqMsg
<1> QED BY <1>2 DEF m

LEMMA RegisterSteps ==
  ASSUME Start, NEW a \in Interaction, a.role = ia[Head1].role,
         a.role = "SERVER", NEW r \in RespMsg, Answers(a, r), Register(a, r)
  PROVE  AllStep
<1>1. ASSUME NEW obs \in ObserveOption(0),
             SendResp([a EXCEPT !.resp = [r EXCEPT !.obs = obs]],
                      "RESPONSE_SENT", list, ia)
      PROVE  AllStep
  <2> DEFINE m == [r EXCEPT !.obs = obs]
  <2>1. m \in RespMsg /\ m.tok = r.tok /\ m.code = r.code /\ m.type = r.type
    BY DEF RespMsg, ObserveVal, ObserveOption, NoObserve
  <2>2. SendResp([a EXCEPT !.resp = m], "RESPONSE_SENT", list, ia)
    BY <1>1
  <2> HIDE DEF m
  <2>3. Answers(a, m)
    BY <2>1 DEF Answers
  <2> QED BY <2>1, <2>2, <2>3, SelfReaches, OwnResponseSteps
<1>2. CASE SendResp([a EXCEPT !.resp = r], "RESPONSE_SENT", list, ia)
  BY <1>2, SelfReaches, OwnResponseSteps
<1> QED BY <1>1, <1>2 DEF Register

\* The aborted interaction is a notification, so no request is forgotten.
LEMMA DeregisterSteps ==
  ASSUME Start, NEW a \in Interaction, a.role = ia[Head1].role,
         a.role = "SERVER", NEW r \in RespMsg, Answers(a, r), Deregister(a, r)
  PROVE  AllStep
<1> DEFINE P == PendingWithToken(a.ep, a.req.tok)
           s == list[First(P)]
<1>1. CASE SendResp([a EXCEPT !.resp = r], "RESPONSE_SENT", list, ia)
  BY <1>1, SelfReaches, OwnResponseSteps
<1>2. CASE /\ P # {}
           /\ SendResp([a EXCEPT !.resp = r], "RESPONSE_SENT",
                       Unlink(list, s), Freed(ia, s))
  <2>1. First(P) \in P
    <3>1. P \subseteq Nat
      BY LenProperties DEF PendingWithToken, Matching, Start, Typing
    <3> HIDE DEF P
    <3> QED BY <1>2, <3>1, FirstIsFirst
  <2>2. ia[s].role = "NOTIFICATION"
    BY <2>1 DEF PendingWithToken, Matching
  <2> HIDE DEF s, P
  <2>3. Freed(ia, s) \in [Slots -> Interaction]
    BY HeapFreed DEF Start, Typing, GoodHeap
  <2>4. \A t \in Slots :
          Freed(ia, s)[t] = IF t = s THEN NewInteraction ELSE ia[t]
    BY DEF Start, Typing, GoodHeap, Freed
  <2>5. Step(ia[s], NewInteraction)
    BY <2>2, EmptyBlockStep
  <2>6. Reaches(Freed(ia, s))
    BY <2>3, <2>4, <2>5, StepReflexive DEF Start, HeapInv, Reaches
  <2> QED BY <1>2, <2>6, OwnResponseSteps
<1> QED BY <1>1, <1>2 DEF Deregister

LEMMA PostponedStep ==
  ASSUME now \in Time, NEW a \in Interaction, NEW o, o.role = "SERVER",
         a.role = "SERVER", a.resp.tok = a.req.tok, Prepared(a),
         a.st \in {"HANDLE_REQUEST", "RESOURCE_POSTPONE_EMPTY_ACK_SENT"},
         NEW b, b = [a EXCEPT !.sleep = now + POSTPONE_WAIT_TIME_SEK],
         ~CanStillAck(a)
  PROVE  Step(o, b)
<1>1. /\ b.role = a.role /\ b.st = a.st /\ b.req = a.req /\ b.res = a.res
      /\ b.resp = a.resp /\ b.reqRel = a.reqRel
      /\ b.sleep = now + POSTPONE_WAIT_TIME_SEK
  BY DEF Interaction
<1>2. b.sleep # 0
  BY <1>1, PostponeAssumption DEF Time
<1>3. SlotInv(b)
  BY <1>1, <1>2
  DEF SlotInv, AsksCon, Matched, Serves, Prepared, Allowed, CanStillAck
<1>4. ~InFlight(b)
  BY <1>1 DEF InFlight
<1> QED BY <1>1, <1>3, <1>4 DEF Step

LEMMA PostponeSteps ==
  ASSUME TypeInv, HeapInv, Start, PostponeWithAck \/ PostponeAgain
  PROVE  AllStep
<1> DEFINE a == Allocated(ia[Head1])
<1>0. Handling
  BY DEF PostponeWithAck, PostponeAgain
<1>1. /\ Head1 \in Slots /\ ia[Head1].role = "SERVER"
      /\ a \in Interaction /\ a.role = "SERVER" /\ a.req \in ReqMsg
      /\ a.st \in {"HANDLE_REQUEST", "RESOURCE_POSTPONE_EMPTY_ACK_SENT"}
      /\ a.resp.tok = a.req.tok /\ Prepared(a)
  BY <1>0, AllocatedServes
<1>2. CASE PostponeWithAck
  <2> DEFINE b == [a EXCEPT !.reqRel = "ACK_SET",
                            !.st = "RESOURCE_POSTPONE_EMPTY_ACK_SENT",
                            !.sleep = now + POSTPONE_WAIT_TIME_SEK]
  <2>1. /\ Allowed(a) /\ CanStillAck(a)
        /\ Requeue(b) \/ (SendMayFail /\ Delete)
    BY <1>2 DEF PostponeWithAck
  <2> HIDE DEF a
  <2>2. /\ b.role = a.role /\ b.req = a.req /\ b.res = a.res
        /\ b.st = "RESOURCE_POSTPONE_EMPTY_ACK_SENT"
        /\ b.resp = a.resp /\ b.reqRel = "ACK_SET"
        /\ b.sleep = now + POSTPONE_WAIT_TIME_SEK
    BY <1>1 DEF Interaction
  <2> HIDE DEF b
  <2>3. b.sleep # 0
    BY <2>2, PostponeAssumption DEF Start, Typing, Time
  <2>4. SlotInv(b) /\ ~InFlight(b)
    BY <1>1, <2>1, <2>2, <2>3
    DEF SlotInv, AsksCon, Matched, Serves, Prepared, Allowed, CanStillAck,
        InFlight
  <2>5. Step(ia[Head1], b)
    BY <1>1, <2>2, <2>4 DEF Step
  <2> QED BY <1>1, <2>1, <2>5, RequeueSteps, DeleteSteps
<1>3. CASE PostponeAgain
  <2> DEFINE b == [a EXCEPT !.sleep = now + POSTPONE_WAIT_TIME_SEK]
  <2>1. Requeue(b) /\ ~CanStillAck(a)
    BY <1>3 DEF PostponeAgain
  <2>2. Step(ia[Head1], b)
    <3> HIDE DEF a
    <3> QED BY <1>1, <2>1, PostponedStep DEF Start, Typing
  <2> HIDE DEF b
  <2> QED BY <1>1, <2>1, <2>2, RequeueSteps
<1> QED BY <1>2, <1>3

LEMMA AnswerSteps ==
  ASSUME TypeInv, HeapInv, Start, NEW code \in {"CONTENT", "ERROR"},
         NEW type \in {"CON", "NON"}, Answer(code, type)
  PROVE  AllStep
<1> DEFINE a == Allocated(ia[Head1])
           r == AnswerMsg(a, code, type)
<1>0. Handling
  BY DEF Answer
<1>1. /\ ia[Head1].role = "SERVER" /\ a \in Interaction /\ a.role = "SERVER"
      /\ a.req \in ReqMsg /\ a.resp \in RespMsg
      /\ a.resp.tok = a.req.tok /\ Prepared(a)
  BY <1>0, AllocatedServes
<1>2. r \in RespMsg /\ Answers(a, r)
  <2> HIDE DEF a
  <2> QED BY <1>1, AnswerMsgType, AnswerMsgAnswers, TypeInvTyping DEF RespCode
<1>3. \/ Register(a, r) \/ Deregister(a, r)
      \/ SendResp([a EXCEPT !.resp = r], "RESPONSE_SENT", list, ia)
  BY DEF Answer
<1> HIDE DEF a, r
<1> QED BY <1>1, <1>2, <1>3, RegisterSteps, DeregisterSteps, SelfReaches,
           OwnResponseSteps

LEMMA ResponseSentSteps ==
  ASSUME TypeInv, HeapInv, Start, ResponseSent
  PROVE  AllStep
<1> DEFINE a == ia[Head1]
<1>1. /\ Head1 \in Slots /\ a \in Interaction /\ a.role = "SERVER"
      /\ a.st = "RESPONSE_SENT" /\ a.resp \in RespMsg
  BY TurnType DEF ResponseSent, Start, Good, FitsRole
<1>2. SlotInv(a)
  BY <1>1 DEF HeapInv
<1>3. Requeue(a) \/ ResendResp(a) \/ Delete
  BY DEF ResponseSent
<1> HIDE DEF a
<1>4. CASE Requeue(a)
  BY <1>1, <1>2, <1>4, StepReflexive, RequeueSteps DEF a
<1>5. CASE ResendResp(a)
  BY <1>1, <1>2, <1>5, ResendRespSteps DEF a
<1>6. CASE Delete
  BY <1>1, <1>6, DeleteSteps DEF a
<1> QED BY <1>3, <1>4, <1>5, <1>6

LEMMA ServerWorkSteps ==
  ASSUME TypeInv, HeapInv, Start, ServerWork
  PROVE  AllStep
<1>1. CASE RespAllocFails
  BY <1>1, SameHeapSteps DEF RespAllocFails
<1> QED BY <1>1, MethodNotAllowedSteps, PostponeSteps, AnswerSteps,
           ResponseSentSteps DEF ServerWork

(***************************************************************************)
(* The notification role.                                                  *)
(***************************************************************************)
\* What Refreshed leaves of a notification is as good as new.
LEMMA RefreshedSlot ==
  ASSUME TypeInv, NEW a, Good(a), a.role = "NOTIFICATION",
         a.st = "NOTIFICATION_SENT", NEW code \in NotifierCodes,
         NEW type \in MsgType, NEW obs \in ObserveOption(updateCnt[a.res])
  PROVE  LET b == Refreshed(a, code, type, obs) IN
         /\ b \in Interaction /\ b.role = "NOTIFICATION"
         /\ b.st = "NOTIFICATION_SENT" /\ b.resp \in RespMsg /\ SlotInv(b)
<1> DEFINE b == Refreshed(a, code, type, obs)
<1>1. obs \in ObserveVal /\ code \in RespCode
  BY ObserveOptionType, NotifyAssumption DEF Good, FitsRole, RespCode
<1>2. /\ Good(b) /\ b.role = "NOTIFICATION" /\ b.st = a.st
      /\ b.resp \in RespMsg
  BY <1>1, RefreshedGood, TypeInvTyping
<1> HIDE DEF b
<1>3. SlotInv(b)
  BY <1>2 DEF SlotInv, AsksCon, Matched, Serves
<1> QED BY <1>2, <1>3 DEF Good, b

LEMMA RestartedStep ==
  ASSUME NEW o, o.role = "NOTIFICATION", NEW a \in Interaction,
         a.role = "NOTIFICATION"
  PROVE  Step(o, Restarted(a))
<1> DEFINE b == Restarted(a)
<1>1. b.role = "NOTIFICATION" /\ b.st = "READY_TO_NOTIFY"
  BY DEF Restarted, Interaction
<1> HIDE DEF b
<1>2. SlotInv(b) /\ ~InFlight(b)
  BY <1>1 DEF SlotInv, AsksCon, Matched, Serves, InFlight
<1>3. Step(o, b)
  BY <1>1, <1>2 DEF Step
<1> QED BY <1>3 DEF b

LEMMA NotifyWorkSteps ==
  ASSUME TypeInv, HeapInv, Start, NotifyWork
  PROVE  AllStep
<1> DEFINE a == ia[Head1]
<1>1. /\ Head1 \in Slots /\ a \in Interaction /\ Good(a)
      /\ a.role = "NOTIFICATION" /\ a.resp \in RespMsg
  BY TurnType
  DEF NotifyWork, ReadyToNotify, NotificationSent, Start, Good, FitsRole
<1>2. SlotInv(a)
  BY <1>1 DEF HeapInv
<1>3. CASE ReadyToNotify
  BY <1>1, <1>3, SelfReaches, SendRespSteps DEF ReadyToNotify
<1>4. CASE NotificationSent
  <2>0. a.st = "NOTIFICATION_SENT"
    BY <1>4 DEF NotificationSent, Turn
  <2>1. CASE NotificationWaiting(a)
    BY <1>1, <1>2, <2>1, StepReflexive, RequeueSteps DEF NotificationWaiting
  <2>2. CASE NotificationRetry(a)
    <3>1. CASE ResendResp(a)
      BY <1>1, <1>2, <2>0, <3>1, ResendRespSteps
    <3>2. ASSUME NEW code \in NotifierCodes,
                 NEW obs \in ObserveOption(updateCnt[a.res]),
                 ResendResp(Refreshed(a, code, a.resp.type, obs))
          PROVE  AllStep
      <4> DEFINE b == Refreshed(a, code, a.resp.type, obs)
      <4>1. a.resp.type \in MsgType
        BY <1>1 DEF RespMsg
      <4>2. /\ b \in Interaction /\ b.role = "NOTIFICATION"
            /\ b.st = "NOTIFICATION_SENT" /\ b.resp \in RespMsg /\ SlotInv(b)
        BY <1>1, <2>0, <4>1, RefreshedSlot
      <4>3. ResendResp(b)
        BY <3>2
      <4> HIDE DEF b
      <4> QED BY <1>1, <4>2, <4>3, ResendRespSteps
    <3> QED BY <2>2, <3>1, <3>2 DEF NotificationRetry
  <2>3. CASE NotificationDone(a)
    <3>1. CASE Delete
      BY <1>1, <3>1, DeleteSteps
    <3>2. ASSUME NEW code \in NotifierCodes,
                 NEW type \in NotifierTypes \cup {a.resp.type},
                 NEW obs \in ObserveOption(updateCnt[a.res]),
                 Requeue(Restarted(Refreshed(a, code, type, obs)))
          PROVE  AllStep
      <4> DEFINE b == Refreshed(a, code, type, obs)
      <4>1. type \in MsgType
        BY <1>1, NotifyAssumption DEF RespMsg, MsgType
      <4>2. b \in Interaction /\ b.role = "NOTIFICATION"
        BY <1>1, <2>0, <4>1, RefreshedSlot
      <4>3. Requeue(Restarted(b))
        BY <3>2
      <4> HIDE DEF b
      <4>4. Step(a, Restarted(b))
        BY <1>1, <4>2, RestartedStep
      <4> QED BY <1>1, <4>3, <4>4, RequeueSteps
    <3> QED BY <2>3, <3>1, <3>2 DEF NotificationDone
  <2>4. CASE NotificationAborted(a)
    BY <1>1, <2>4, DeleteSteps DEF NotificationAborted
  <2> QED BY <1>4, <2>1, <2>2, <2>3, <2>4 DEF NotificationSent
<1> QED BY <1>3, <1>4 DEF NotifyWork

(***************************************************************************)
(* The client role.                                                        *)
(***************************************************************************)
\* A request is given to the socket, for the first time or again.
LEMMA RequestSentStep ==
  ASSUME NEW a \in Interaction, a.role = "CLIENT", a.req \in ReqMsg,
         SlotInv(a), tx' = ReqDatagram(a.ep, a.req), NEW b,
         b.role = "CLIENT", b.st = "WAITING_RESPONSE", b.ep = a.ep,
         b.req = [a.req EXCEPT !.ts = now], b.ackTo = AckDeadline(b.retrans)
  PROVE  Step(a, b)
<1>1. /\ b.req.type = a.req.type /\ b.req.method = a.req.method
      /\ b.req.mid = a.req.mid /\ b.req.tok = a.req.tok /\ b.req.ts = now
  BY DEF ReqMsg
<1>2. SlotInv(b)
  BY <1>1 DEF SlotInv, AsksCon, Matched, Serves
<1>3. JustSent(b)
  <2>1. SentAs(b, tx')
    BY <1>1 DEF SentAs, ReqDatagram
  <2>2. LastSent(b) = now
    BY <1>1 DEF LastSent
  <2> QED BY <2>1, <2>2 DEF JustSent
<1> QED BY <1>2, <1>3 DEF Step

LEMMA RequesterWorkSteps ==
  ASSUME TypeInv, HeapInv, Start, RequesterWork
  PROVE  AllStep
<1> DEFINE a == ia[Head1]
<1>1. /\ Head1 \in Slots /\ a \in Interaction /\ a.role = "CLIENT"
      /\ a.req \in ReqMsg
  BY TurnType
  DEF RequesterWork, ReadyToRequest, WaitingResponse, HandleResponse, Start,
      Good, FitsRole
<1>2. SlotInv(a)
  BY <1>1 DEF HeapInv
<1>3. CASE Delete
  BY <1>1, <1>3, DeleteSteps
<1>4. CASE ReadyToRequest
  <2> DEFINE b == [a EXCEPT !.req.ts = now, !.st = "WAITING_RESPONSE",
                            !.ackTo = IF a.req.type = "CON"
                                        THEN AckDeadline(a.retrans) ELSE @]
  <2>1. \/ Delete
        \/ tx' = ReqDatagram(a.ep, a.req) /\ Requeue(b)
    BY <1>4 DEF ReadyToRequest
  <2>2. a.req.type = "CON"
    BY <1>1, <1>2 DEF SlotInv, AsksCon
  <2>3. /\ b.role = "CLIENT" /\ b.st = "WAITING_RESPONSE" /\ b.ep = a.ep
        /\ b.req = [a.req EXCEPT !.ts = now]
        /\ b.retrans = a.retrans /\ b.ackTo = AckDeadline(a.retrans)
    BY <1>1, <2>2 DEF Interaction
  <2> HIDE DEF b
  <2>4. ASSUME tx' = ReqDatagram(a.ep, a.req) PROVE Step(a, b)
    BY <1>1, <1>2, <2>3, <2>4, RequestSentStep
  <2> QED BY <1>1, <1>3, <2>1, <2>4, RequeueSteps
<1>5. CASE WaitingResponse
  <2> DEFINE b == [a EXCEPT !.req.ts = now, !.retrans = @ + 1,
                            !.ackTo = AckDeadline(a.retrans + 1)]
  <2>1. \/ Requeue(a) \/ Delete
        \/ /\ tx' = ReqDatagram(a.ep, a.req)
           /\ ia' = [ia EXCEPT ![Head1] = b]
    BY <1>5 DEF WaitingResponse, ResendReq
  <2>2. a.st = "WAITING_RESPONSE"
    BY <1>5 DEF WaitingResponse, Turn
  <2>3. /\ b.role = "CLIENT" /\ b.st = "WAITING_RESPONSE" /\ b.ep = a.ep
        /\ b.req = [a.req EXCEPT !.ts = now]
        /\ b.retrans = a.retrans + 1 /\ b.ackTo = AckDeadline(a.retrans + 1)
    BY <1>1, <2>2 DEF Interaction
  <2> HIDE DEF b
  <2>4. ASSUME tx' = ReqDatagram(a.ep, a.req) PROVE Step(a, b)
    BY <1>1, <1>2, <2>3, <2>4, RequestSentStep
  <2>5. Step(a, a)
    BY <1>2, StepReflexive
  <2> QED BY <1>1, <1>3, <2>1, <2>4, <2>5, RequeueSteps, SetSteps
<1>6. CASE HandleResponse
  BY <1>3, <1>6 DEF HandleResponse
<1> QED BY <1>4, <1>5, <1>6 DEF RequesterWork

(***************************************************************************)
(* Packets.                                                                *)
(***************************************************************************)
LEMMA ReliabilityStep ==
  ASSUME NEW a \in Interaction, SlotInv(a), NEW r
  PROVE  Step(a, WithReliability(a, r))
<1> DEFINE b == WithReliability(a, r)
<1>1. /\ b.role = a.role /\ b.st = a.st /\ b.res = a.res /\ b.req = a.req
      /\ b.resp = a.resp /\ b.retrans = a.retrans /\ b.ackTo = a.ackTo
      /\ b.sleep = a.sleep
      /\ a.role = "SERVER" => b.reqRel = a.reqRel
  BY DEF WithReliability, Interaction
<1> HIDE DEF b
<1>2. Step(a, b)
  BY <1>1, MarkStep
<1> QED BY <1>2 DEF b

\* A response reaches the client's request only with its token.
LEMMA ResponseStep ==
  ASSUME NEW o, SlotInv(o), o.role = "CLIENT", NEW p \in PacketSet,
         p.tok = o.req.tok, NEW b, b.role = "CLIENT", b.req = o.req,
         b.st = "HANDLE_RESPONSE", b.resp = ResponseOf(p)
  PROVE  Step(o, b)
<1>1. b.resp # NoResp /\ b.resp.tok = b.req.tok
  BY DEF ResponseOf, PacketSet, MsgType, NoResp
<1>2. SlotInv(b)
  BY <1>1 DEF SlotInv, AsksCon, Matched, Serves
<1>3. ~InFlight(b)
  BY DEF InFlight
<1> QED BY <1>2, <1>3 DEF Step

LEMMA AcknowledgedStep ==
  ASSUME NEW a \in Interaction, SlotInv(a), NEW p \in PacketSet
  PROVE  Step(a, Acknowledged(a, p))
<1> DEFINE b == WithReliability(a, "ACK_SET")
           c == WithResponse(b, p)
<1>1. CASE Acknowledged(a, p) = b
  BY <1>1, ReliabilityStep
<1>2. CASE Acknowledged(a, p) = c /\ a.role = "CLIENT" /\ a.req.tok = p.tok
  <2>1. /\ c.role = a.role /\ c.req = a.req /\ c.st = "HANDLE_RESPONSE"
        /\ c.resp = ResponseOf(p)
    BY DEF WithReliability, WithResponse, Interaction
  <2> HIDE DEF c
  <2> QED BY <1>2, <2>1, ResponseStep
<1>3. b.role = a.role /\ b.st = a.st /\ b.req = a.req
  BY DEF WithReliability, Interaction
<1>4. \/ Acknowledged(a, p) = b
      \/ Acknowledged(a, p) = c /\ a.role = "CLIENT" /\ a.req.tok = p.tok
  BY DEF Acknowledged
<1> HIDE DEF b, c
<1> QED BY <1>1, <1>2, <1>4

LEMMA SeparateSteps ==
  ASSUME Start, NEW p \in PacketSet, ReceiveSeparate(p)
  PROVE  AllStep
<1> DEFINE W == AwaitingToken(p.ep, p.tok)
           w == list[First(W)]
           a == ia[w]
           b == IF a.st \in {"WAITING_RESPONSE", "HANDLE_RESPONSE"}
                  THEN WithResponse(a, p) ELSE a
           c == [b EXCEPT !.respRel = "ACK_SET"]
<1>1. CASE W = {}
  <2>1. ia' = ia
    BY <1>1 DEF ReceiveSeparate
  <2> QED BY <2>1, SameHeapSteps
<1>2. CASE W # {}
  <2>1. W \subseteq 1..Len(list) /\ W \subseteq Nat
    BY LenProperties DEF AwaitingToken, Matching, Start, Typing
  <2>2. First(W) \in W /\ w \in Slots
    <3> HIDE DEF W
    <3> QED BY <1>2, <2>1, FirstIsFirst, FirstMatchIsSlot DEF Start, Typing
  <2>3. a.role = "CLIENT" /\ a.req.tok = p.tok
    BY <2>2 DEF AwaitingToken, Matching
  <2>4. ia' = [ia EXCEPT ![w] = c] \/ ia' = [ia EXCEPT ![w] = b]
    BY <1>2 DEF ReceiveSeparate, SeparateAccepted
  <2>5. a \in Interaction /\ SlotInv(a)
    BY <2>2 DEF Start, Typing, GoodHeap, HeapInv
  <2> HIDE DEF w, W
  <2>6. CASE a.st \in {"WAITING_RESPONSE", "HANDLE_RESPONSE"}
    <3>1. /\ b.role = "CLIENT" /\ b.req = a.req /\ b.st = "HANDLE_RESPONSE"
          /\ b.resp = ResponseOf(p)
          /\ c.role = "CLIENT" /\ c.req = a.req /\ c.st = "HANDLE_RESPONSE"
          /\ c.resp = ResponseOf(p)
      BY <2>3, <2>5, <2>6 DEF WithResponse, Interaction
    <3> HIDE DEF a, b, c
    <3>2. Step(a, b) /\ Step(a, c)
      BY <2>3, <2>5, <3>1, ResponseStep
    <3> QED BY <2>2, <2>4, <3>2, SetSteps DEF a
  <2>7. CASE ~(a.st \in {"WAITING_RESPONSE", "HANDLE_RESPONSE"})
    <3>1. b = a
      BY <2>7
    <3>2. /\ c.role = a.role /\ c.st = a.st /\ c.res = a.res /\ c.req = a.req
          /\ c.resp = a.resp /\ c.retrans = a.retrans /\ c.ackTo = a.ackTo
          /\ c.sleep = a.sleep /\ c.reqRel = a.reqRel
      BY <2>5, <3>1 DEF Interaction
    <3> HIDE DEF a, b, c
    <3>3. Step(a, b) /\ Step(a, c)
      BY <2>5, <3>1, <3>2, StepReflexive, MarkStep
    <3> QED BY <2>2, <2>4, <3>3, SetSteps DEF a
  <2> QED BY <2>6, <2>7
<1> QED BY <1>1, <1>2

\* A new interaction has nothing in flight, whatever its role.
LEMMA NewStep ==
  ASSUME Start, NEW s \in FreeSlots, NEW b, ia' = [ia EXCEPT ![s] = b],
         SlotInv(b), ~InFlight(b)
  PROVE  AllStep
<1>1. s \in Slots /\ ia[s].role = "FREE"
  BY DEF FreeSlots
<1>2. Step(ia[s], b)
  BY <1>1 DEF Step
<1> QED BY <1>1, <1>2, SetSteps

LEMMA ServerStartSteps ==
  ASSUME Start, NEW p \in PacketSet, StartNewServerInteraction(p)
  PROVE  AllStep
<1>1. CASE DuplicateRequest(p) \/ NoRoomForRequest(p)
  BY <1>1, SameHeapSteps DEF DuplicateRequest, NoRoomForRequest
<1>2. CASE NewServerInteraction(p)
  <2> DEFINE b == [NewInteraction EXCEPT !.role = "SERVER",
                      !.st = "HANDLE_REQUEST", !.ep = p.ep, !.res = p.res,
                      !.req = RequestOf(p)]
  <2>1. PICK s \in FreeSlots : ia' = [ia EXCEPT ![s] = b]
    BY <1>2 DEF NewServerInteraction
  <2>2. /\ b.role = "SERVER" /\ b.st = "HANDLE_REQUEST" /\ b.resp = NoResp
        /\ b.reqRel = "NOT_SET" /\ b.sleep = 0
    BY DEF NewInteraction
  <2> HIDE DEF b
  <2>3. SlotInv(b) /\ ~InFlight(b)
    BY <2>2 DEF SlotInv, AsksCon, Matched, Serves, Prepared, InFlight
  <2> QED BY <2>1, <2>3, NewStep
<1> QED BY <1>1, <1>2 DEF StartNewServerInteraction

LEMMA PacketSteps ==
  ASSUME TypeInv, HeapInv, Start, onNewPacketHandler
  PROVE  AllStep
<1>1. PICK p \in Packets :
       \/ ReceivePing(p) \/ ReceiveIgnored(p) \/ ReceiveUnknownResource(p)
       \/ ReceiveBadOption(p) \/ ReceiveReset(p) \/ ReceiveAck(p)
       \/ ReceiveRequest(p) \/ ReceiveSeparate(p)
  BY DEF onNewPacketHandler
<1>2. p \in PacketSet
  BY MainAssumption
<1> DEFINE T == ReliabilityTargets(p.ep, p.mid)
           s == list[First(T)]
<1>3. \A t \in Slots : ia[t] \in Interaction /\ SlotInv(ia[t])
  BY DEF Start, Typing, GoodHeap, HeapInv
<1>4. T # {} => s \in Slots
  BY TargetIsSlot DEF Start
<1>5. CASE \/ ReceivePing(p) \/ ReceiveIgnored(p)
           \/ ReceiveUnknownResource(p) \/ ReceiveBadOption(p)
  BY <1>5, SameHeapSteps
  DEF ReceivePing, ReceiveIgnored, ReceiveUnknownResource, ReceiveBadOption,
      StateUnchanged
<1>6. CASE ReceiveReset(p)
  <2>1. \/ ia' = ia
        \/ T # {} /\ ia' = [ia EXCEPT ![s] =
                              WithReliability(ia[s], "RST_SET")]
    BY <1>6 DEF ReceiveReset, Apply
  <2> HIDE DEF s, T
  <2> QED BY <1>3, <1>4, <2>1, ReliabilityStep, SameHeapSteps, SetSteps
<1>7. CASE ReceiveAck(p)
  <2>1. \/ ia' = ia
        \/ T # {} /\ ia' = [ia EXCEPT ![s] = Acknowledged(ia[s], p)]
    BY <1>7 DEF ReceiveAck, Apply
  <2> HIDE DEF s, T
  <2> QED BY <1>2, <1>3, <1>4, <2>1, AcknowledgedStep, SameHeapSteps, SetSteps
<1>8. CASE ReceiveRequest(p)
  BY <1>2, <1>8, ServerStartSteps DEF ReceiveRequest
<1> QED BY <1>1, <1>2, <1>5, <1>6, <1>7, <1>8, SeparateSteps

(***************************************************************************)
(* The notify loop and the application.                                    *)
(***************************************************************************)
LEMMA NewNotificationSteps ==
  ASSUME Start, NEW s \in FreeSlots, NEW code, NEW type, NEW obs,
         ia' = [ia EXCEPT ![s] = NewNotification(code, type, obs)]
  PROVE  AllStep
<1> DEFINE b == NewNotification(code, type, obs)
<1>1. b.role = "NOTIFICATION" /\ b.st = "READY_TO_NOTIFY"
  BY DEF NewNotification, NewInteraction
<1>2. ia' = [ia EXCEPT ![s] = b]
  OBVIOUS
<1> HIDE DEF b
<1>3. SlotInv(b) /\ ~InFlight(b)
  BY <1>1 DEF SlotInv, AsksCon, Matched, Serves, InFlight
<1> QED BY <1>2, <1>3, NewStep

LEMMA LoopSteps ==
  ASSUME TypeInv, HeapInv, Start, StartNotifyInteractions
  PROVE  AllStep
<1>1. CASE FlagPending
  <2> DEFINE P == PendingNotification(LoopRes, LoopObserver)
             s == list[First(P)]
             b == [ia[s] EXCEPT !.upd = TRUE]
  <2>1. P \subseteq 1..Len(list) /\ P # {}
    BY <1>1 DEF FlagPending, PendingNotification, Matching
  <2>2. s \in Slots
    <3> HIDE DEF P
    <3> QED BY <2>1, FirstMatchIsSlot DEF Start, Typing
  <2>3. ia' = [ia EXCEPT ![s] = b]
    BY <1>1 DEF FlagPending
  <2> HIDE DEF s
  <2>4. ia[s] \in Interaction /\ SlotInv(ia[s])
    BY <2>2 DEF Start, Typing, GoodHeap, HeapInv
  <2>5. /\ b.role = ia[s].role /\ b.st = ia[s].st /\ b.res = ia[s].res
        /\ b.req = ia[s].req /\ b.resp = ia[s].resp
        /\ b.retrans = ia[s].retrans /\ b.ackTo = ia[s].ackTo
        /\ b.sleep = ia[s].sleep /\ b.reqRel = ia[s].reqRel
    BY <2>4 DEF Interaction
  <2> HIDE DEF b
  <2>6. Step(ia[s], b)
    BY <2>4, <2>5, MarkStep
  <2> QED BY <2>2, <2>3, <2>6, SetSteps
<1>2. CASE NoRoomForNotification \/ NotificationDropped
  BY <1>2, SameHeapSteps DEF NoRoomForNotification, NotificationDropped
<1>3. ASSUME NEW type \in NotifierTypes,
             StartNotification(type) \/ NotifierError(type)
      PROVE  AllStep
  BY <1>3, NewNotificationSteps DEF StartNotification, NotifierError
<1> QED BY <1>1, <1>2, <1>3 DEF StartNotifyInteractions

LEMMA RequestStartSteps ==
  ASSUME Start, NEW ep, StartNewGetRequest(ep)
  PROVE  AllStep
<1> DEFINE b == [NewInteraction EXCEPT !.role = "CLIENT",
                   !.st = "READY_TO_REQUEST", !.ep = ep, !.req = GetRequest]
<1>1. /\ b.role = "CLIENT" /\ b.st = "READY_TO_REQUEST"
      /\ b.req.type = "CON"
  BY DEF NewInteraction, GetRequest
<1>2. ia' = ia \/ \E s \in FreeSlots : ia' = [ia EXCEPT ![s] = b]
  BY DEF StartNewGetRequest
<1> HIDE DEF b
<1>3. SlotInv(b) /\ ~InFlight(b)
  BY <1>1 DEF SlotInv, AsksCon, Matched, Serves, InFlight
<1> QED BY <1>2, <1>3, SameHeapSteps, NewStep

(***************************************************************************)
(* The stack.                                                              *)
(***************************************************************************)
LEMMA NextSteps ==
  ASSUME TypeInv, HeapInv, [Next]_vars
  PROVE  AllStep
<1>0. Start
  BY TypeInvTyping DEF Start
<1>1. CASE doWork
  <2>1. CASE StillSleeping
    <3>1. Head1 \in Slots /\ Requeue(ia[Head1])
      BY <1>0, <2>1, HeadIsSlot DEF StillSleeping, Start, Typing
    <3>2. Step(ia[Head1], ia[Head1])
      BY <3>1, StepReflexive DEF HeapInv
    <3> QED BY <1>0, <3>1, <3>2, RequeueSteps
  <2> QED BY <1>0, <1>1, <2>1, ServerWorkSteps, NotifyWorkSteps,
             RequesterWorkSteps DEF doWork
<1>2. ASSUME NEW r \in Changing, NotifyResourceObservers(r)
      PROVE  AllStep
  BY <1>0, <1>2, SameHeapSteps DEF NotifyResourceObservers
<1>3. CASE Tick \/ UNCHANGED vars
  BY <1>0, <1>3, SameHeapSteps DEF Tick, vars
<1> QED BY <1>0, <1>1, <1>2, <1>3, PacketSteps, LoopSteps, RequestStartSteps
        DEF Next

\* The timer of every message in flight fits its retries.
Timed ==
  \A s \in Slots :
    InFlight(ia[s]) =>
      ia[s].ackTo = LastSent(ia[s]) + ACK_TIMEOUT ^ (ia[s].retrans + 1)

SlotsInv == HeapInv /\ Timed

LEMMA InitSlots == Init => SlotsInv
<1> SUFFICES ASSUME Init PROVE SlotsInv
  OBVIOUS
<1>1. SlotInv(NewInteraction) /\ ~InFlight(NewInteraction)
  BY DEF SlotInv, AsksCon, Matched, Serves, NewInteraction, InFlight
<1> QED BY <1>1 DEF Init, SlotsInv, HeapInv, Timed

LEMMA NextSlots ==
  ASSUME TypeInv, SlotsInv, [Next]_vars
  PROVE  SlotsInv'
<1>1. AllStep
  BY NextSteps DEF SlotsInv
<1>2. HeapInv'
  BY <1>1 DEF AllStep, Step, HeapInv
<1>3. ASSUME NEW s \in Slots, InFlight(ia'[s])
      PROVE  ia'[s].ackTo
               = LastSent(ia'[s]) + ACK_TIMEOUT ^ (ia'[s].retrans + 1)
  <2>1. CASE SameTimer(ia[s], ia'[s])
    BY <2>1 DEF SameTimer, SlotsInv, Timed
  <2>2. CASE JustSent(ia'[s])
    BY <2>2 DEF JustSent, AckDeadline
  <2> QED BY <1>1, <1>3, <2>1, <2>2 DEF AllStep, Step
<1>4. Timed'
  BY <1>3 DEF Timed, InFlight, LastSent
<1> QED BY <1>2, <1>4 DEF SlotsInv

\* SlotsInv is an invariant of the stack.
THEOREM SlotsInvariant == Spec => []SlotsInv
BY InitSlots, NextSlots, TypeInvariant, PTL DEF Spec

LEMMA LinkedIsSlots ==
  ASSUME TypeInv
  PROVE  Linked \subseteq Slots
BY ElementOfSeq DEF TypeInv, TypeOK, Linked

\* The timer of a message in flight is the one its retry counter and last
\* transmission call for (CoAP_EnableAckTimeout), for every ACK_TIMEOUT and
\* MAX_RETRANSMIT.
THEOREM BackoffCorrect == Spec => []BackoffFitsRetries
<1>1. TypeInv /\ SlotsInv => BackoffFitsRetries
  BY LinkedIsSlots
  DEF TypeInv, PointersOK, FitsRole, SlotsInv, Timed, BackoffFitsRetries
<1> QED BY <1>1, TypeInvariant, SlotsInvariant, PTL

\* Every response that has left has the token of its request, and the type and
\* the acknowledgement that CoAP_doWork's three ways of answering call for.
THEOREM ResponsesFit == Spec => []ResponseFitsRequest
<1>1. TypeInv /\ SlotsInv => ResponseFitsRequest
  BY LinkedIsSlots
  DEF SlotsInv, HeapInv, SlotInv, Serves, Answers, ResponseFitsRequest
<1> QED BY <1>1, TypeInvariant, SlotsInvariant, PTL

\* The application's callback gets a response to the request it belongs to,
\* whether the response came with the ACK or separately, once or twice.
THEOREM CallbacksFit == Spec => []CallbackFitsRequest
<1>1. TypeInv /\ SlotsInv => CallbackFitsRequest
  BY LinkedIsSlots
  DEF SlotsInv, HeapInv, SlotInv, Matched, CallbackFitsRequest
<1> QED BY <1>1, TypeInvariant, SlotsInvariant, PTL

\* The stack never waits for the answer to a message, and never counts a
\* retransmission, that the socket did not take.
THEOREM WaitingIsForSent == Spec => WaitsOnlyForSent
<1>1. ASSUME TypeInv, SlotsInv, [Next]_vars
      PROVE  [\A s \in Slots : StartsWaiting(s) => SentAs(ia'[s], tx')]_vars
  <2> SUFFICES ASSUME NEW s \in Slots, StartsWaiting(s)
               PROVE  SentAs(ia'[s], tx')
    OBVIOUS
  <2>1. Step(ia[s], ia'[s])
    BY <1>1, NextSteps DEF AllStep, SlotsInv
  <2>2. InFlight(ia'[s])
    BY DEF StartsWaiting, InFlight
  <2>3. ~SameTimer(ia[s], ia'[s])
    <3>1. ia'[s].retrans = ia[s].retrans => ~(ia'[s].retrans > ia[s].retrans)
      BY <1>1 DEF TypeInv, TypeOK, Interaction
    <3> QED BY <3>1 DEF StartsWaiting, SameTimer
  <2> QED BY <2>1, <2>2, <2>3 DEF Step, JustSent
<1> QED BY <1>1, TypeInvariant, SlotsInvariant, PTL DEF Spec, WaitsOnlyForSent

\* While the socket takes every datagram, an accepted request keeps its
\* interaction until its response has been sent, whatever else arrives,
\* whoever cancels an observation and however short memory is.
THEOREM RequestsKept ==
  ASSUME ~SendMayFail
  PROVE  Spec => AnsweredBeforeForgotten
<1>1. ASSUME TypeInv, SlotsInv, [Next]_vars
      PROVE  [\A s \in Linked :
                /\ ia[s].role = "SERVER" /\ ia'[s].role # "SERVER"
                => ia[s].st = "RESPONSE_SENT"]_vars
  <2> SUFFICES ASSUME NEW s \in Linked, ia[s].role = "SERVER",
                      ia'[s].role # "SERVER"
               PROVE  ia[s].st = "RESPONSE_SENT"
    OBVIOUS
  <2>1. Step(ia[s], ia'[s])
    BY <1>1, NextSteps, LinkedIsSlots DEF AllStep, SlotsInv
  <2> QED BY <2>1 DEF Step
<1> QED BY <1>1, TypeInvariant, SlotsInvariant, PTL
        DEF Spec, AnsweredBeforeForgotten
=============================================================================
