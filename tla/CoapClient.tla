------------------------------ MODULE CoapClient ------------------------------
(***************************************************************************)
(* The C++ client (CoapClient.cpp, CoapRequest.cpp): requests with their   *)
(* own UDP connection each, a queue of the unanswered ones, one timer for  *)
(* its first node, and the callers' callbacks by transaction id.           *)
(*                                                                         *)
(* Time is in milliseconds of the program, scaled down.  The clock itself  *)
(* is not kept: the code uses only its distance to basetime (elapsed).     *)
(***************************************************************************)
EXTENDS DeltaQueue

CONSTANTS
  MaxRequests,          \* bound: how many requests the application makes
  MidMod,               \* message ids are counted modulo 2^16
  TransactionID,        \* createTransactionID, for one server
  Timeouts,             \* the randomised timeouts of confirmable requests
  RESPONSE_TIMEOUT,     \* the timeout of the others
  MAX_RETRANSMIT,
  MaxLate,              \* bound: how late the timer's callback may come
  ConnectMayFail, MemMayFail

Requests == 1..MaxRequests
Mids == 0..(MidMod - 1)
INVALID_TID == -1
Types == {"CON", "NON"}

ASSUME ClientAssumption ==
  /\ MaxRequests \in Nat /\ MAX_RETRANSMIT \in Nat /\ MaxLate \in Nat
  /\ RESPONSE_TIMEOUT \in Nat /\ Timeouts \subseteq Nat
  /\ ConnectMayFail \in BOOLEAN /\ MemMayFail \in BOOLEAN
  /\ MidMod \in Nat \ {0}
  /\ TransactionID \in [Mids -> Nat]

\* A fact of arithmetic the provers do not know.
ASSUME PowersAssumption == \A n \in 0..MAX_RETRANSMIT : 2 ^ n \in Nat

VARIABLES
  queue,        \* pQueue
  callbacks,    \* transaction id -> request whose callback it is, 0 for none
  message_id,
  reqs,         \* the CoapRequest objects with what their PDU carries
  asked,        \* how many of them there are
  timer,        \* retransmissionTimer: armed, and the time it has left
  elapsed,      \* now - basetime
  heard,        \* history: what each request's callback was called with
  fault         \* undefined behaviour was executed: the device stops

clientVars == <<queue, callbacks, message_id, reqs, asked, timer, elapsed,
                heard, fault>>

Tids == {TransactionID[m] : m \in Mids} \cup {INVALID_TID}
NoRequest == [type |-> "CON", tid |-> INVALID_TID, sock |-> "NONE", tries |-> 0]
Node == [id: Tids, req: Requests, t: Nat, rc: 0..MAX_RETRANSMIT, timeout: Nat]

ClientInit ==
  /\ queue = <<>>
  /\ callbacks = [id \in Tids |-> 0]
  /\ message_id \in Mids
  /\ reqs = [r \in Requests |-> NoRequest]
  /\ asked = 0
  /\ timer = [armed |-> FALSE, left |-> 0]
  /\ elapsed = 0
  /\ heard = [r \in Requests |-> <<>>]
  /\ fault = "NONE"

Running == fault = "NONE"

-----------------------------------------------------------------------------
(***************************************************************************)
(* The timer.                                                              *)
(***************************************************************************)
\* timerUpdate: the first node's time is made relative to now.
Updated(q) ==
  IF q = <<>> THEN q
  ELSE [q EXCEPT ![1].t = IF @ >= elapsed THEN @ - elapsed ELSE 0]

\* timerRestart: the timer fires once, when the first node is due.
Restarted(q, t) == IF q = <<>> THEN t ELSE [armed |-> TRUE, left |-> q[1].t]

Stopped == [timer EXCEPT !.armed = FALSE]

\* Variant of Requeued: the timer is not stopped first.
RequeuedUnstopped(q) ==
  /\ queue' = q /\ timer' = Restarted(q, timer)
  /\ elapsed' = 0

\* timerStop, ..., timerUpdate, ..., timerRestart with q as the new queue.
Requeued(q) ==
  /\ queue' = q /\ timer' = Restarted(q, Stopped)
  /\ elapsed' = 0

-----------------------------------------------------------------------------
(***************************************************************************)
(* Making a request.                                                       *)
(***************************************************************************)
\* Variant of NextMessageId: the message id is not advanced.
SameMessageId == message_id

NextMessageId == (message_id + 1) % MidMod

\* CoapRequest::sendPDU connects when it is not connected yet.  The id does
\* not depend on that, and a datagram that cannot be sent is just lost.
SocketAfterSend(s) ==
  {"OPEN"} \cup IF ConnectMayFail /\ s # "OPEN" THEN {"UNCONNECTED"} ELSE {}

NodeTimeout(type) == IF type = "CON" THEN Timeouts ELSE {RESPONSE_TIMEOUT}

\* CoapClient::request with doRequest, for a host whose address is known.
request(type) ==
  LET r  == asked + 1
      id == TransactionID[message_id]
  IN
  /\ Running /\ asked < MaxRequests
  /\ asked' = r /\ message_id' = NextMessageId
  /\ \E timeout \in NodeTimeout(type), sock \in SocketAfterSend("NONE") :
       /\ reqs' = [reqs EXCEPT ![r] =
                     [type |-> type, tid |-> id, sock |-> sock, tries |-> 1]]
       /\ Requeued(coapAddNode(Updated(queue),
                     [id |-> id, req |-> r, t |-> timeout, rc |-> 0,
                      timeout |-> timeout]))
  /\ callbacks' = [callbacks EXCEPT ![id] = r]
  /\ UNCHANGED <<heard, fault>>

\* No memory for the node: nothing is sent, and the callback is stored under
\* the invalid id.
requestOutOfMemory(type) ==
  LET r == asked + 1 IN
  /\ Running /\ asked < MaxRequests /\ MemMayFail
  /\ asked' = r /\ message_id' = NextMessageId
  /\ reqs' = [reqs EXCEPT ![r] = [NoRequest EXCEPT !.type = type,
                                                   !.sock = "UNCONNECTED"]]
  /\ callbacks' = [callbacks EXCEPT ![INVALID_TID] = r]
  /\ UNCHANGED <<queue, timer, elapsed, heard, fault>>

-----------------------------------------------------------------------------
(***************************************************************************)
(* CoapClient::onResponse: any valid packet on the connection of request r *)
(* counts, whatever its type, token or message id.                         *)
(***************************************************************************)
Call(id, outcome) ==
  heard' = IF callbacks[id] = 0 THEN heard
           ELSE [heard EXCEPT ![callbacks[id]] = Append(@, outcome)]

\* A packet can only arrive on a connection that is open.
Receiving(r) == Running /\ reqs[r].sock = "OPEN"

\* Variant of ResponseFound: the connection is closed, the node stays.
ResponseNodeKept(r) ==
  LET id == reqs[r].tid IN
  /\ Receiving(r) /\ HasNode(queue, id)
  /\ Call(id, "ANSWERED")
  /\ callbacks' = [callbacks EXCEPT ![id] = 0]
  /\ reqs' = [reqs EXCEPT ![r].sock = "CLOSED"]
  /\ Requeued(Updated(queue))
  /\ UNCHANGED <<message_id, asked, fault>>

ResponseFound(r) ==
  LET id == reqs[r].tid IN
  /\ Receiving(r) /\ HasNode(queue, id)
  /\ Call(id, "ANSWERED")
  /\ IF callbacks[id] = 0
       THEN /\ UNCHANGED <<callbacks, reqs>>
            /\ Requeued(Updated(queue))
       ELSE /\ callbacks' = [callbacks EXCEPT ![id] = 0]
            /\ reqs' = [reqs EXCEPT ![r].sock = "CLOSED"]
            /\ Requeued(Updated(coapRemoveNode(queue, id)))
  /\ UNCHANGED <<message_id, asked, fault>>

\* An answer to a request that was given up.  With an empty queue it is
\* ignored; else coapGetNodeById runs off the end of the list.
ResponseTooLate(r) ==
  /\ Receiving(r) /\ queue # <<>> /\ ~HasNode(queue, reqs[r].tid)
  /\ fault' = "NULL_NODE"
  /\ UNCHANGED <<queue, callbacks, message_id, reqs, asked, timer, elapsed, heard>>

-----------------------------------------------------------------------------
(***************************************************************************)
(* CoapClient::timerTick for the first node.                               *)
(***************************************************************************)
First == Head(queue)
Expired == Running /\ timer.armed /\ timer.left <= 0
Fired(q) == queue' = q /\ timer' = Restarted(q, Stopped)

\* Variant of RetriesLeft: one retransmission too many.
OneRetryMore(n) == n.rc <= MAX_RETRANSMIT

RetriesLeft(n) == n.rc < MAX_RETRANSMIT

Retransmit ==
  /\ Expired /\ reqs[First.req].type = "CON" /\ RetriesLeft(First)
  /\ \E sock \in SocketAfterSend(reqs[First.req].sock) :
       reqs' = [reqs EXCEPT ![First.req].sock = sock, ![First.req].tries = @ + 1]
  /\ Fired(coapAddNode(Tail(queue),
             [First EXCEPT !.rc = @ + 1, !.t = First.timeout * 2 ^ (First.rc + 1)]))
  /\ UNCHANGED <<callbacks, message_id, asked, elapsed, heard, fault>>

\* Variant of GiveUp: the timer is not set for the next node.
GiveUpTimerOff ==
  /\ Expired /\ ~(reqs[First.req].type = "CON" /\ RetriesLeft(First))
  /\ Call(First.id, "FAILED")
  /\ queue' = Tail(queue) /\ timer' = Stopped
  /\ UNCHANGED <<callbacks, message_id, reqs, asked, elapsed, fault>>

\* The callback gets a copy of the PDU by value.  The copy's destructor frees
\* the buffer they share, and coapDeleteNode frees it again.
GiveUp ==
  /\ Expired /\ ~(reqs[First.req].type = "CON" /\ RetriesLeft(First))
  /\ Call(First.id, "FAILED")
  /\ fault' \in {fault} \cup (IF callbacks[First.id] # 0 THEN {"DOUBLE_FREE"} ELSE {})
  /\ Fired(Tail(queue))
  /\ UNCHANGED <<callbacks, message_id, reqs, asked, elapsed>>

timerTick == Retransmit \/ GiveUp

-----------------------------------------------------------------------------
\* A millisecond passes; the timer's callback may be late.
Elapse ==
  /\ Running /\ timer.armed /\ timer.left > -MaxLate
  /\ timer' = [timer EXCEPT !.left = @ - 1]
  /\ elapsed' = elapsed + 1
  /\ UNCHANGED <<queue, callbacks, message_id, reqs, asked, heard, fault>>

ClientNext ==
  \/ \E type \in Types : request(type) \/ requestOutOfMemory(type)
  \/ \E r \in Requests : ResponseFound(r) \/ ResponseTooLate(r)
  \/ timerTick
  \/ Elapse

ClientSpec == ClientInit /\ [][ClientNext]_clientVars

\* Time passes and the timer's callback runs; no answer need ever come.
FairClientSpec == ClientSpec /\ WF_clientVars(Elapse) /\ WF_clientVars(timerTick)
-----------------------------------------------------------------------------
(***************************************************************************)
(* Properties.                                                             *)
(***************************************************************************)
\* Every variable has the type its C++ counterpart declares.
ClientTypeOK ==
  /\ queue \in Seq(Node)
  /\ callbacks \in [Tids -> Requests \cup {0}]
  /\ message_id \in Mids /\ asked \in 0..MaxRequests
  /\ reqs \in [Requests -> [type: Types, tid: Tids, tries: 0..MAX_RETRANSMIT + 1,
                            sock: {"NONE", "UNCONNECTED", "OPEN", "CLOSED"}]]
  /\ timer \in [armed: BOOLEAN, left: Int]
  /\ elapsed \in Nat
  /\ heard \in [Requests -> Seq({"ANSWERED", "FAILED"})]
  /\ fault \in {"NONE", "NULL_NODE", "DOUBLE_FREE"}

\* timerTick pops the first node unchecked: the timer must not fire without
\* one, and must not be off with one.
TimerArmedIffPending == timer.armed <=> queue # <<>>

\* An unanswered request is in the queue once, under its own id, its callback
\* is the one stored for that id, and its connection is not closed, because
\* sendPDU uses the connection for the next retransmission.
PendingIsWhole ==
  \A i \in 1..Len(queue) :
    LET n == queue[i] IN
    /\ n.id = reqs[n.req].tid /\ callbacks[n.id] = n.req
    /\ reqs[n.req].sock # "CLOSED"
    /\ \A j \in 1..Len(queue) : queue[j].req = n.req => i = j

\* How long it is until a pending request's next try.
IsPending(r) == \E i \in 1..Len(queue) : queue[i].req = r
Index(r) == CHOOSE i \in 1..Len(queue) : queue[i].req = r
TimeLeft(r) == timer.left - queue[1].t + Due(queue)[Index(r)]
Late == IF timer.left < 0 THEN -timer.left ELSE 0

\* Whatever happens to other requests, nothing puts off the next try of one
\* by more than the timer was late.
NeverPutOff ==
  [][\A r \in Requests :
       /\ IsPending(r) /\ IsPending(r)' /\ reqs'[r].tries = reqs[r].tries
       => TimeLeft(r)' <= TimeLeft(r) + Late]_clientVars

\* The client keeps its promise to the callers.
Promise == INSTANCE RequestPromise WITH
  MaxTries <- MAX_RETRANSMIT + 1,
  limit <- [r \in Requests |-> IF r > asked THEN 0
                               ELSE IF reqs[r].type = "NON" THEN 1
                               ELSE MAX_RETRANSMIT + 1],
  tries <- [r \in Requests |-> reqs[r].tries]
KeepsPromise == Promise!PromiseSpec

\* Every request that could be queued comes to an end its caller hears of,
\* although no server need ever answer.
CallerIsTold ==
  \A r \in Requests : IsPending(r) ~> (heard[r] # <<>> \/ ~Running)

(***************************************************************************)
(* A claim the code does not keep.                                         *)
(***************************************************************************)
\* CoapClient.cpp:126-127 says of a packet whose transaction is not in the
\* queue: "Could not found request for transaction id", "TODO send reset".
\* The client lives on after such a packet.
UnknownTransactionHandled == fault # "NULL_NODE"
=============================================================================
