----------------------------- MODULE CoapTransfer -----------------------------
(***************************************************************************)
(* What travels: a client fetches a representation from the server block   *)
(* by block, or observes a resource, over a network that loses datagrams.  *)
(* Requests, responses and notifications are built, sent and read byte by  *)
(* byte with CoapWire and filled by the resources with CoapBlockwise.      *)
(*                                                                         *)
(* Who answers what when is CoapMain's matter.  Here one request is        *)
(* outstanding at a time, and the client asks again when a datagram is     *)
(* lost.  The client is external: it reads every datagram as the message   *)
(* it was built from, and follows RFC 7959: it takes over the block size   *)
(* of a response or goes on with a smaller one.                            *)
(***************************************************************************)
EXTENDS CoapBlockwise, FiniteSets

CONSTANTS
  NULL,        \* a model value: no datagram, no response under construction
  Table,       \* the resources in the order they are created (server.c)
  Requests,    \* what clients may ask for
  BlockSizes,  \* the block sizes a client may go on with
  Lengths,     \* of representations
  NotifyLengths, \* of the representations an observed resource takes on
  MaxChanges,  \* bound: how often the representation changes under a transfer
  MaxNotified, \* bound: of how many changes an observer is notified
  CntStart     \* values of the resource's counter to start from

\* The least number that three bytes do not hold.
CntLimit == 256 * 256 * 256

\* The size of n options, however long, fits the 16 bits it is added up in.
Countable(n) == n * (MAX_OPTION_VALUE_SIZE + 5) < 65536

\* What a client may ask for.
ClientRequest(r) ==
  /\ r.tok \in Token64 /\ r.size \in BlockSizeValues \cup {0}
  /\ r.observe \in BOOLEAN
  /\ r.uri \in Seq(Byte) /\ Len(r.uri) <= MAX_OPTION_VALUE_SIZE
  /\ r.extra \in Seq(Option)
  /\ \A i \in 1..Len(r.extra) : Len(r.extra[i].val) <= MAX_OPTION_VALUE_SIZE
  /\ Countable(Len(r.extra) + Len(r.uri) + 3)

\* The resources that answer with bytes of their own.
HandlerIds == {"core", "ipconfig", "about", "config"}

\* CoAP_SetPayload takes a representation's length as a uint16_t.
\* Notifications each fit one block, or there are not too many, since a refresh
\* adds a Block2 option to the ones the message has.  The counter stays below
\* the limit of an Observe option.
ASSUME TransferAssumption ==
  /\ Table \in Seq([id : HandlerIds, uri : Seq(Byte)])
  /\ \A i \in 1..Len(Table) : Len(Table[i].uri) <= MAX_OPTION_VALUE_SIZE
  /\ \A r \in Requests : ClientRequest(r)
  /\ BlockSizes \subseteq BlockSizeValues
  /\ Lengths \subseteq {n \in Nat : n < 65536} /\ NotifyLengths \subseteq Nat
  /\ MaxNotified \in Nat
  /\ (\A n \in NotifyLengths : n <= MAX_PAYLOAD_SIZE) \/ Countable(MaxNotified + 1)
  /\ \A c \in CntStart : c \in Nat /\ c + MaxNotified < CntLimit

VARIABLES
  rep,       \* the representation: its length and its version
  cnt,       \* UpdateCnt of the observed resource
  asked,     \* what the client wants
  client,    \* how far it got
  toServer, toClient,  \* the datagram in flight, or NULL
  sentReq, sentResp,   \* the messages last put on the wire
  resp       \* the response or notification the server works on, or NULL

transferVars ==
  <<rep, cnt, asked, client, toServer, toClient, sentReq, sentResp, resp>>

REQ_GET == 1
RESP_ERROR_UNAUTHORIZED == 129
RESP_NOT_FOUND == 132
COAP_CF_LINK_FORMAT == 40
ServerMid == 1

resources ==
  FoldLeft(LAMBDA list, r : CoAP_CreateResource(list, r.id, r.uri), <<>>, Table)

\* The bytes of a representation: every version differs at every place, and
\* no two blocks are equal.
Data(r) == [i \in 1..r.len |-> (i + 100 * r.ver) % 251]

CreateMessage(type, code, mid, tok) ==
  [type |-> type, code |-> code, mid |-> mid, tok |-> tok,
   opts |-> <<>>, payload |-> <<>>]

(***************************************************************************)
(* The client.                                                             *)
(***************************************************************************)
Block2Wish ==
  [num |-> IF client.size = 0 THEN 0 ELSE Len(client.got) \div client.size,
   size |-> client.size, more |-> FALSE]

\* Options are added in any order, the list puts them in theirs.
ExtraOptions(extra) ==
  FoldLeft(LAMBDA q, o : CoAP_AppendOptionToList(q, o.num, o.val), <<>>, extra)

RequestOptions ==
  LET uri == CoAP_AppendUriOptionsFromString(ExtraOptions(asked.extra), asked.uri)
  IN  IF client.size = 0 THEN uri ELSE AddBlkOptionToMsg(uri, OPT_BLOCK2, Block2Wish)

RequestMsg ==
  [CreateMessage(CON, REQ_GET, 5, asked.tok) EXCEPT !.opts = RequestOptions]

SendRequest ==
  /\ client.state \in {"IDLE", "WAITING"}
  /\ toServer = NULL /\ toClient = NULL /\ resp = NULL
  /\ sentReq' = RequestMsg /\ toServer' = CoAP_BuildDatagram(RequestMsg)
  /\ client' = [client EXCEPT !.state = "WAITING",
                  !.since = IF client.state = "IDLE" THEN rep.ver ELSE @]
  /\ UNCHANGED <<rep, cnt, asked, toClient, sentResp, resp>>

\* A block that does not bring the client any further makes it give up.
WithBlock(block, payload, size) ==
  IF block.num * block.size # Len(client.got) \/ (block.more /\ payload = <<>>)
  THEN [client EXCEPT !.state = "STUCK"]
  ELSE [client EXCEPT !.got = @ \o payload, !.size = size,
                      !.state = IF block.more THEN "WAITING" ELSE "DONE"]

ReceiveResponse ==
  /\ client.state = "WAITING" /\ toClient # NULL
  /\ LET m == sentResp
         block == GetBlockOptionFromMsg(m.opts, OPT_BLOCK2)
     IN  \/ /\ m.code >= RESP_BAD_REQUEST
            /\ client' = [client EXCEPT !.state = "REFUSED"]
         \/ /\ m.code = RESP_CONTENT /\ ~block.found
            /\ client' = [client EXCEPT !.got = m.payload, !.state = "DONE"]
         \/ /\ m.code = RESP_CONTENT /\ block.found
            /\ \E size \in {s \in BlockSizes : s <= block.size} :
                 client' = WithBlock(block, m.payload, size)
  /\ toClient' = NULL
  /\ UNCHANGED <<rep, cnt, asked, toServer, sentReq, sentResp, resp>>

(***************************************************************************)
(* The server.                                                             *)
(***************************************************************************)
SendResponse(m) == sentResp' = m /\ toClient' = CoAP_BuildDatagram(m)

CoAP_SendShortResp(type, code, mid, tok) ==
  SendResponse([EmptyResetMsg EXCEPT !.type = type, !.mid = mid, !.code = code,
                                     !.tok = tok])

Incoming == CoAP_ParseMessageFromDatagram(toServer)

ReceiveUnknownResource ==
  /\ toServer # NULL /\ Incoming.res = "OK"
  /\ CoAP_FindResourceByUri(resources, Incoming.msg.opts) = NoResource
  /\ CoAP_SendShortResp(ACK, RESP_NOT_FOUND, Incoming.msg.mid, Incoming.msg.tok)
  /\ toServer' = NULL
  /\ UNCHANGED <<rep, cnt, asked, client, sentReq, resp>>

ReceiveBadOption ==
  /\ toServer # NULL /\ Incoming.res = "OK"
  /\ CoAP_FindResourceByUri(resources, Incoming.msg.opts) # NoResource
  /\ CoAP_CheckForUnknownCriticalOption(Incoming.msg.opts) # 0
  /\ CoAP_SendShortResp(ACK, RESP_BAD_OPTION, Incoming.msg.mid, Incoming.msg.tok)
  /\ toServer' = NULL
  /\ UNCHANGED <<rep, cnt, asked, client, sentReq, resp>>

\* What the server works on: a request, or a notification.
Work == [kind : {"REQUEST", "NOTIFICATION"}, req : Message,
         res : HandlerIds \cup {NULL}, msg : Message, buf : Buffer,
         upd : BOOLEAN, sent : BOOLEAN, cnt : Nat]

\* No work is not a kind of work.
ASSUME NullAssumption == NULL \notin Work

Working(kind, req, res, m) ==
  [kind |-> kind, req |-> req, res |-> res, msg |-> m,
   buf |-> OwnBuffer(PREFERED_PAYLOAD_SIZE), upd |-> FALSE, sent |-> FALSE,
   cnt |-> 0]

\* CoAP_AllocRespMsg
ReceiveRequest ==
  /\ toServer # NULL /\ Incoming.res = "OK"
  /\ LET m == Incoming.msg
         res == CoAP_FindResourceByUri(resources, m.opts)
     IN  /\ res # NoResource
         /\ CoAP_CheckForUnknownCriticalOption(m.opts) = 0
         /\ resp' = Working("REQUEST", m, res, CreateMessage(ACK, EMPTY, m.mid, m.tok))
  /\ toServer' = NULL
  /\ UNCHANGED <<rep, cnt, asked, client, toClient, sentReq, sentResp>>

(***************************************************************************)
(* The handlers: of the list of resources, and of the example resources    *)
(* that answer a GET with bytes of their own.                              *)
(***************************************************************************)
WellKnown_GetHandler(req, m, b) ==
  LET filled == CoAP_SetPayload(req.opts, m, b, Data(rep), "VOLATILE")
  IN  [filled EXCEPT !.msg.opts = AddCfOptionToMsg(@, COAP_CF_LINK_FORMAT)]

Ip_RequestHandler(req, m, b) ==
  CoAP_SetPayload(req.opts, m, b, Data(rep), "VOLATILE")

About_RequestHandler(req, m, b) ==
  CoAP_SetPayload(req.opts, m, b, Data(rep), "STATIC")

\* The key is looked for in every option; the request names it as "k=1".
KeyPrefix == <<107, 61>>
WIFI_RES_KEY == <<49>>
KeyOk(opts) ==
  \E i \in 1..Len(opts) :
    CoAP_FindUriQueryVal(opts[i], KeyPrefix, <<WIFI_RES_KEY>>) # 0
Usage == [i \in 1..20 |-> 117]

\* It writes into the response's own buffer, or into a larger one it puts in
\* its place, without telling its size.
Prepared(b, n) ==
  IF b.size < n THEN [b EXCEPT !.at = "HEAP", !.room = n, !.held = @ + 1] ELSE b

ResWifi_ReqHandler(req, m, b) ==
  IF KeyOk(req.opts)
  THEN CoAP_SetPayload(req.opts, m, Prepared(b, rep.len), Data(rep), "IN_PLACE")
  ELSE LET filled == CoAP_SetPayload(req.opts, m, b, Usage, "VOLATILE")
       IN  [filled EXCEPT !.msg.code = RESP_ERROR_UNAUTHORIZED]

Handler(id, req, m, b) ==
  CASE id = "core" -> WellKnown_GetHandler(req, m, b)
    [] id = "ipconfig" -> Ip_RequestHandler(req, m, b)
    [] id = "about" -> About_RequestHandler(req, m, b)
    [] id = "config" -> ResWifi_ReqHandler(req, m, b)

\* The code is 2.05 if the handler set none; the response is piggybacked.
Answer ==
  /\ resp # NULL /\ resp.kind = "REQUEST" /\ ~resp.sent
  /\ LET done == Handler(resp.res, resp.req, resp.msg, resp.buf)
         m == IF done.msg.code # EMPTY THEN done.msg
              ELSE [done.msg EXCEPT !.code = RESP_CONTENT]
     IN  /\ SendResponse(m)
         /\ resp' = [resp EXCEPT !.msg = m, !.buf = done.buf, !.sent = TRUE]
  /\ UNCHANGED <<rep, cnt, asked, client, toServer, sentReq>>

\* CoAP_free_Message: nothing waits for an answer to a piggybacked response.
FreeResponse ==
  /\ resp # NULL /\ resp.kind = "REQUEST" /\ resp.sent /\ resp' = NULL
  /\ UNCHANGED <<rep, cnt, asked, client, toServer, toClient, sentReq, sentResp>>

(***************************************************************************)
(* Notifications.                                                          *)
(***************************************************************************)
\* A Notifier answers as to a request without options, with volatile bytes.
Notifier(m, b, r) == CoAP_SetPayload(<<>>, m, b, Data(r), "VOLATILE")

\* A change starts a notification, or flags the one under way.
NotifyObservers ==
  /\ client.state = "OBSERVING" /\ rep.ver < MaxNotified
  /\ \E n \in NotifyLengths : rep' = [len |-> n, ver |-> rep.ver + 1]
  /\ cnt' = cnt + 1
  /\ IF resp # NULL THEN resp' = [resp EXCEPT !.upd = TRUE]
     ELSE LET new == CreateMessage(CON, RESP_CONTENT, ServerMid, asked.tok)
              done == Notifier(new, OwnBuffer(PREFERED_PAYLOAD_SIZE), rep')
          IN  resp' = [Working("NOTIFICATION", new, NULL, new) EXCEPT
                         !.msg = [done.msg EXCEPT !.opts = AddObserveOptionToMsg(@, cnt')],
                         !.buf = done.buf, !.cnt = cnt']
  /\ UNCHANGED <<asked, client, toServer, toClient, sentReq, sentResp>>

\* Sent, and sent again when no acknowledgement comes.
SendNotification ==
  /\ resp # NULL /\ resp.kind = "NOTIFICATION"
  /\ resp.sent => toClient = NULL /\ ~resp.upd
  /\ SendResponse(resp.msg) /\ resp' = [resp EXCEPT !.sent = TRUE]
  /\ UNCHANGED <<rep, cnt, asked, client, toServer, sentReq>>

\* The message is used again for a newer representation.
RefreshNotification ==
  /\ resp # NULL /\ resp.kind = "NOTIFICATION" /\ resp.sent /\ resp.upd
  /\ toClient = NULL
  /\ LET done == Notifier([resp.msg EXCEPT !.mid = (@ + 1) % 65536], resp.buf, rep)
     IN  resp' = [resp EXCEPT
                    !.msg = [done.msg EXCEPT !.opts = UpdateObserveOptionInMsg(@, cnt)],
                    !.buf = done.buf, !.cnt = cnt, !.upd = FALSE, !.sent = FALSE]
  /\ UNCHANGED <<rep, cnt, asked, client, toServer, toClient, sentReq, sentResp>>

\* The client acknowledges: the notification ends, or is refreshed.
ReceiveNotification ==
  /\ client.state = "OBSERVING" /\ toClient # NULL
  /\ client' = [client EXCEPT !.got = sentResp.payload]
  /\ toClient' = NULL
  /\ resp' = IF resp.upd THEN resp ELSE NULL
  /\ UNCHANGED <<rep, cnt, asked, toServer, sentReq, sentResp>>

(***************************************************************************)
(* What requests mean, by their URI strings alone.                         *)
(***************************************************************************)
\* Two slashes in a row, or one at the end, do not make a part.
NonEmpty(parts) ==
  FoldLeft(LAMBDA q, part : IF part = <<>> THEN q ELSE Append(q, part), <<>>, parts)
PathParts(str) == NonEmpty(Parts(SubSeq(str, 1, PathEnd(str) - 1), {Slash, Space}))
QueryParts(str) == NonEmpty(Parts(SubSeq(str, PathEnd(str) + 1, Len(str)), {Ampersand}))

\* The first resource with the same path.
WithItsPath(r) == {i \in 1..Len(Table) : PathParts(Table[i].uri) = PathParts(r.uri)}
Meant(r) ==
  IF WithItsPath(r) = {} THEN NoResource
  ELSE Table[CHOOSE i \in WithItsPath(r) : \A j \in WithItsPath(r) : i <= j].id

AsksUnknown(r) ==
  \E i \in 1..Len(r.extra) :
    r.extra[i].num \notin KNOWN_OPTIONS /\ IsCritical(r.extra[i].num)
HasKey(r) ==
  \E i \in 1..Len(QueryParts(r.uri)) : QueryParts(r.uri)[i] = KeyPrefix \o WIFI_RES_KEY
Refusal(r) ==
  IF Meant(r) = NoResource THEN "NO_RESOURCE"
  ELSE IF AsksUnknown(r) THEN "BAD_OPTION"
  ELSE IF Meant(r) = "config" /\ ~HasKey(r) THEN "BY_HANDLER"
  ELSE "NEVER"

\* The labels of a request, target and refused, say what its URI and its further
\* options mean; URI and Block2 options are not among the further ones.
ASSUME RequestAssumption ==
  \A r \in Requests :
    \/ r.observe
    \/ /\ r.target = Meant(r) /\ r.refused = Refusal(r)
       /\ \A i \in 1..Len(r.extra) :
            r.extra[i].num \notin {OPT_NUM_URI_PATH, OPT_NUM_URI_QUERY, OPT_BLOCK2}

(***************************************************************************)
(* The environment, and the specification.                                 *)
(***************************************************************************)
ChangeRepresentation ==
  /\ client.state = "WAITING" /\ rep.ver < MaxChanges
  /\ \E n \in Lengths : rep' = [len |-> n, ver |-> rep.ver + 1]
  /\ UNCHANGED <<cnt, asked, client, toServer, toClient, sentReq, sentResp, resp>>

Lose ==
  /\ \/ toServer # NULL /\ toServer' = NULL /\ UNCHANGED toClient
     \/ toClient # NULL /\ toClient' = NULL /\ UNCHANGED toServer
  /\ UNCHANGED <<rep, cnt, asked, client, sentReq, sentResp, resp>>

TransferInit ==
  /\ rep \in [len : Lengths, ver : {0}]
  /\ asked \in Requests
  /\ cnt \in IF asked.observe THEN CntStart ELSE {0}
  /\ client = [state |-> IF asked.observe THEN "OBSERVING" ELSE "IDLE",
               size |-> asked.size, got |-> <<>>, since |-> 0]
  /\ toServer = NULL /\ toClient = NULL
  /\ sentReq = EmptyResetMsg /\ sentResp = EmptyResetMsg /\ resp = NULL

TransferNext ==
  \/ SendRequest \/ ReceiveResponse
  \/ ReceiveUnknownResource \/ ReceiveBadOption \/ ReceiveRequest
  \/ Answer \/ FreeResponse
  \/ NotifyObservers \/ SendNotification \/ RefreshNotification
  \/ ReceiveNotification
  \/ ChangeRepresentation \/ Lose

TransferSpec == TransferInit /\ [][TransferNext]_transferVars

(***************************************************************************)
(* Properties.                                                             *)
(***************************************************************************)
\* Options are packed as differences: every list on its way to a datagram is
\* in ascending order, whatever the order options were added, removed or
\* replaced in (CoAP_AppendOptionToList).
OptionsSorted ==
  /\ \A i \in 1..Len(resources) : Sorted(resources[i].uri)
  /\ Sorted(sentReq.opts) /\ Sorted(sentResp.opts)
  /\ resp # NULL => Sorted(resp.req.opts) /\ Sorted(resp.msg.opts)

\* A datagram has the size its buffer was made for, and is read as the message
\* it was built from: type, code, message ID, token, options and payload; an
\* Observe option carries the counter of the change that is notified.  A
\* payload without any option is not read at all (PayloadAlone).
ReadsBack(raw, m) ==
  /\ Len(raw) = CoAP_GetRawSizeOfMessage(m)
  /\ m.opts # <<>> \/ m.payload = <<>> =>
       CoAP_ParseMessageFromDatagram(raw) = [res |-> "OK", msg |-> m]
DatagramsReadBack ==
  /\ toServer # NULL => ReadsBack(toServer, sentReq)
  /\ toClient # NULL => ReadsBack(toClient, sentResp)
  /\ resp # NULL /\ resp.kind = "NOTIFICATION" =>
       GetObserveOptionFromMsg(resp.msg.opts) = resp.cnt

\* "Options (if any)", "Payload (if any)" (coap_message.c:216, 228): a message
\* has a payload, options, both or none.
PayloadAlone ==
  toClient # NULL => CoAP_ParseMessageFromDatagram(toClient).res = "OK"

\* The blocks a client puts together are the representation, as long as that
\* does not change under way: each continues the one before, whatever sizes
\* client and server agree on, the last one is the end, and no block of an
\* unchanged representation is refused (CoAP_SetPayload).  When no notification
\* is under way the observer has the latest representation.
Unchanged == client.since = rep.ver
Refusable == asked.refused # "NEVER"
ReceivedIsContent ==
  /\ client.state = "WAITING" /\ Unchanged =>
       client.got = SubSeq(Data(rep), 1, Len(client.got))
  /\ client.state = "DONE" /\ Unchanged => client.got = Data(rep)
  /\ client.state = "REFUSED" => Refusable \/ ~Unchanged
  /\ client.state = "OBSERVING" /\ resp = NULL /\ rep.ver > 0 =>
       client.got = Data(rep)

\* A handler answers only for the resource the client means, and only requests
\* whose critical options it knows (CoAP_FindResourceByUri,
\* CoAP_CheckForUnknownCriticalOption).
HandledAsAsked ==
  resp # NULL /\ resp.kind = "REQUEST" =>
    asked.refused \in {"NEVER", "BY_HANDLER"} /\ resp.res = asked.target

\* A response owns the one block of the pool its payload lies in, none else,
\* and the payload has room there, however often the message is used again
\* (CoAP_SetPayload, CoAP_free_MsgPayload).
PayloadFits ==
  resp # NULL =>
    /\ resp.buf.held = PayloadBlocks(resp.buf)
    /\ Len(resp.msg.payload) <= resp.buf.room /\ resp.buf.size <= resp.buf.room

\* A transfer comes to its end: every answer continues what the client has with
\* at least one further byte, or ends it, however large the block number gets
\* (AddBlkOptionToMsg, GetBlockOptionFromMsg).
EveryAnswerContinues == client.state # "STUCK"
=============================================================================
