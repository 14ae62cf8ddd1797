# A verification model of sming-coap

TLA+ modules, TLC runs and TLAPS proofs for the CoAP code of this repository:
the server stack under `src/coap/server/lobaro-coap` (the Lobaro CoAP stack, C)
with its glue in `src/coap/server`, and the C++ client under
`src/coap/client`. All file names below are relative to those directories.

## 1. Inventory

### Components

| Component | Code | State it keeps | Operations |
|---|---|---|---|
| Messages | `coap_message.c/.h` | the message-ID counter, the token counter | allocate a response, draw an ID, parse, pack, send |
| Interaction list | `coap_interaction.c/.h` | the pool of `CoAP_Interaction_t`, the list `CoAP.pInteractions` | allocate, append, unlink, move to the end, free; timers; reliability lookup |
| Server role | `coap_main.c:321-454`, `coap_interaction.c:442-589` | interactions of role SERVER | start, handle, postpone, answer, retransmit, end; register and cancel observers |
| Notification role | `coap_main.c:455-546`, `coap_interaction.c:363-440` | interactions of role NOTIFICATION, `UpdateCnt` | notify loop, transmit, refresh, retry, abort |
| Client role | `coap_main.c:548-598`, `coap_interaction.c:326-361` | interactions of role CLIENT | start a GET, transmit, retry, take a response |
| Dispatcher and main loop | `coap_main.c:37-171, 305-601`, `server.c` | the 1 Hz clock, the 100 ms timer | `CoAP_onNewPacketHandler`, `CoAP_doWork` |
| Resources, observers | `coap_resource.c`, `option-types/coap_option_observe.c` | `pListObservers` of each resource | find, notify, add and remove observers |
| Options, URI, ETag, content format, blockwise | `coap_options.c`, `option-types/` | none but the message's option list | append in order, pack and parse deltas, block arithmetic |
| Interface | `interface/` | the socket table, `TxSocketIdle` | send and receive datagrams, the clock |
| Memory pool | `coap_mem.c` (bget, vendored) | free lists | allocate, free |
| Example resources | `resources/` | LED state, scan state and result, Wi-Fi configuration | handlers and notifiers |
| Connection monitor | `interface/esp8266/`, `wifi/wifi.cpp` | station status, soft AP, failure counts | poll, give up, open the soft AP |
| C++ client | `client/CoapClient.cpp`, `Queue.cpp`, `CoapRequest.cpp`, `Hash.cpp` | delta queue of requests, callbacks by transaction id | send, timer, response |
| PDU library | `client/Coap.cpp` (cantcoap, vendored) | one PDU | encode, decode |
| Wi-Fi and application | `wifi/`, `app/` | configuration | start-up |

### How they interact

Everything on the device is a callback of one event loop and runs to
completion; there are no threads. The interleavings are those of callbacks: a
datagram (`CoAP_onNewPacketHandler`), the 100 ms timer (`CoAP_doWork`, which
serves exactly the head of the list and then moves it to the end), a resource
that changes (`CoAP_NotifyResourceObservers`), the application starting a
request, and the clock. They share the interaction list and the observer lists.
Handlers and notifiers are called from inside `CoAP_doWork` and the notify
loop. The network loses, duplicates and reorders datagrams; the socket may
refuse one; every allocation may fail.

### What is hard here

* A request may be retransmitted in every state of its interaction. Duplicate
  detection is a search of the list by endpoint and message ID.
* An answer changes from piggybacked to separate while its resource postpones
  it, with a new message ID and its own retransmission.
* ACKs and RSTs are matched to interactions by message ID and endpoint over
  all roles at once, and race the retransmission timers.
* A resource changes while notifications of an earlier state are unsent, in
  flight, retried or just acknowledged; registration, cancellation, reset and
  silence of the client end observations meanwhile.
* A cancellation, served at the head of the list, frees another interaction in
  the middle of it.
* The 1 Hz clock wraps about once an hour and deadlines are compared with `>`.
* Sends and allocations fail between two steps of one handler.
* The C++ client keeps only the distances between deadlines, and every
  insertion, removal and firing has to correct them; one timer serves them all,
  and an answer may come between any two tries, or after the last.
* Options are kept sorted and packed as differences whose encoding changes at
  13 and 269; block numbers change theirs at 16.
* A block is cut out of whatever the representation is at that moment, with the
  block size client and server arrive at; the payload of a response lies in
  one of three kinds of memory, and a notification's message is filled again.
* `TxSocketIdle` shuts the main loop out while a datagram is on its way; the
  packet handler sends regardless. A scan's result passes from a callback to
  whichever postponed handler is called first.
* Two monitors that do not know of each other look after one Wi-Fi station.

The full list, at its lines, is `hazards` in `PROJECT.json`.

## 2. Modules

```
CoapMessage        messages, clock arithmetic, counters
  CoapInteraction  pool, list, timers, transmission, reliability lookup
    CoapServer     server role
    CoapNotify     notify loop and notification role
    CoapRequester  client role
      CoapMain     dispatcher + main loop + clock: the whole stack, its
                   invariants and action properties
        CoapPaced  the stack under the 100 ms timer: fairness, liveness
          CoapClaims  a comment the code does not keep
  CoapTypeProofs   TypeOK and PointersOK; timers, responses and requests,
                   slot by slot (proofs)
  CoapListProofs   the list, no duplicates, the message IDs in use (proofs)
    CoapPoolProofs nothing leaks; observers and their notifications (proofs)
CoapOptions        option lists, URIs, content format, search of resources
  CoapWire         messages as bytes
    CoapBlockwise  block options, CoAP_SetPayload, ownership of payloads
      CoapTransfer whole transfers and notifications over a lossy network
    WireProofs     sorting, deltas, sizes, blocks, whole messages (proofs)
      TransferProofs every transfer: options, payloads, datagrams, and what
                   clients receive (proofs)
EspInterface       socket table, TxSocketIdle
  EspResources     Wi-Fi scan and LED on that interface
    EspProofs      the gate and the ownership of scan results (proofs)
EspWifi            the monitors of the Wi-Fi connection
DeltaQueue         the C++ client's queue of time differences
  CoapClient       the C++ client: requests, timer, answers; implements
    RequestPromise   what it promises its callers (abstract specification)
    ClientProofs     the queue's deadlines, the promise (proofs)
CoapHash           transaction ids, computed as Hash.cpp does
SequenceLemmas     positions after insertion and removal; folds and walks (proofs)
MCServer MCObserve MCRequester MCFailures MCProgress MCClaims MCTransfer
MCDevice MCClient  the instances TLC checks
```

`CoapMain` and `CoapTransfer` look at the same stack from two sides.
`CoapMain` has every interleaving of requests, answers, timers and changes, and
messages of which only the fields the engine reads are kept. `CoapTransfer` has
one exchange at a time and messages with all their bytes. `MCDevice` puts
`EspResources` and `EspWifi`, which share no variable, side by side; a behaviour
is one of the two.

### State

| Variable | In the code |
|---|---|
| `list` | the linked list `CoAP.pInteractions`, head first, as a sequence of slots |
| `ia` | the contents of every slot of the memory pool; `Slots` is how many interactions fit. A slot whose role is `"FREE"` is unallocated; one that is neither free nor in `list` has leaked |
| `observers`, `updateCnt` | `pListObservers` and `UpdateCnt` of each resource |
| `notifying` | the local variables of a running `CoAP_StartNotifyInteractions`: its resource and position |
| `mid`, `ownTok` | the static counters of `CoAP_GetNextMid` and `CoAP_GenerateToken` |
| `now` | `hal_rtc_1Hz_Cnt()` |
| `tx` | the datagram the last step handed to the socket; the network needs no state of its own, because every packet of `Packets` may arrive at any time and any number of times |
| `lost` | a message block is allocated and unreachable |
| `fault` | a null pointer was dereferenced: the device stops |

An interaction's record has the fields of `CoAP_Interaction_t` the engine
reads. `req` and `resp` are the two message pointers (`NoReq`, `NoResp` for
null). `retrans`, `ackTo` and `sleep` are `RetransCounter`, `AckTimeout` and
`SleepUntil`.

### Actions

One action per branch of a handler, with every call it makes inside it. The
moves of the served head to the end of the list, the frees, and the
transmission are part of the action. A send is a disjunction of "taken" and
"refused" with everything `SendResp`/`SendReq` does in either case. The single
exception is the notify loop, which is one step per observer: its rounds are
independent allocations, and `Running` forbids every other step until the loop
has ended, so it remains one callback.

Resource handlers are abstracted to what they may return: 2.05, an error, or
"postpone" (`HandlerResults`). A handler that itself notifies observers
(`led_res.c:37`) is covered by the interleaving in which
`NotifyResourceObservers` runs just before the handler's step: only the order
in which the two draw message IDs differs.

Message contents are abstracted to type, code class, message ID, token and the
Observe option. `ObserveOption` models an option that silently fails to be
added for lack of memory. The clock: `hal_rtc_1Hz_Cnt` divides the 32-bit
microsecond counter, so it wraps at 4295, far below 2^32: `now + wait` never
overflows its `uint32_t`, which is why deadlines are plain naturals, while
`now` itself is counted modulo `RtcMod`. `IsOlderThan` spells out the unsigned
subtraction.

### What travels

`CoapOptions`, `CoapWire` and `CoapBlockwise` are pure: their operators bear the
names of the functions they stand for. An option is its number and the sequence
of its bytes; `Field`, `Extension` and `Extended` are the nibble, the extension
bytes and their inverse; a datagram is a sequence of bytes. `CoAP_GetRawSizeOfMessage`
is a computation of its own in the code and in the model, because the buffer is
allocated with it and filled by `CoAP_BuildDatagram`. A payload's memory is a
`Buffer`: where the pointer leads (the message's own buffer, a block of the pool,
memory that stays), what `PayloadBufSize` says, what is really there, and how
many blocks the response took and has not given back.

| Variable of `CoapTransfer` | In the code |
|---|---|
| `rep`, `cnt` | the resource's representation (length and version) and its `UpdateCnt` |
| `resp` | the response or notification under construction, or the notification waiting for its ACK |
| `toServer`, `toClient` | the datagram in flight |
| `sentReq`, `sentResp` | history: the message it was built from |
| `asked`, `client` | the client (external): what it wants and has |

The client is external: it does what RFC 7959 says, takes over the server's
block size or goes on with a smaller one, and repeats a request that stays
unanswered. It knows a response by the message it was built from, so that what
the server's own parser does not read (section 5) does not end the transfer.
Representations of all versions differ in every byte.

### The device

| Variable | In the code |
|---|---|
| `SocketMemory` | the table of `coap_if_Socket.c` |
| `TxSocketIdle`, `flying` | the flag; the datagrams the SDK holds (external) |
| `ScanState`, `pScanResultStr`, `scanning` | the statics of `wifi_scan_res.c`; whether the SDK scans (external) |
| `blocks`, `ask` | the pool's blocks that hold results; each client's postponed request and the payload of its response |
| `LedState`, `note`, `seen` | `led_res.c`; the notification of its one observer; what that observer was last told |
| `status`, `reachable`, `softAP` | the station and the soft AP (external) |
| `StationConStatus`, `failRetryCnt` | the statics of `connection_timer_cb` |
| `missedConnections`, `watching` | `wifi.cpp`; whether `waitConnection` waits |

Everything the SDK does is external: it takes or refuses a datagram, reports each
it took, ends each scan with a result, a failure or a cancellation, and ends
each attempt to connect. A scan that is asked for starts, and there is memory
for its result.

### The C++ client

`CoapClient` shares nothing with the server stack but the device, so it is a
specification of its own.

| Variable | In the code |
|---|---|
| `queue` | `pQueue`: nodes with transaction id, request, time relative to the node before, retransmission count and timeout |
| `callbacks` | the hash map of callbacks by transaction id; 0 is "not contained" |
| `message_id`, `asked` | the client's message-ID counter; how many `CoapRequest` objects there are |
| `reqs` | per `CoapRequest`: type and transaction id of its PDU, its connection, and (history) how often it was sent |
| `timer` | `retransmissionTimer`, a one-shot timer of the Sming library (external) |
| `elapsed` | now minus `basetime`. Nothing else of the clock is used, and the branch for its wrap computes the same difference |
| `heard` | history: what the callback of each request was called with |
| `fault` | undefined behaviour was executed: null node in `coapGetNodeById`, second free of a PDU |

`request` is `CoapClient::request` with `doRequest`, `ResponseFound` and
`ResponseTooLate` the two ends of `onResponse`, `timerTick` the timer's
callback (`Retransmit`, `GiveUp`), `Elapse` the passing of a millisecond. The
operators of `DeltaQueue` are named after the functions of `Queue.cpp`. Three
points need an argument:

* A callback may issue the next request, although those of `app/network.cpp` only
  print and its requests come from a timer of its own. Such a request runs
  inside `onResponse` or `timerTick`; the same `request` right after the handler
  leaves the same queue and timer, because both re-arm the timer for the head.
* A malformed packet, a host name still being looked up and an answer that
  meets an empty queue change no state and are stuttering steps.
* `COAP_INVALID_TID` cannot come back from `sendPDU` (the id is a 16-bit hash
  whatever the socket does), so the branch of `timerTick` for it is dead.

`TransactionID` is a constant of `CoapClient`. `MCClient` gives it the values
`CoapHash` computes for the server of `app/network.cpp`; TLC evaluates two
assumptions beside the run: that the values are those of the hash, and that 256
consecutive message IDs never share a transaction id.

`RequestPromise` is the abstract specification: a request has a limit of tries,
and its callback is called at most once, with failure only after the last try.
The mapping takes `tries` and `heard` from the history and the limit from the
PDU's type (`KeepsPromise`).

## 3. Runs

Every run starts from `Init`, except that `observe` also starts with two
observers registered (a state its other scenario reaches step by step).

| Run | Question | Bounds and why they suffice |
|---|---|---|
| `server` | is a request worked on once, answered fittingly, acknowledged answers left alone, nothing leaked? | one peer, one CON and one NON request, any number of copies, ACK and RST for our IDs; 2 slots: two interactions are enough to move each other through the list; 1 own message ID (the separate answer); one retry, so that first timeout, retry and last timeout all occur; clock modulo 5: postponing, too-long postponing and the wrap all happen |
| `observe` | one fresh notification per observer, right timers, failed ones end the observation; do the lists stay sound while observers come and go? | two scenarios. "NOTIFY": two observers with an endpoint each, 3 own message IDs, `CntMod` 3 and `ConEvery` 2 so that NON is promoted to CON and the counter wraps, `ACK_TIMEOUT` 2 so that the waits of the first try (2) and of the retry (4) differ, clock modulo 9 so that both deadlines fit below the wrap. "REGISTER": one endpoint with two tokens, registration, re-registration, cancellation, ACK and RST within one second; 3 observer blocks, both tokens registered and one to replace either, because the code allocates the new block before it frees the old one; only then does the order of the observers change |
| `requester` | does a callback get only its own response, with refused sends? | two GET requests (two tokens, two IDs), piggybacked, separate, foreign and duplicated answers, and one packet for every branch of the dispatcher that turns one away |
| `failures` | what stays sound when everything fails? | sockets, allocations and notifiers fail at any time, handlers postpone until the stack answers 5.03; one endpoint registers two observations (two tokens) again and again, so that a registration finds an old one of its own, the loop has an observer behind the one it removes, and a failed one leaves another; 2 own message IDs, two observer blocks; no retry (`MAX_RETRANSMIT` 0) and no request of our own, because retries and requests with refused sends are the subject of `observe` and `requester` |
| `progress` | do interactions end and take turns; is a change that comes while a notification is under way sent in the end? | two scenarios. "REQUESTS": a CON request and one of our own. "UPDATES": one observer and a resource that changes for ever; the ACK for one of our two IDs may arrive, the other stays unanswered. 2 slots; IDs, counter and clock wrap |
| `client` | does each request of the C++ client end, in time, with one call of its callback? | 3 requests, so that insertion and removal happen at the head, in the middle and at the end of the queue; 3 message IDs from any start, so that they wrap; timeouts 1 and 2, one retransmission (its timeout doubles); the timer fires up to 1 ms late; connections and allocations may fail |
| `wire` | is what is built read back, found by its URI, and put together the representation? | sizes scaled by four: at most 64 bytes of payload, 16 preferred. Representations of 0, 1, a block, a block and a byte, the maximum, one more, two blocks and more, and 17 blocks of 16 (block numbers above 15); block sizes 16 to 128, larger than the server's maximum, changed by the client under way; option numbers and lengths on both sides of 13 and 269; tokens of none and eight bytes; paths with empty parts; one change under way; counters of 1, 2 and 3 bytes |
| `device` | is the main loop let in again, has a result one owner, does each asker get an answer, is a started device reachable? | two clients with 3 requests, 2 datagrams in flight, 2 switches of the LED, 2 sockets; for Wi-Fi the code's own limits (2 and 3 failures), one new configuration, and an access point that comes and goes for ever |
| `clashing_ids`, `late_answer`, `payload_alone`, `led_notified` | see section 5 | the smallest instances that show the behaviour |

Deadlock checking is off where the system really may stop: in `failures`
because a null pointer dereference (`fault`) stops the device, in `client` and
`late_answer` because the client stops there too and has nothing left to do once
its bounded number of requests is answered, and in `wire`, `payload_alone`,
`device` and `led_notified` because transfers, scans and switches are bounded
in number and over in the end. In all other runs a state without successor is
an error.

`MaxMid` bounds how many message IDs a run draws; `progress`
has no such bound, so nothing but the code limits how long an interaction
lives there. `MaxRequests`, `MaxAsks`, `MaxSwitches`, `MaxChanges`, `MaxNotified`
and `MaxPuts` bound what applications, clients and resources do, `MaxFlying` how
many datagrams the SDK holds. `MaxRequests` also bounds the application's requests. Constants that
are tunables of `coap_main.h:25-34` are scaled down; the invariants do not
depend on their size, and the proofs of section 4 are for all of them.

### Properties

* `OneInteractionPerRequest`, `OneNotificationPerObserver`: duplicates and
  overlapping changes never have two interactions at work for one thing.
* `ListOK`, `NoLeak`: the list has no freed and no repeated block, and every
  allocated block is in it. `NoLeak` is checked in the runs where notifiers
  answer 2.05 and memory suffices; elsewhere the code does leak (hazards).
* `ObserversUnique`: an observation (endpoint, token) is in a list once.
* `NotifiedIsObserver`: nothing that fails removes an observer and leaves a
  notification to it under way.
* `NobodyPassedOver`: each round of the notify loop leaves exactly the observers
  behind the one it stands at still to be visited, whatever is removed under it;
  it ends early only without a free interaction.
* `PendingIsFresh`: after a change is announced, every notification still
  under way carries the newest counter or is marked for a refresh.
* `OwnMidsDistinct`: no two interactions share an ID the stack drew. The run stops
  before the counter wraps; the theorem covers later states under its condition.
  IDs a peer chose may clash with ours all the same (section 5, `clashing_ids`).
* `BackoffFitsRetries`, `WaitsOnlyForSent`, `NoResendAfterAnswer`: the timer
  belongs to the last transmission and the retry counter; waiting starts only
  with a datagram the socket took; an answered message is never sent again.
* `ResponseFitsRequest`, `AnsweredBeforeForgotten`, `CallbackFitsRequest`: the
  relation of requests and responses in both roles.
* `FailedNotificationEndsObservation`: reset and silence end exactly the
  observation of the notification's token.
* `PointersOK`: everything a branch dereferences unchecked is there. `requester`
  has no resource that changes; of the notify loop the theorem speaks
  (`PointersCorrect`) and `NobodyPassedOver`.
* `EndsUnlessClockOverruns`, `EveryoneGetsTheirTurn`: every interaction ends and
  none is starved by the others in the list.
* `TimerArmedIffPending`: the timer's callback always finds a first node, and a
  pending request always has a timer.
* `PendingIsWhole`: a pending request is in the queue once, its callback is the
  one its id leads to, and its connection is not closed before the next try.
* `NeverPutOff`: no insertion, removal or firing delays the next try of another
  request by more than the timer was late. It says nothing of tries that
  come early; the code has those (hazards: `timerTick` leaves `basetime` alone).
* `KeepsPromise`: `CoapClient` implements `RequestPromise`.
* `CallerIsTold`: every queued request's callback is called in the end.
* `OptionsSorted`, `DatagramsReadBack`: options stay in order through every
  addition, removal and replacement; a datagram has the size its buffer was made
  for and is read as the message it was built from.
* `ReceivedIsContent`, `EveryAnswerContinues`: the blocks put together are the
  representation if that has not changed, and every answer brings the client
  at least a byte further.
* `HandledAsAsked`: a handler answers only for the resource that is meant.
* `PayloadFits`: a response owns the one block its payload lies in, and has room.
* `GateShutOnlyWhileSending`: the main loop is shut out only while a report that
  lets it in again is to come.
* `ScanResultOwned`, `EveryAskEnds`: a result belongs to the resource or to one
  response, and every request for a scan is answered.
* `BecomesReachable`: a started device gets an address or opens its soft AP.
* `UpdateGetsOut`: a notification marked for a refresh is sent with the newer
  counter or ends with its observation.

### Fairness

`CoapPaced` states strong fairness of `PacedTick` (the clock) and `PacedWork`
(the 100 ms timer calls `CoAP_doWork`: `server.c:20-41`), and weak fairness of
finishing a running notify loop (a callback that has started returns). Nothing is assumed of the
network, the application or the resources, so no packet need ever arrive. The
pace (`CallsPerTick` calls of `CoAP_doWork` between two ticks while the list is
not empty) is the ratio of the two timers; without it the clock could jump past
every deadline between two calls. In the code a due timer waits only for the callback that is running, so weak
fairness of whole callbacks would be enough. The model's notify loop, a part of
one callback, is several steps, which disable the timers while they last; a
resource that changes again and again could thus disable them infinitely often
and weak fairness would let them starve. Strong fairness restores what the event
loop gives. `EndsUnlessClockOverruns` excludes deadlines at or past
the wrap of the clock, which the code never reaches (section 5).

`FairClientSpec` states weak fairness of `Elapse` (the timer counts down) and of
`timerTick` (a timer that has expired calls its callback). No other action
disables either for ever: `MaxLate` stops the clock only until the callback has
run. No answer need ever come. One assumption about the external timer of the Sming
library is taken from the code's own comment (`CoapClient.cpp:348`, "when timer
enabled, time out almost immediately"): armed with an interval of 0 it fires.
`CallerIsTold` rests on it, and so does what `TimerArmedIffPending` means by
"armed"; the library is not in the repository.

`ResourcesFairness`: the SDK reports every datagram and the end of every scan
(weak), and the main loop serves every postponed request again and again while
it finds the gate open (strong, because it finds it open and shut in turns;
`EveryoneGetsTheirTurn` is the same fact of the list it serves them from).
`WifiFairness`: attempts to connect end, and both timers run. The station need
not be polled at any particular moment of an attempt, so the monitor may count no
failure for ever; that the device becomes reachable all the same is due to the
application's count.

## 4. Proofs

TLAPS checks the following for every value of the constants that satisfies the
named assumptions. These say what the C types and `coap_main.h` give: counters
are moduli, timing parameters are naturals, arriving packets and registered
resources are well-typed. `BackoffAssumption` (powers of `ACK_TIMEOUT` are
naturals) is a fact of arithmetic the provers do not know.

Of messages as bytes and of transfers five things are assumed. The code does not
check the third and the fourth; the last one is about the labels of the model's requests.

* `WireAssumption` and `BlockwiseAssumption`: `MAX_OPTION_VALUE_SIZE`
  (`coap_options.h:52`) and `MAX_PAYLOAD_SIZE` (`coap.h:66`) fit 16 bits, and the
  latter is a block size, as its comment asks.
* A representation has less than 65536 bytes (`Lengths`): `CoAP_SetPayload` takes its
  length as a `uint16_t` (`coap_option_blockwise.c:190`).
* `ClientRequest` (in `TransferAssumption`): no value of a request's options is
  longer than `MAX_OPTION_VALUE_SIZE`, and there are so few options that their size
  fits the `uint16_t` in which `CoAP_NeededMem4PackOptions` adds it up. `Countable(n)` is
  the coarse form of this: `n` options, each taken to be of the greatest length.
* The counter of an observed resource stays below 2^24 (`CntStart`, `MaxNotified`),
  for an Observe option has three bytes. If a representation that is notified
  needs more than one block, `Countable(MaxNotified + 1)` bounds the number of
  changes as well: each refresh of a pending notification adds a Block2 option to the
  message it reuses (`coap_main.c:490`, `CoAP_SetPayload`), and nothing in the code
  removes them. If each fits one block, no such bound is needed (`AllFit`).
* `RequestAssumption`: a request that does not observe carries two labels, the
  resource it means (`target`) and who refuses it (`refused`). The assumption ties them to its
  URI string and its further options (`Meant`, `Refusal`), without any option list of the
  server, and says that URI and Block2 options are not among the further ones.
  TLC evaluates it for each request of `MCTransfer`, the proofs use it for every
  set of requests. `NullAssumption` says only that NULL is no work.

**SequenceLemmas.** The least element of a non-empty set of positions
exists (so every search loop stops at a well-defined place); what is at which
position after inserting into, removing from and replacing a part of a sequence.
A fold of the community modules is a recursive function: `FoldDefined` shows that it
exists, and `FoldChain` puts a sequence of intermediate results in its place, each
one step from the one before, about which a proof by the least counterexample can speak.
`WalkDefined` does the same for a recursive walk over positions (a parser).

**CoapTypeProofs.** First what `Unlink`, `MoveToListEnd` and `WithoutObserver`
return and keep, then `TypeCorrect` (`Spec => []TypeOK`) and `PointersCorrect`
(`Spec => []PointersOK`). `TypeOK` alone is not inductive: transmitting a
response that does not exist, or counting a retry past the last waiting time,
would leave the types. `TypeInv == TypeOK /\ PointersOK` is inductive;
`PointersOK` says which messages, peer and resource each role and state can
count on, that the retry counter keeps to `MAX_RETRANSMIT`, and that the notify
loop stands inside its list. The proof has one lemma per action; the helpers
(`SendResp`, `ResendResp`, `Requeue`, `Delete`) have lemmas of their own.

**CoapListProofs.** `ListCorrect` (`Spec => []ListOK`), `RequestsUnique`
(`Spec => []OneInteractionPerRequest`) and `NotificationsUnique`
(`Spec => []OneNotificationPerObserver`). Every step falls into one of two
classes. `Keeps`: the list stays free of repetitions, holds only interactions it
held before, and none of them changes what it works for (`SameKey`: role, peer,
resource, ID, token and Observe option of its request; a notification also keeps
its token, and the state it tells stays, is the newest, or is flagged); this
covers each unlinking, move to the end, free and retransmission, also the
cancellation that frees a second interaction. `Adds`: one block that was
free is appended, after a search that found no interaction of that request
(`AddsRequest`) or of that observer and resource (`AddsNotification`).
`KeepsOrAdds` proves the two exhaust `Next`. `UniqueInv` (a sound list and both
kinds of uniqueness) is then inductive relative to `TypeInv`, which supplies that
the head is a slot and that records have the fields their updates name.

The second half is about message IDs. `OwnMidsUnique` (`[]OwnMidsDistinct`) and
`AnsweredNotResent` (`NoResendAfterAnswer`) hold under `[]NextMidIsFree`: the
16-bit counter does not come round to an ID that still waits for its answer,
which the code never looks at. `MidsCorrectBeforeWrap` has both without that
condition as long as the counter has not come round at all (`MaxMid # MidMod -
1`), as in every run that checks them. The argument: a step gives a new ID to at
most one interaction, and that ID is the counter's next value, which the step
draws (`MidSteps`); and a confirmable message that leaves carries that value or
is the head's, which is not answered (`Sends`). Both need `FitInv`: whether a
response has an ID of its own is decided when it is allocated, and only requests
of our own wait for a response.

**CoapTypeProofs, last part.** Five properties of single interactions, from one
argument.
`SlotInv` is what the contents of a slot always satisfy; `Step` relates the
contents before and after any step of the stack: the message in flight, its
timer and its retry counter are the same as before, or the step gave this
message to the socket and started the timer. One lemma per action shows `Step`
for all slots (`AllStep`). From it follow `BackoffCorrect`
(`Spec => []BackoffFitsRetries`), `ResponsesFit`
(`Spec => []ResponseFitsRequest`), `CallbacksFit`
(`Spec => []CallbackFitsRequest`), `WaitingIsForSent`
(`Spec => WaitsOnlyForSent`) and `RequestsKept` (`Spec =>
AnsweredBeforeForgotten`). `ResponseFitsRequest` is not inductive: it says nothing
about an interaction whose response is still to be sent, and a postponed one may
answer in either of two ways. `Prepared` closes the gap: before the response, an
interaction has a wake-up time exactly when its empty ACK went out. This needs
`PostponeAssumption` (a postponed interaction sleeps at least a second).
`RequestsKept` assumes that the socket refuses nothing (`~SendMayFail`): a
refused response is dropped together with its request (`SendResp`), which
`failures` has among its behaviours.

**CoapPoolProofs.** `NothingLeaks` (`[]NoLeak`) and `ObserversDistinct`
(`Spec => []ObserversUnique`). The first has two conditions, each of which names a
leak of the code: no Notifier reports an error for a new notification
(`coap_interaction.c:420` leaves the interaction allocated and unlinked), and the
stack asks no server (`coap_main.c:156` and `coap_interaction.c:332` lose a
message). Under them `AllIn` (what is allocated is linked), `NoClient` and
`lost = FALSE` are inductive together, with memory and socket free to fail. The
second has no condition: `Distinct` is the two-sided form of `ObserversUnique`,
and every step leaves the observers alone, takes one out (`Removes`), or takes
the old observation out and appends a new one in a free block (`Registers`).

The rest relates observers and interactions. `FailedNotificationsEnd` (`Spec =>
FailedNotificationEndsObservation`) needs `TokensNameResources`: no client uses
one token for two resources. The code compares token and peer only when a
cancellation aborts a notification, so without the condition the notification of
another resource is aborted and its observation stays (TLC finds this on an
instance with two resources). Under it `ObsInv` is inductive: each notification under way
belongs to an observer of its resource (`PendingObserved`), and the token of every
observer and every observing request names its resource (`NamesInv`). An observer
is taken out only by a step that leaves no notification of it
(`ObserverEffect`), and a notification that is not acknowledged leaves the list
only together with its observer (`NextLeaves`). `PendingObserved` gives
`NotificationsObserved` (`[]NotifiedIsObserver`) at once, under the same condition:
with one token for two resources a cancellation removes the observer of one and
aborts the notification of the other.

`LoopPassesNobodyOver` (`Spec => NobodyPassedOver`) has no condition. The loop runs
alone (`NoLoopElsewhere`) and stands at an existing observer (`PointersOK`). A
round that keeps the list moves on by one; a Notifier's error takes out the
observer the loop is at, and no other, because observers are distinct
(`RemovesMeant`), and the loop keeps its position. Either way the rest of the list
from the loop's position is what was behind it (`RestBehind`).

`PendingStaysFresh` (`[]PendingIsFresh`) adds two conditions, both about memory:
no message allocation fails (an Observe option would be missing), and the notify
loop finds a free interaction for each observer that needs one (`RoomToNotify`:
otherwise the code leaves the loop, `coap_interaction.c:400`, and later observers
are not told). `PendingIsFresh` is not inductive, for it says nothing while the
loop is under way. `FreshInv` does: a notification that is neither fresh nor
flagged has its observer at the loop's position or behind it. The delicate step
is a Notifier's error, which takes an observer out of the list the loop walks
along: the ones behind it move up by one, and so does the loop's next stop.

**WireProofs.** Lemmas about pure operators, for every list, number and size that
fits its C type. `AppendKeepsSorted` and `RemoveKeepsSorted` (the list operations
every message goes through), `DeltasAddUp` (the sum of the differences packed up to an option is its number,
for a list of any length; by induction over the positions, `StepByStep`),
`NumbersReadBack` (nibble and extension give the number back, with the edges at 13
and 269), `OptionFitsBuffer` (the size computed in
advance is the size packed), `BlockIsOfRepresentation` (the block cut out is
where its number and size say, within the representation, and has the more flag
exactly if something is behind it) and `FilledHasRoom` (a filled response owns
just the block its payload lies in and has room). The last one needs that a
payload that stays is never put over a block of the pool, which would be
forgotten; the callers of the repository never do.

`MessageReadsBack` puts them together: each `Sendable` message is read by the
receiver as the one that was built, type, code, ID, token, options and
payload, and its datagram is as long as the buffer allocated for it (only a
payload without any option is not read, section 5). `Sendable` is
what the stack must see to: a code that is not reserved and not EMPTY, a payload of at
most `MAX_PAYLOAD_SIZE`, and a `Packable` list (sorted, no value too long,
total size in 16 bits). The packed options are the fold of the packed pieces,
of which `FoldChain` makes a list of end positions; the parser's walk is shown to stop
at each of them in turn, and at the payload marker or the end after the last.

**TransferProofs.** `OptionsStaySorted` (`TransferSpec => []OptionsSorted`),
`PayloadsFit` (`[]PayloadFits`) and `DatagramsAreRead` (`[]DatagramsReadBack`), for
every table of resources, every request a client may make, every length of the
representations, and any losses. None is inductive: that a datagram can be read
depends on the list it was packed from, and that on what the handler, the
option helpers and earlier refreshes did. `TransferInvariant` proves the
conjunction that is:

* `Taking`: representation, client and counter have their types, and the
  counter does not reach its limit before the last change.
* `RequestUnderWay`, `ResponseUnderWay`: what was sent last is `Sendable`, and a
  datagram in flight is the one built from it.
* `ServerAtWork`: what the server holds is either a request being answered
  (`Answering`: its handler finds an empty message in the buffer that
  comes with it) or a notification (`Notifying`: it can be sent as it stands, has
  exactly one Observe option, which carries the counter of the change it tells,
  and at most `Room` options).

`RequestPacks` shows that the client's options (the parts of the URI, what it
asks for besides, Block2, Observe) are `Packable` in whatever order they are added;
`SetPayloadFills` and `HandlerAnswers` that `CoAP_SetPayload` and each handler leave a
payload that fits the block, with room for it, and at most two options;
`NotificationStarts` and `NotificationRefreshed` that the message of a notification
keeps the one Observe option through removal, refill and replacement
(`SameObserve`). There is then one lemma per action of `TransferNext`.

What these messages say is the second half: `RequestsHandledAsAsked`
(`TransferSpec => []HandledAsAsked`), `AnswersContinue` (`[]EveryAnswerContinues`)
and, for representations that are notified in one block (`AllFit`),
`ContentIsReceived` (`[]ReceivedIsContent`). Transfers that are asked for block by
block may have any number of blocks. A notification in several blocks carries only
the first one; the observer has to ask for the others, which the client of this
model does not do, so without `AllFit` the property would be false of the model and the instance
has no such notification either. The inductive invariant is `TalkInv`, beside `TransferInv`:

* `Asking`, while requests are made. The request on its way is the one the client
  would make now. What the client has is the beginning of an unchanged representation
  (`SoFar`) and a number of blocks of the size it goes on with (`InBlocks`). The answer on
  its way begins there: `LeadsOn` holds whatever representation the server has
  meanwhile, so that no change makes a client stuck; `Tells` holds of an unchanged
  one and says that the two parts together are again its beginning, or all of it.
* `Told`, while a resource is observed. The notification under way carries the first
  block of the newest representation or is flagged to be refreshed, and what is in
  flight is what the server holds.

Three facts about conversions carry it. Options are picked out of a sorted list
in the order they were added, whatever was added between them (`WithOneMore`,
`RequestPicked`), so that the server compares the parts of the two URI strings
(`MeantIsFound`) and sees an option it does not know iff the client added one
(`UnknownIsSeen`). A Block2 option reads back as the block it was made for
while its number fits twelve bits (`BlockIsRead`), and it always does: 65535
bytes are less than 4096 blocks of 16 (`FewBlocks`). And `CoAP_SetPayload` cuts out the
block behind what the client has, also if it shrinks the block to
`MAX_PAYLOAD_SIZE` (`PayloadIsPiece`), through each of its three kinds of payload.

TLC checks `TransferInv` and `TalkInv` themselves on the instance of `wire` too,
but not as a run, because the properties they imply are checked there.

**EspProofs.** `GateCorrect` (`ResourcesSpec => []GateShutOnlyWhileSending`) and
`ScanResultCorrect` (`ResourcesSpec => []ScanResultOwned`), with the types they
need (`ResourcesTypeCorrect`). Ownership is not inductive alone: that a result
cannot be overwritten while it is the resource's own follows from
`ScansOnlyWhileRunning`, and that a request in waiting holds no block from
`WaitsForResponse`; their conjunction is.

**ClientProofs.** The C++ client for any number of requests and any timeouts:
`ClientTypeCorrect`, `TimerCorrect` (`[]TimerArmedIffPending`) and
`NeverPutOffCorrect` (`ClientSpec => NeverPutOff`) without a condition,
`PendingIsWholeCorrect` and `PromiseKept` (`ClientSpec => KeepsPromise`, the
refinement of `RequestPromise`) under one.

* The queue keeps distances, the properties speak of deadlines: `Due` adds the
  distances up and is a recursive function. That it satisfies its own
  recursion, and that nothing else does, is shown by the least counterexample
  (`DueExists`, `DueUnique`), so no induction theorem is needed.
* `From(a, q, e, delta)` says that the nodes of queue `a` other than a new one are those
  of `q` that `e` names, with deadlines moved by `delta`. One lemma each shows it
  of `coapAddNode`, `coapRemoveNode`, the tail of the queue and `timerUpdate`;
  `Moves` composes them to what an action does to the deadlines.
* `ClientInv` is `ClientTypeOK`, `NodesKnown` (nodes belong to requests that were
  made) and `TimerInv`, which strengthens `TimerArmedIffPending` by
  `queue[1].t - elapsed <= timer.left`: the timer never runs out before the first deadline
  counted from `basetime`. Only with it is an insertion (which takes the time
  gone by off the first node and re-arms the timer) known not to put the others off.
* `NodesHeard` (node, callback, id and connection of each pending request belong
  together) is inductive while the next transaction id is not that of a pending request
  (`HeardInvariant`). `IdsApart` guarantees this: there are at most as many
  requests as message IDs, and the IDs of that many in a row have different
  transaction ids. The code does not see to it; two pending requests with the same id would
  share one callback. The hash in use has the second half for 256 consecutive IDs
  (`MCClient` computes that).
* `PowersAssumption` (powers of two are naturals) is, like `BackoffAssumption`,
  arithmetic the provers do not know.

Left to TLC:

* the liveness properties (fairness and ENABLED are beyond these provers):
  `EndsUnlessClockOverruns`, `EveryoneGetsTheirTurn`, `UpdateGetsOut`,
  `CallerIsTold`, `EveryAskEnds` and `BecomesReachable`;
* the transaction ids of `CoapHash`, computed for the IDs of the instance
  (a recursive computation over the bytes of an address);
* that a transfer ends: `AnswersContinue` says that each answer continues it, not that the
  network ever delivers one.

Every safety property of the passing runs, invariant or action property, is
stated by a theorem.

## 5. Where the code departs from its comments

1. `clashing_ids`: ACKs are matched against the message ID of any response,
   also a piggybacked ACK that carries the *peer's* ID
   (`coap_interaction.c:257`). An ACK for our own request with the same ID is
   applied to the answered server interaction before it in the list.
2. `late_answer`: the connection of a request that was given up stays open. An
   answer that arrives on it while another request is pending makes
   `coapGetNodeById` run off the end of the queue and read a null pointer
   (`Queue.cpp:69`), where `onResponse` expects to be told "not found".
3. `payload_alone`: a message with a payload and no option is built
   (`coap_message.c`) but not read: `parse_OptionsFromRaw` takes the payload
   marker behind the header for an error (`coap_options.c:179`).
4. `led_notified`: the LED's observers are notified before the new state is
   stored (`led_res.c:37`), so a new notification tells the old state. Only a
   notification already under way is refreshed with the new one.

The model also contains, without a run of their own:

* A pending notification that is refreshed with an error keeps its Observe option
  and its observation, because the Notifier's return value is compared with a
  response code (`coap_main.c:490`, `524`), against `coap_interaction.c:423`
  ("Only 2.xx responses do include an Observe Option.").
* A cancellation aborts the client's first notification with its token, whatever
  the resource (`PendingWithToken`): a client that uses one token for two
  resources loses the notification of the one it did not cancel.
* A deadline at or past the wrap of the 1 Hz clock is never exceeded
  (`coap_interaction.c:203`, `lobaro-coap_esp8266.c:48`), so that interaction
  waits for ever for an ACK that does not come. `EndsUnlessClockOverruns`
  excludes it.
* The early retransmission after a firing (`CoapClient.cpp:343`), and the second
  free of the PDU of a given-up request (`CoapClient.cpp:303`, the outcome
  `DOUBLE_FREE` of `GiveUp`; the other outcome is a heap that survives it).
* A PUT of the Wi-Fi configuration that the SDK does not take leaves the station
  idle, which the monitor does nothing about (`PutConfig`, `connection_timer_cb`);
  therefore `BecomesReachable` speaks of the first time only.

## 6. Not modelled, and the plan

* The vendored cantcoap PDU library and the vendored allocator bget, beyond "an
  allocation may fail" and which blocks are held.
* Code nothing calls: the non-volatile storage of observers, the ETag helpers,
  `DeleteInterfaceSocket`.
* Shortage of memory for single options. `CoAP_AppendOptionToList` loses the
  whole list in one of its cases (`coap_options.c:347`) and most callers ignore
  its result; a list then lacks options the model has.
* Truncated and malformed datagrams: `CoapWire` reads complete ones; a datagram
  that is refused changes no state.
* The wording of representations and logs, the conversion of addresses, the
  SNTP clock of `rtc_res.c`, the configuration file and the SDK calls.
* Handlers that write into the payload's buffer at its very end
  (`wifi_scan_res.c` and `wifi_cfg_res.c` terminate their strings one byte
  behind the block): a block is as long as its contents.
* Liveness of transfers: that a client which keeps asking gets to the end is
  stated as `EveryAnswerContinues`, one step at a time. Under fairness TLC
  would have to evaluate ENABLED of actions that build datagrams byte by byte,
  for which the instance is too large.

What further work could add:

1. An abstract confirmable transmission (sent, answered or given up after at most
   `MAX_RETRANSMIT` retries), implemented by the server, notification and client
   roles through a refinement mapping.
2. A pending notification's `pObserver` after its client registered again.
