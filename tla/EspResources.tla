----------------------------- MODULE EspResources -----------------------------
(***************************************************************************)
(* Two example resources on the ESP8266 interface.                         *)
(*                                                                         *)
(* wifi/scan (wifi_scan_res.c): a GET starts a scan of the networks and is *)
(* postponed; the SDK reports the end of the scan in a callback, which     *)
(* leaves the result in the memory pool for the next call of the handler.  *)
(* The handler is called again for every postponed request.  Requests are  *)
(* confirmable here, so a first postponement is acknowledged.              *)
(*                                                                         *)
(* esp8266/led_gpio12 (led_res.c): a POST switches the LED and notifies    *)
(* the observer, as the notification role does (CoapNotify): a new         *)
(* notification takes the state at once, one under way is flagged and      *)
(* refreshed by the main loop.  The observer is registered from the start. *)
(***************************************************************************)
EXTENDS EspInterface

CONSTANTS
  Clients,     \* who ask for a scan
  MaxAsks,     \* bound: requests for a scan
  MaxSwitches  \* bound: changes of the LED

ASSUME ResourcesAssumption == MaxAsks \in Nat /\ MaxSwitches \in Nat

VARIABLES
  ScanState,
  scanning,        \* whether the SDK scans
  pScanResultStr,  \* the result: a block of the pool, or NULL
  blocks,          \* the blocks of the pool that hold results
  ask,             \* each client's request and its response
  asks,            \* requests so far
  LedState,
  note,            \* the notification to the observer of the LED
  seen,            \* the state the observer was last told
  switches         \* changes of the LED so far

scanVars == <<ScanState, scanning, pScanResultStr, blocks, ask, asks>>
ledVars == <<LedState, note, seen, switches>>
resourcesVars == <<interfaceVars, scanVars, ledVars>>

Block == 1..Cardinality(Clients) + 1
ASSUME NoResult == NULL \notin Block
NoAsk == [st |-> "NONE", Payload |-> NULL]
NoNote == [st |-> "NONE", shows |-> TRUE, upd |-> FALSE]

Released(c) == IF ask[c].Payload = NULL THEN blocks ELSE blocks \ {ask[c].Payload}

(***************************************************************************)
(* wifi/scan.                                                              *)
(***************************************************************************)
Ask(c) ==
  /\ PacketComesIn /\ ask[c].st = "NONE" /\ asks < MaxAsks
  /\ ask' = [ask EXCEPT ![c].st = "WAITING"] /\ asks' = asks + 1
  /\ UNCHANGED <<interfaceVars, ScanState, scanning, pScanResultStr, blocks, ledVars>>

\* The handler has no result yet; wifi_station_scan is external: it starts.
NeedsTime ==
  /\ ScanState \in {"IDLE", "RUNNING"} /\ ScanState' = "RUNNING"
  /\ scanning' = (scanning \/ ScanState = "IDLE")

\* An empty ACK goes out; if that is refused the request is dropped.
PostponeFirst(c) ==
  /\ ask[c].st = "WAITING" /\ NeedsTime
  /\ \E ok \in BOOLEAN :
       /\ SendDatagram(ok)
       /\ ask' = [ask EXCEPT ![c].st = IF ok THEN "ACKED" ELSE "NONE"]
  /\ UNCHANGED <<pScanResultStr, blocks, asks, ledVars>>

PostponeAgain(c) ==
  /\ ask[c].st = "ACKED" /\ NeedsTime
  /\ UNCHANGED <<interfaceVars, pScanResultStr, blocks, ask, asks, ledVars>>

\* The response points to the block str, which goes when the response goes:
\* at once if it is refused.
Respond(c, str) ==
  \E ok \in BOOLEAN :
    /\ SendDatagram(ok)
    /\ ask' = [ask EXCEPT ![c] = IF ok THEN [st |-> "ANSWERED", Payload |-> str]
                                 ELSE NoAsk]
    /\ blocks' = IF ok \/ str = NULL THEN blocks ELSE blocks \ {str}
    /\ UNCHANGED <<pScanResultStr, asks, ledVars>>

\* Postponed for too long: 5.03.
PostponedTooLong(c) == ask[c].st = "ACKED" /\ NeedsTime /\ Respond(c, NULL)

\* Variant of AnswerResult: the result is kept for who asks next.
AnswerResultAgain(c) ==
  /\ ask[c].st \in {"WAITING", "ACKED"} /\ ScanState = "DONE_OK"
  /\ UNCHANGED <<ScanState, scanning>>
  /\ Respond(c, pScanResultStr)

\* The pointer is left as it is.  With a block size too small for the result
\* the response is 4.02, written over it.
AnswerResult(c) ==
  /\ ask[c].st \in {"WAITING", "ACKED"} /\ ScanState = "DONE_OK"
  /\ ScanState' = "IDLE" /\ UNCHANGED scanning
  /\ Respond(c, pScanResultStr)

AnswerFailure(c) ==
  /\ ask[c].st \in {"WAITING", "ACKED"} /\ ScanState = "DONE_FAIL"
  /\ ScanState' = "IDLE" /\ UNCHANGED scanning
  /\ Respond(c, NULL)

CallHandler(c) ==
  /\ MainLoopRuns
  /\ \/ PostponeFirst(c) \/ PostponeAgain(c)
     \/ AnswerResult(c) \/ AnswerFailure(c)

GiveUp(c) == MainLoopRuns /\ PostponedTooLong(c)

\* CoAP_free_MsgPayload, when the response is acknowledged or given up.
FreeResponse(c) ==
  /\ MainLoopRuns /\ ask[c].st = "ANSWERED"
  /\ blocks' = Released(c) /\ ask' = [ask EXCEPT ![c] = NoAsk]
  /\ UNCHANGED <<interfaceVars, ScanState, scanning, pScanResultStr, asks, ledVars>>

\* Variant of scan_done: a scan that failed is not reported.
scan_done_unreported ==
  /\ scanning /\ scanning' = FALSE
  /\ \/ /\ ScanState' = "DONE_OK"
        /\ \E b \in Block \ blocks : pScanResultStr' = b /\ blocks' = blocks \cup {b}
     \/ UNCHANGED <<ScanState, pScanResultStr, blocks>>
  /\ UNCHANGED <<interfaceVars, ask, asks, ledVars>>

\* The SDK reports the end of a scan: a result, or FAIL or CANCEL.
scan_done ==
  /\ scanning /\ scanning' = FALSE
  /\ \/ /\ ScanState' = "DONE_OK"
        /\ \E b \in Block \ blocks : pScanResultStr' = b /\ blocks' = blocks \cup {b}
     \/ ScanState' = "DONE_FAIL" /\ UNCHANGED <<pScanResultStr, blocks>>
  /\ UNCHANGED <<interfaceVars, ask, asks, ledVars>>

(***************************************************************************)
(* esp8266/led_gpio12.                                                     *)
(***************************************************************************)
\* CoAP_NotifyResourceObservers, which calls the Notifier: it shows LedState.
NotifyObserver ==
  CASE note.st = "NONE" -> [st |-> "READY", shows |-> LedState, upd |-> FALSE]
    [] note.st \in {"READY", "SENT", "ACKED"} -> [note EXCEPT !.upd = TRUE]
    [] OTHER -> note

\* led: first the observer is notified, then the new state is stored.
Switch(onOff) ==
  /\ MainLoopRuns /\ switches < MaxSwitches /\ switches' = switches + 1
  /\ IF onOff = LedState THEN UNCHANGED <<note, LedState>>
     ELSE note' = NotifyObserver /\ LedState' = onOff
  /\ \E ok \in BOOLEAN : SendDatagram(ok)
  /\ UNCHANGED <<scanVars, seen>>

\* A refused notification ends with the observation.
SendNote ==
  /\ MainLoopRuns /\ note.st = "READY"
  /\ \E ok \in BOOLEAN :
       /\ SendDatagram(ok)
       /\ note' = [note EXCEPT !.st = IF ok THEN "SENT" ELSE "OVER"]
  /\ UNCHANGED <<scanVars, LedState, seen, switches>>

AckNote ==
  /\ PacketComesIn /\ note.st = "SENT"
  /\ note' = [note EXCEPT !.st = "ACKED"] /\ seen' = note.shows
  /\ UNCHANGED <<interfaceVars, scanVars, LedState, switches>>

\* Acknowledged: the notification is refreshed if it was flagged, or ends.
EndNote ==
  /\ MainLoopRuns /\ note.st = "ACKED"
  /\ note' = IF note.upd THEN [st |-> "READY", shows |-> LedState, upd |-> FALSE]
             ELSE NoNote
  /\ UNCHANGED <<interfaceVars, scanVars, LedState, seen, switches>>

(***************************************************************************)
(* The specification.                                                      *)
(***************************************************************************)
ResourcesInit ==
  /\ InterfaceInit
  /\ ScanState = "IDLE" /\ scanning = FALSE /\ pScanResultStr = NULL /\ blocks = {}
  /\ ask = [c \in Clients |-> NoAsk] /\ asks = 0
  /\ LedState = TRUE /\ note = NoNote /\ seen = TRUE /\ switches = 0

ResourcesNext ==
  \/ \E c \in Clients : Ask(c) \/ CallHandler(c) \/ GiveUp(c) \/ FreeResponse(c)
  \/ scan_done
  \/ \E onOff \in BOOLEAN : Switch(onOff)
  \/ SendNote \/ AckNote \/ EndNote
  \/ AnswerPacket /\ UNCHANGED <<scanVars, ledVars>>
  \/ udp_sent_cb /\ UNCHANGED <<scanVars, ledVars>>

\* The SDK reports datagrams and scans.  The main loop serves every request
\* again and again; it finds the flag up and down, so its fairness is strong.
ResourcesFairness ==
  /\ WF_resourcesVars(udp_sent_cb /\ UNCHANGED <<scanVars, ledVars>>)
  /\ WF_resourcesVars(scan_done)
  /\ \A c \in Clients : SF_resourcesVars(CallHandler(c))

ResourcesSpec ==
  ResourcesInit /\ [][ResourcesNext]_resourcesVars /\ ResourcesFairness

(***************************************************************************)
(* Properties.                                                             *)
(***************************************************************************)
\* The variables of the interface and of the scan have their types.
ResourcesTypeOK ==
  /\ SocketMemory \in [SlotNo -> [Alive : BOOLEAN, Handle : 0..1, ifID : {0}]]
  /\ TxSocketIdle \in BOOLEAN /\ flying \in 0..MaxFlying
  /\ ScanState \in {"IDLE", "RUNNING", "DONE_OK", "DONE_FAIL"}
  /\ scanning \in BOOLEAN
  /\ pScanResultStr \in Block \cup {NULL} /\ blocks \subseteq Block
  /\ ask \in [Clients -> [st : {"NONE", "WAITING", "ACKED", "ANSWERED"},
                         Payload : Block \cup {NULL}]]
  /\ asks \in 0..MaxAsks

\* The main loop is shut out only while a datagram is on its way, whose report
\* lets it in again: no refused or concurrent send leaves the flag down
\* (CoAP_ESP8266_SendDatagram, udp_sent_cb).
GateShutOnlyWhileSending == ~TxSocketIdle => flying > 0

\* The result of a scan is in one pair of hands: those of the resource until a
\* client has asked for it, then those of one response.  No block is given
\* back twice, and none is forgotten (ScanState, pScanResultStr).
Held(c) == {ask[c].Payload} \ {NULL}
HeldByResource == IF ScanState = "DONE_OK" THEN {pScanResultStr} ELSE {}
ScanResultOwned ==
  /\ blocks = HeldByResource \cup UNION {Held(c) : c \in Clients}
  /\ NULL \notin HeldByResource
  /\ \A c \in Clients : HeldByResource \cap Held(c) = {}
  /\ \A c, d \in Clients : c # d => Held(c) \cap Held(d) = {}

\* Every request for a scan is answered, even if the stack never gave it up:
\* neither other clients that take the results, nor scans that fail, nor packets
\* whose answers shut the main loop out put it off for ever.
EveryAskEnds ==
  \A c \in Clients :
    ask[c].st \in {"WAITING", "ACKED"} ~> ask[c].st \in {"NONE", "ANSWERED"}

\* "Notify all observers of change" (led_res.c:37): when nothing is under way the
\* observer has been told the state the LED is in.
ObserverKnowsLed == note.st = "NONE" => seen = LedState
=============================================================================
