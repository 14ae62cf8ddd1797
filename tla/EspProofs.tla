------------------------------- MODULE EspProofs -------------------------------
(***************************************************************************)
(* The resources on the ESP8266 interface, for any number of clients,      *)
(* sockets, datagrams under way and requests: the types, the gate of the   *)
(* main loop, and who owns the result of a scan.                           *)
(*                                                                         *)
(* ScanResultOwned is not inductive alone.  A response may take the place  *)
(* of the old one only because a request that waits has no response yet,   *)
(* and the callback may overwrite pScanResultStr only because no result    *)
(* lies there while the SDK scans: ScanPart adds both.                     *)
(***************************************************************************)
EXTENDS EspResources, TLAPS

WaitsForResponse ==
  \A c \in Clients : ask[c].st # "ANSWERED" => ask[c].Payload = NULL
ScansOnlyWhileRunning == scanning => ScanState = "RUNNING"
InterfaceTypeOK ==
  /\ SocketMemory \in [SlotNo -> [Alive : BOOLEAN, Handle : 0..1, ifID : {0}]]
  /\ TxSocketIdle \in BOOLEAN /\ flying \in 0..MaxFlying

ScanTypeOK ==
  /\ ScanState \in {"IDLE", "RUNNING", "DONE_OK", "DONE_FAIL"}
  /\ scanning \in BOOLEAN
  /\ pScanResultStr \in Block \cup {NULL} /\ blocks \subseteq Block
  /\ ask \in [Clients -> [st : {"NONE", "WAITING", "ACKED", "ANSWERED"},
                         Payload : Block \cup {NULL}]]
  /\ asks \in 0..MaxAsks

ScanPart == ScanTypeOK /\ WaitsForResponse /\ ScansOnlyWhileRunning /\ ScanResultOwned

USE InterfaceAssumption, ResourcesAssumption, NoResult

LEMMA TypeParts == ResourcesTypeOK <=> InterfaceTypeOK /\ ScanTypeOK
BY DEF ResourcesTypeOK, InterfaceTypeOK, ScanTypeOK

(***************************************************************************)
(* The interface.                                                          *)
(***************************************************************************)
\* The table after the creation of the socket.
LEMMA SocketCreated ==
  ASSUME NEW up \in BOOLEAN
  PROVE  CreateInterfaceSocket([i \in SlotNo |-> DeadSocket], 0, 1, up)
           \in [SlotNo -> [Alive : BOOLEAN, Handle : 0..1, ifID : {0}]]
<1> DEFINE table == [i \in SlotNo |-> DeadSocket]
           Socket == [Alive : BOOLEAN, Handle : 0..1, ifID : {0}]
<1>1. table \in [SlotNo -> Socket]
  BY DEF DeadSocket
<1>2. [Alive |-> TRUE, Handle |-> 1, ifID |-> 0] \in Socket
  OBVIOUS
<1>3. ASSUME NEW i
      PROVE  [table EXCEPT ![i] = [Alive |-> TRUE, Handle |-> 1, ifID |-> 0]]
               \in [SlotNo -> Socket]
  <2> HIDE DEF table, Socket
  <2> QED BY <1>1, <1>2
<1> HIDE DEF table
<1>4. CreateInterfaceSocket(table, 0, 1, up) \in [SlotNo -> Socket]
  <2> HIDE DEF Socket
  <2> QED BY <1>1, <1>3 DEF CreateInterfaceSocket
<1> QED BY <1>4 DEF table

\* Sending keeps the types, and a gate that is shut has its datagram.
LEMMA SendKeepsGate ==
  ASSUME InterfaceTypeOK, GateShutOnlyWhileSending,
         NEW ok \in BOOLEAN, SendDatagram(ok)
  PROVE  InterfaceTypeOK' /\ GateShutOnlyWhileSending'
<1>1. CASE SendTaken
  <2>1. flying' \in 0..MaxFlying /\ flying' > 0
    BY <1>1 DEF SendTaken, InterfaceTypeOK
  <2>2. TxSocketIdle' = FALSE /\ SocketMemory' = SocketMemory
    BY <1>1 DEF SendTaken
  <2> QED BY <2>1, <2>2, Zenon DEF InterfaceTypeOK, GateShutOnlyWhileSending
<1>2. CASE SendRefused
  BY <1>2 DEF SendRefused, InterfaceTypeOK, GateShutOnlyWhileSending
<1>3. CASE NoSocket
  BY <1>3 DEF NoSocket, interfaceVars, InterfaceTypeOK, GateShutOnlyWhileSending
<1> QED BY <1>1, <1>2, <1>3 DEF SendDatagram

LEMMA ReportKeepsGate ==
  ASSUME InterfaceTypeOK, GateShutOnlyWhileSending, udp_sent_cb
  PROVE  InterfaceTypeOK' /\ GateShutOnlyWhileSending'
BY DEF udp_sent_cb, InterfaceTypeOK, GateShutOnlyWhileSending

LEMMA IdleInterface ==
  ASSUME InterfaceTypeOK, GateShutOnlyWhileSending, UNCHANGED interfaceVars
  PROVE  InterfaceTypeOK' /\ GateShutOnlyWhileSending'
BY DEF interfaceVars, InterfaceTypeOK, GateShutOnlyWhileSending

\* Every step sends one datagram, reports one, or leaves the interface alone.
LEMMA StepOnInterface ==
  ASSUME ResourcesNext
  PROVE  \/ \E ok \in BOOLEAN : SendDatagram(ok)
         \/ udp_sent_cb
         \/ UNCHANGED interfaceVars
<1>1. ASSUME NEW c \in Clients, Ask(c) \/ CallHandler(c) \/ GiveUp(c) \/ FreeResponse(c)
      PROVE  (\E ok \in BOOLEAN : SendDatagram(ok)) \/ UNCHANGED interfaceVars
  <2>1. CASE Ask(c)
    BY <2>1 DEF Ask
  <2>2. CASE CallHandler(c)
    BY <2>2 DEF CallHandler, PostponeFirst, PostponeAgain, AnswerResult,
                AnswerFailure, Respond
  <2>3. CASE GiveUp(c)
    BY <2>3 DEF GiveUp, PostponedTooLong, Respond
  <2>4. CASE FreeResponse(c)
    BY <2>4 DEF FreeResponse
  <2> QED BY <1>1, <2>1, <2>2, <2>3, <2>4
<1>2. CASE scan_done
  BY <1>2 DEF scan_done
<1>3. ASSUME NEW onOff \in BOOLEAN, Switch(onOff)
      PROVE  \E ok \in BOOLEAN : SendDatagram(ok)
  BY <1>3 DEF Switch
<1>4. CASE SendNote
  BY <1>4 DEF SendNote
<1>5. CASE AckNote \/ EndNote
  BY <1>5 DEF AckNote, EndNote
<1>6. CASE AnswerPacket
  BY <1>6 DEF AnswerPacket
<1> QED BY <1>1, <1>2, <1>3, <1>4, <1>5, <1>6 DEF ResourcesNext

LEMMA GateInit ==
  ASSUME ResourcesInit
  PROVE  InterfaceTypeOK /\ GateShutOnlyWhileSending
<1>1. PICK up \in BOOLEAN :
        SocketMemory = CreateInterfaceSocket([i \in SlotNo |-> DeadSocket], 0, 1, up)
  BY DEF ResourcesInit, InterfaceInit
<1>2. TxSocketIdle = TRUE /\ flying = 0
  BY DEF ResourcesInit, InterfaceInit
<1>3. flying \in 0..MaxFlying
  BY <1>2
<1> QED BY <1>1, <1>2, <1>3, SocketCreated, Zenon
        DEF InterfaceTypeOK, GateShutOnlyWhileSending

LEMMA GateStep ==
  ASSUME InterfaceTypeOK, GateShutOnlyWhileSending, [ResourcesNext]_resourcesVars
  PROVE  InterfaceTypeOK' /\ GateShutOnlyWhileSending'
<1>1. CASE ResourcesNext
  BY <1>1, StepOnInterface, SendKeepsGate, ReportKeepsGate, IdleInterface
<1>2. CASE UNCHANGED resourcesVars
  BY <1>2, IdleInterface DEF resourcesVars
<1> QED BY <1>1, <1>2

\* The main loop is shut out only while a datagram is on its way, for every
\* number of datagrams and whatever is sent beside the main loop
\* (CoAP_ESP8266_SendDatagram, udp_sent_cb).
THEOREM GateCorrect == ResourcesSpec => []GateShutOnlyWhileSending
<1>1. ResourcesInit => InterfaceTypeOK /\ GateShutOnlyWhileSending
  BY GateInit
<1>2. /\ InterfaceTypeOK /\ GateShutOnlyWhileSending
      /\ [ResourcesNext]_resourcesVars
      => InterfaceTypeOK' /\ GateShutOnlyWhileSending'
  BY GateStep
<1> QED BY <1>1, <1>2, PTL DEF ResourcesSpec

(***************************************************************************)
(* The scan.                                                               *)
(***************************************************************************)
LEMMA ScanInit ==
  ASSUME ResourcesInit
  PROVE  /\ ScanTypeOK /\ WaitsForResponse /\ ScansOnlyWhileRunning
         /\ ScanResultOwned
<1>1. ScanTypeOK
  <2>1. ask \in [Clients -> [st : {"NONE", "WAITING", "ACKED", "ANSWERED"},
                            Payload : Block \cup {NULL}]]
    BY DEF ResourcesInit, NoAsk
  <2>2. /\ ScanState = "IDLE" /\ scanning = FALSE /\ asks = 0
        /\ pScanResultStr = NULL /\ blocks = {}
    BY DEF ResourcesInit
  <2>3. asks \in 0..MaxAsks
    BY <2>2
  <2> QED BY <2>1, <2>2, <2>3, Zenon DEF ScanTypeOK
<1>2. WaitsForResponse /\ ScansOnlyWhileRunning
  BY DEF ResourcesInit, NoAsk, WaitsForResponse, ScansOnlyWhileRunning
<1>3. HeldByResource = {} /\ \A c \in Clients : Held(c) = {}
  BY DEF ResourcesInit, NoAsk, HeldByResource, Held
<1>4. blocks = {}
  BY DEF ResourcesInit
<1> QED BY <1>1, <1>2, <1>3, <1>4 DEF ScanResultOwned

\* A step that leaves blocks and responses where they are.
LEMMA NobodyGivesOrTakes ==
  ASSUME ScanResultOwned, blocks' = blocks, HeldByResource' = HeldByResource,
         \A c \in Clients : ask'[c].Payload = ask[c].Payload
  PROVE  ScanResultOwned'
<1>1. \A c \in Clients : Held(c)' = Held(c)
  BY DEF Held
<1> QED BY <1>1 DEF ScanResultOwned

LEMMA AskKeeps ==
  ASSUME ScanPart, NEW c \in Clients, Ask(c)
  PROVE  ScanPart'
<1> USE DEF ScanPart
<1>1. ask' = [ask EXCEPT ![c].st = "WAITING"] /\ asks' \in 0..MaxAsks
  BY DEF Ask, ScanTypeOK
<1>2. UNCHANGED <<ScanState, scanning, pScanResultStr, blocks>> /\ ask[c].st = "NONE"
  BY DEF Ask
<1>3. ScanTypeOK'
  BY <1>1, <1>2 DEF ScanTypeOK
<1>4. WaitsForResponse' /\ ScansOnlyWhileRunning'
  BY <1>1, <1>2 DEF ScanTypeOK, WaitsForResponse, ScansOnlyWhileRunning
<1>5. ScanResultOwned'
  BY <1>1, <1>2, NobodyGivesOrTakes DEF ScanTypeOK, HeldByResource
<1> QED BY <1>3, <1>4, <1>5

LEMMA PostponeKeeps ==
  ASSUME ScanPart, NEW c \in Clients, PostponeFirst(c) \/ PostponeAgain(c)
  PROVE  ScanPart'
<1> USE DEF ScanPart
<1>1. PICK st \in {"NONE", "WAITING", "ACKED"} : ask' = [ask EXCEPT ![c].st = st]
  BY DEF PostponeFirst, PostponeAgain, ScanTypeOK
<1>2. ask[c].st # "ANSWERED" /\ UNCHANGED <<pScanResultStr, blocks, asks>>
  BY DEF PostponeFirst, PostponeAgain
<1>3. ScanState' = "RUNNING" /\ scanning' \in BOOLEAN /\ ScanState # "DONE_OK"
  BY DEF PostponeFirst, PostponeAgain, NeedsTime, ScanTypeOK
<1>4. ScanTypeOK'
  BY <1>1, <1>2, <1>3 DEF ScanTypeOK
<1>5. WaitsForResponse' /\ ScansOnlyWhileRunning'
  BY <1>1, <1>2, <1>3 DEF ScanTypeOK, WaitsForResponse, ScansOnlyWhileRunning
<1>6. ScanResultOwned'
  BY <1>1, <1>2, <1>3, NobodyGivesOrTakes DEF ScanTypeOK, HeldByResource
<1> QED BY <1>4, <1>5, <1>6

\* A response takes the block the resource held, or none; refused, it gives
\* the block back.
LEMMA RespondKeeps ==
  ASSUME ScanPart, NEW c \in Clients, ask[c].st \in {"WAITING", "ACKED"},
         NEW str \in Block \cup {NULL}, Respond(c, str),
         HeldByResource = {str} \ {NULL}, HeldByResource' = {}
  PROVE  ScanResultOwned' /\ WaitsForResponse' /\ asks' = asks
         /\ pScanResultStr' = pScanResultStr /\ blocks' \subseteq Block
         /\ ask' \in [Clients -> [st : {"NONE", "WAITING", "ACKED", "ANSWERED"},
                                  Payload : Block \cup {NULL}]]
<1> USE DEF ScanPart
<1>1. PICK ok \in BOOLEAN :
        /\ ask' = [ask EXCEPT ![c] = IF ok THEN [st |-> "ANSWERED", Payload |-> str]
                                     ELSE NoAsk]
        /\ blocks' = IF ok \/ str = NULL THEN blocks ELSE blocks \ {str}
  BY DEF Respond
<1>2. ask[c].Payload = NULL
  BY DEF WaitsForResponse
<1>3. asks' = asks /\ pScanResultStr' = pScanResultStr /\ blocks' \subseteq Block
  BY <1>1 DEF Respond, ScanTypeOK
<1>4. ask' \in [Clients -> [st : {"NONE", "WAITING", "ACKED", "ANSWERED"},
                            Payload : Block \cup {NULL}]]
  BY <1>1 DEF ScanTypeOK, NoAsk
<1>5. WaitsForResponse'
  BY <1>1 DEF ScanTypeOK, NoAsk, WaitsForResponse
<1>6. ScanResultOwned'
  <2>1. /\ Held(c) = {}
        /\ Held(c)' = IF ok THEN {str} \ {NULL} ELSE {}
        /\ \A d \in Clients : d # c => Held(d)' = Held(d)
    BY <1>1, <1>2 DEF ScanTypeOK, Held, NoAsk
  <2>2. blocks' = UNION {Held(d)' : d \in Clients}
    BY <1>1, <2>1 DEF ScanResultOwned
  <2>3. \A d, e \in Clients : d # e => Held(d)' \cap Held(e)' = {}
    BY <2>1 DEF ScanResultOwned
  <2> QED BY <2>2, <2>3 DEF ScanResultOwned
<1> QED BY <1>3, <1>4, <1>5, <1>6

LEMMA AnswerKeeps ==
  ASSUME ScanPart, NEW c \in Clients,
         AnswerResult(c) \/ AnswerFailure(c) \/ PostponedTooLong(c)
  PROVE  ScanPart'
<1> USE DEF ScanPart
<1>1. CASE AnswerResult(c)
  <2>1. /\ ScanState = "DONE_OK" /\ ScanState' = "IDLE" /\ scanning' = scanning
        /\ ask[c].st \in {"WAITING", "ACKED"} /\ Respond(c, pScanResultStr)
    BY <1>1 DEF AnswerResult
  <2>2. HeldByResource = {pScanResultStr} \ {NULL} /\ HeldByResource' = {}
    BY <2>1 DEF HeldByResource, ScanResultOwned
  <2>3. pScanResultStr \in Block \cup {NULL}
    BY DEF ScanTypeOK
  <2>4. ~scanning
    BY <2>1 DEF ScansOnlyWhileRunning
  <2> QED BY <2>1, <2>2, <2>3, <2>4, RespondKeeps DEF ScanTypeOK, ScansOnlyWhileRunning
<1>2. CASE AnswerFailure(c)
  <2>1. /\ ScanState = "DONE_FAIL" /\ ScanState' = "IDLE" /\ scanning' = scanning
        /\ ask[c].st \in {"WAITING", "ACKED"} /\ Respond(c, NULL)
    BY <1>2 DEF AnswerFailure
  <2>2. HeldByResource = {NULL} \ {NULL} /\ HeldByResource' = {}
    BY <2>1 DEF HeldByResource
  <2>3. ~scanning
    BY <2>1 DEF ScansOnlyWhileRunning
  <2> QED BY <2>1, <2>2, <2>3, RespondKeeps DEF ScanTypeOK, ScansOnlyWhileRunning
<1>3. CASE PostponedTooLong(c)
  <2>1. /\ ScanState \in {"IDLE", "RUNNING"} /\ ScanState' = "RUNNING"
        /\ scanning' \in BOOLEAN
        /\ ask[c].st \in {"WAITING", "ACKED"} /\ Respond(c, NULL)
    BY <1>3 DEF PostponedTooLong, NeedsTime, ScanTypeOK
  <2>2. HeldByResource = {NULL} \ {NULL} /\ HeldByResource' = {}
    BY <2>1 DEF HeldByResource
  <2> QED BY <2>1, <2>2, RespondKeeps DEF ScanTypeOK, ScansOnlyWhileRunning
<1> QED BY <1>1, <1>2, <1>3

LEMMA FreeKeeps ==
  ASSUME ScanPart, NEW c \in Clients, FreeResponse(c)
  PROVE  ScanPart'
<1> USE DEF ScanPart
<1>1. /\ ask' = [ask EXCEPT ![c] = NoAsk] /\ blocks' = blocks \ Held(c)
      /\ UNCHANGED <<ScanState, scanning, pScanResultStr, asks>>
  BY DEF FreeResponse, Released, Held
<1>2. ScanTypeOK'
  BY <1>1 DEF ScanTypeOK, NoAsk
<1>3. WaitsForResponse' /\ ScansOnlyWhileRunning'
  BY <1>1 DEF ScanTypeOK, WaitsForResponse, ScansOnlyWhileRunning, NoAsk
<1>4. ScanResultOwned'
  <2>1. Held(c)' = {} /\ \A d \in Clients : d # c => Held(d)' = Held(d)
    BY <1>1 DEF ScanTypeOK, Held, NoAsk
  <2>2. HeldByResource' = HeldByResource
    BY <1>1 DEF HeldByResource
  <2>3. blocks' = HeldByResource' \cup UNION {Held(d)' : d \in Clients}
    BY <1>1, <2>1, <2>2 DEF ScanResultOwned
  <2> QED BY <2>1, <2>2, <2>3 DEF ScanResultOwned
<1> QED BY <1>2, <1>3, <1>4

LEMMA ScanDoneKeeps ==
  ASSUME ScanPart, scan_done
  PROVE  ScanPart'
<1> USE DEF ScanPart
<1>1. /\ ScanState = "RUNNING" /\ scanning' = FALSE /\ UNCHANGED <<ask, asks>>
      /\ HeldByResource = {} /\ \A c \in Clients : Held(c)' = Held(c)
  BY DEF scan_done, ScansOnlyWhileRunning, HeldByResource, Held
<1>2. WaitsForResponse' /\ ScansOnlyWhileRunning'
  BY <1>1 DEF WaitsForResponse, ScansOnlyWhileRunning
<1>3. ASSUME NEW b \in Block \ blocks, ScanState' = "DONE_OK",
             pScanResultStr' = b, blocks' = blocks \cup {b}
      PROVE  ScanTypeOK' /\ ScanResultOwned'
  <2>1. HeldByResource' = {b}
    BY <1>3 DEF HeldByResource
  <2>2. ScanTypeOK'
    BY <1>1, <1>3 DEF ScanTypeOK
  <2>3. \A c \in Clients : b \notin Held(c)
    BY DEF ScanResultOwned
  <2> QED BY <1>1, <1>3, <2>1, <2>2, <2>3 DEF ScanResultOwned
<1>4. ASSUME ScanState' = "DONE_FAIL", UNCHANGED <<pScanResultStr, blocks>>
      PROVE  ScanTypeOK' /\ ScanResultOwned'
  <2>1. HeldByResource' = {}
    BY <1>4 DEF HeldByResource
  <2>2. ScanTypeOK'
    BY <1>1, <1>4 DEF ScanTypeOK
  <2> QED BY <1>1, <1>4, <2>1, <2>2 DEF ScanResultOwned
<1> QED BY <1>2, <1>3, <1>4 DEF scan_done

LEMMA ScanUntouched ==
  ASSUME ScanPart, UNCHANGED scanVars
  PROVE  ScanPart'
BY DEF ScanPart, scanVars, ScanTypeOK, WaitsForResponse, ScansOnlyWhileRunning,
       ScanResultOwned, HeldByResource, Held

LEMMA ScanStep ==
  ASSUME ScanPart, [ResourcesNext]_resourcesVars
  PROVE  ScanPart'
<1>1. ASSUME NEW c \in Clients, Ask(c) \/ CallHandler(c) \/ GiveUp(c) \/ FreeResponse(c)
      PROVE  ScanPart'
  BY <1>1, AskKeeps, PostponeKeeps, AnswerKeeps, FreeKeeps DEF CallHandler, GiveUp
<1>2. ASSUME \/ \E onOff \in BOOLEAN : Switch(onOff)
             \/ SendNote \/ AckNote \/ EndNote
      PROVE  UNCHANGED scanVars
  BY <1>2 DEF Switch, SendNote, AckNote, EndNote
<1>3. UNCHANGED resourcesVars => UNCHANGED scanVars
  BY DEF resourcesVars
<1> QED BY <1>1, <1>2, <1>3, ScanDoneKeeps, ScanUntouched DEF ResourcesNext

\* The result of a scan is in one pair of hands, for any number of clients:
\* no block is given back twice, none is forgotten (scan_done in
\* wifi_scan_res.c, CoAP_free_MsgPayload).
THEOREM ScanResultCorrect == ResourcesSpec => []ScanResultOwned
<1>1. ResourcesInit => ScanPart
  BY ScanInit DEF ScanPart
<1>2. ScanPart /\ [ResourcesNext]_resourcesVars => ScanPart'
  BY ScanStep
<1>3. ScanPart => ScanResultOwned
  BY DEF ScanPart
<1> QED BY <1>1, <1>2, <1>3, PTL DEF ResourcesSpec

\* The variables of the interface and of the scan keep their types, for any
\* number of clients, sockets and datagrams.
THEOREM ResourcesTypeCorrect == ResourcesSpec => []ResourcesTypeOK
<1> DEFINE Inv == InterfaceTypeOK /\ GateShutOnlyWhileSending /\ ScanPart
<1>1. ResourcesInit => Inv
  BY GateInit, ScanInit DEF ScanPart
<1>2. Inv /\ [ResourcesNext]_resourcesVars => Inv'
  BY GateStep, ScanStep
<1>3. Inv => ResourcesTypeOK
  BY TypeParts DEF ScanPart
<1> HIDE DEF Inv
<1> QED BY <1>1, <1>2, <1>3, PTL DEF ResourcesSpec
=============================================================================
