----------------------------- MODULE EspInterface -----------------------------
(***************************************************************************)
(* The ESP8266 interface of the Lobaro stack (coap_if_Socket.c,            *)
(* lobaro-coap_esp8266.c) and the gate of the main loop (server.c): the    *)
(* table of sockets, and the flag TxSocketIdle.  It falls when a datagram  *)
(* is handed to the UDP connection and rises in the callback that reports  *)
(* it sent.  While it is down the main loop does nothing, but the packet   *)
(* handler sends whenever a packet asks for it.                            *)
(*                                                                         *)
(* The SDK is external: it takes or refuses a datagram, and reports every  *)
(* datagram it took.                                                       *)
(***************************************************************************)
EXTENDS Integers, Sequences, FiniteSets

CONSTANTS
  NULL,                \* a model value: no socket, no result
  MAX_ACTIVE_SOCKETS,
  MaxFlying            \* bound: datagrams the SDK holds at a time

ASSUME InterfaceAssumption ==
  MAX_ACTIVE_SOCKETS \in Nat \ {0} /\ MaxFlying \in Nat \ {0}

VARIABLES
  SocketMemory,  \* the table
  TxSocketIdle,
  flying         \* datagrams handed to the SDK and not yet reported

interfaceVars == <<SocketMemory, TxSocketIdle, flying>>

SlotNo == 1..MAX_ACTIVE_SOCKETS
DeadSocket == [Alive |-> FALSE, Handle |-> 0, ifID |-> 0]

\* The first slot of those that fit, or NULL.
FirstOf(fit) ==
  IF fit = {} THEN NULL ELSE CHOOSE i \in fit : \A j \in fit : i <= j

AllocSocket(table) == FirstOf({i \in SlotNo : ~table[i].Alive})
RetrieveSocket(handle) ==
  FirstOf({i \in SlotNo : SocketMemory[i].Alive /\ SocketMemory[i].Handle = handle})
RetrieveSocket2(table, id) ==
  FirstOf({i \in SlotNo : table[i].Alive /\ table[i].ifID = id})

\* up: whether the SDK creates the connection.  The result goes unchecked.
CreateInterfaceSocket(table, id, handle, up) ==
  IF RetrieveSocket2(table, id) # NULL \/ AllocSocket(table) = NULL \/ ~up
  THEN table
  ELSE [table EXCEPT ![AllocSocket(table)] =
          [Alive |-> TRUE, Handle |-> handle, ifID |-> id]]

\* init_done: one socket, interface 0 on the connection 1.
InterfaceInit ==
  /\ \E up \in BOOLEAN :
       SocketMemory =
         CreateInterfaceSocket([i \in SlotNo |-> DeadSocket], 0, 1, up)
  /\ TxSocketIdle = TRUE /\ flying = 0

SendTaken ==
  /\ RetrieveSocket2(SocketMemory, 0) # NULL /\ flying < MaxFlying
  /\ TxSocketIdle' = FALSE /\ flying' = flying + 1
  /\ UNCHANGED SocketMemory

\* Variant of SendRefused: the flag stays down.
SendRefusedGateShut ==
  /\ RetrieveSocket2(SocketMemory, 0) # NULL
  /\ TxSocketIdle' = FALSE
  /\ UNCHANGED <<SocketMemory, flying>>

SendRefused ==
  /\ RetrieveSocket2(SocketMemory, 0) # NULL
  /\ TxSocketIdle' = TRUE
  /\ UNCHANGED <<SocketMemory, flying>>

NoSocket == RetrieveSocket2(SocketMemory, 0) = NULL /\ UNCHANGED interfaceVars

\* CoAP_ESP8266_SendDatagram: it returns true, or false.
SendDatagram(ok) == IF ok THEN SendTaken ELSE SendRefused \/ NoSocket

udp_sent_cb ==
  /\ flying > 0 /\ flying' = flying - 1 /\ TxSocketIdle' = TRUE
  /\ UNCHANGED SocketMemory

\* mainLoopTimer_cb calls CoAP_doWork only when the flag is up.
MainLoopRuns == TxSocketIdle

\* udp_recv_cb gives a packet to the stack if its connection has a socket.
PacketComesIn == RetrieveSocket(1) # NULL

\* The packet handler acknowledges or rejects a packet, or says nothing.
AnswerPacket == PacketComesIn /\ \E ok \in BOOLEAN : SendDatagram(ok)
=============================================================================
