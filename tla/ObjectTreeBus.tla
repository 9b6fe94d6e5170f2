---------------------------- MODULE ObjectTreeBus ----------------------------
(***************************************************************************)
(* A master and its clients on one CAN bus: identifiers that carry message *)
(* type, source and target (can/CanPackages.h), filters that let a device  *)
(* see what is addressed to it (SocketCanInterface.hpp,                    *)
(* Stm32HalCanInterface.hpp), and object trees that are read and written   *)
(* by the numbers of their nodes (SOTMaster.h, SOTClient.h).               *)
(*                                                                         *)
(* A step is the processing of one frame or one call of an application, as *)
(* in SOTLink, which this module implements: there each client has a       *)
(* channel of its own and frames carry nodes.  A generated protocol sends  *)
(* no _meta values (GenCode.h:165-166).                                    *)
(*                                                                         *)
(* A value stands for who gave it, and for which node of which client.     *)
(***************************************************************************)
EXTENDS ProtocolTables

CONSTANTS
  Client,        \* device ids of the clients, of three bits
  Node,          \* value nodes
  NodesOf,       \* the def file each device was generated from: its nodes
  Size,          \* bytes of the value of each node
  NoNode,        \* for SOTLink: the node of a frame that has none
  Unset,         \* the value of a node that nobody has written
  MaxReconnect,  \* bound: calls of reconnectToClient
  MaxRestarts,   \* bound: restarts of the master
  MaxSend        \* bound: values and read requests sent by the applications

Master == 0
Device == Client \cup {Master}

ASSUME ClientAssumption == Client \subseteq 1 .. 7
ASSUME BoundAssumption == {MaxReconnect, MaxRestarts, MaxSend} \subseteq Nat

(* The nodes in a device's program.  The compiler refuses two nodes of one *)
(* path, the tool more than a byte can number.                             *)
NodesIn(device) == {NodesOf[device][i] : i \in DOMAIN NodesOf[device]}

ASSUME NodesAssumption ==
  /\ NodesOf \in [Device -> Seq(Node)]
  /\ \A d \in Device :
       /\ Len(NodesOf[d]) < NodeLimit
       /\ \A i, j \in 1 .. Len(NodesOf[d]) : NodesOf[d][i] = NodesOf[d][j] => i = j
  /\ Size \in [Node -> 1 .. 4]
  /\ {NoNode, NotFound, BehindTable} \cap Node = {}

VARIABLES
  clients,         \* SOTMaster::clients, the keys of the map
  mState,          \* ConnectedClient::communicationState
  mEvent,          \* ConnectedClient::gotConnectedEvent
  mTree,           \* the values in ConnectedClient::protocol
  mUpdated,        \* its nodes whose receivedValueUpdate is set
  cState,          \* SOTClient::communicationState
  cEvent,          \* SOTClient::gotConnectedEvent
  masterDeviceId,  \* SOTClient::masterDeviceId
  cTree,           \* the values in SOTClient::protocolDef
  rx,              \* frames that each device will get, in the order of the bus
  reconnects,      \* calls of reconnectToClient so far
  restarts,        \* restarts of the master so far
  sends            \* frames sent by the applications so far

masterVars == <<clients, mState, mEvent, mTree, mUpdated>>
clientVars == <<cState, cEvent, masterDeviceId, cTree>>
budgetVars == <<reconnects, restarts, sends>>
vars == <<masterVars, clientVars, rx, budgetVars>>

CommunicationState == {"UNINITIALIZED", "INITIALIZING", "INITIALIZED"}

-----------------------------------------------------------------------------
(* Identifiers of 11 bits: source, target, message type. *)
INIT_COMMUNICATION_REQUEST       == 0
INIT_COMMUNICATION_RESPONSE      == 1
DISCONNECT_COMMUNICATION_REQUEST == 3
WRITE_NODE_VALUE_REQEUST         == 4
READ_NODE_VALUE_REQEUST          == 8
READ_NODE_VALUE_RESPONSE         == 9

packCanFrameId(source, target, type) ==
  (source % 8) * 256 + (target % 8) * 32 + (type % 32)

(* (A bug's form: the mask of the source is a bit short.) *)
SourceOfTwoBits(canId) == (canId \div 256) % 4
SourceDeviceId(canId) == (canId \div 256) % 8
MessageType(canId) == canId % 32

(* The drivers' filters compare the target's three bits with the device's. *)
(* (A bug's form: two of them.)                                            *)
ownCanID(device) == (device % 8) * 32

TargetBitsPassTwo(device, canId) == (canId \div 32) % 4 = device % 4
PassesFilter(device, canId) == ((canId \div 32) % 8) * 32 = ownCanID(device)

-----------------------------------------------------------------------------
(* Sending.  A frame gets to every other device whose filter it passes;    *)
(* the frames of one call go to one target.                                *)
Frame(source, target, type, data) ==
  [canId |-> packCanFrameId(source, target, type), data |-> data]

Delivered(frames, source) ==
  [d \in Device |->
     IF d = source THEN rx[d]
     ELSE IF \A i \in DOMAIN frames : PassesFilter(d, frames[i].canId)
       THEN rx[d] \o frames
     ELSE rx[d]]

Consumed(device) == [rx EXCEPT ![device] = Tail(@)]

(* Consuming a frame and sending others: the two touch different queues.   *)
Answered(device, frames) ==
  [Delivered(frames, device) EXCEPT ![device] = Tail(rx[device])]

(* The numbers of the nodes in each device's program, and its table. *)
nodeId == [d \in Device |-> IdsByName(Numbered(NodesOf[d]))]
otNodeIDsTable == [d \in Device |-> Table(nodeId[d])]

(* The data of a frame with a value: number and value, of so many bytes.   *)
ValueData(device, node, value) ==
  [id |-> nodeId[device][node], bytes |-> Size[node] + 1, value |-> value]
ReadData(device, node) == [id |-> nodeId[device][node], bytes |-> 1]
NoData == [bytes |-> 0]
Status(accepted) == [bytes |-> 1, accepted |-> accepted]

(* Of a frame with a value: the node it is for at the device, if there is  *)
(* one and the frame holds enough bytes.                                   *)
NodeInFrame(device, frame) == LookUp(otNodeIDsTable[device], frame.data.id)
Applies(device, frame) ==
  /\ NodeInFrame(device, frame) \in Node
  /\ frame.data.bytes >= Size[NodeInFrame(device, frame)] + 1

-----------------------------------------------------------------------------
Init ==
  /\ clients = {}
  /\ mState = [c \in Client |-> "UNINITIALIZED"]
  /\ mEvent = [c \in Client |-> FALSE]
  /\ mTree = [c \in Client |-> [n \in Node |-> Unset]]
  /\ mUpdated = [c \in Client |-> {}]
  /\ cState = [c \in Client |-> "UNINITIALIZED"]
  /\ cEvent = [c \in Client |-> FALSE]
  /\ masterDeviceId = [c \in Client |-> 255]
  /\ cTree = [c \in Client |-> [n \in Node |-> Unset]]
  /\ rx = [d \in Device |-> << >>]
  /\ reconnects = 0
  /\ restarts = 0
  /\ sends = 0

-----------------------------------------------------------------------------
(* The master's application. *)
InitRequest(c) == Frame(Master, c, INIT_COMMUNICATION_REQUEST, NoData)
Disconnect(c) == Frame(Master, c, DISCONNECT_COMMUNICATION_REQUEST, NoData)

AddAndConnectToClient(c) ==
  /\ c \notin clients
  /\ clients' = clients \cup {c}
  /\ rx' = Delivered(<<InitRequest(c)>>, Master)
  /\ mState' = [mState EXCEPT ![c] = "INITIALIZING"]
  /\ UNCHANGED <<mEvent, mTree, mUpdated, clientVars, budgetVars>>

ReconnectFrames(c) == <<Disconnect(c), InitRequest(c)>>

ApplicationReconnects(c) ==
  /\ c \in clients
  /\ reconnects < MaxReconnect
  /\ reconnects' = reconnects + 1
  /\ mState' = [mState EXCEPT ![c] = "INITIALIZING"]
  /\ rx' = Delivered(ReconnectFrames(c), Master)
  /\ UNCHANGED <<clients, mEvent, mTree, mUpdated, clientVars, restarts, sends>>

Given(by, client, node) == [by |-> by, client |-> client, node |-> node]

(* write of a node, then sendValue. *)
MasterSendsValue(c, node) ==
  /\ c \in clients
  /\ sends < MaxSend
  /\ sends' = sends + 1
  /\ mTree' = [mTree EXCEPT ![c][node] = Given(Master, c, node)]
  /\ rx' = Delivered(<<Frame(Master, c, WRITE_NODE_VALUE_REQEUST,
                             ValueData(Master, node, Given(Master, c, node)))>>, Master)
  /\ UNCHANGED <<clients, mState, mEvent, mUpdated, clientVars, reconnects, restarts>>

MasterSendsRead(c, node) ==
  /\ c \in clients
  /\ sends < MaxSend
  /\ sends' = sends + 1
  /\ rx' = Delivered(<<Frame(Master, c, READ_NODE_VALUE_REQEUST,
                             ReadData(Master, node))>>, Master)
  /\ UNCHANGED <<masterVars, clientVars, reconnects, restarts>>

MasterTakesEvent(c) ==
  /\ mEvent[c]
  /\ mEvent' = [mEvent EXCEPT ![c] = FALSE]
  /\ UNCHANGED <<clients, mState, mTree, mUpdated, clientVars, rx, budgetVars>>

(* The client's application: write of a node, then sendValue, which sends  *)
(* to whatever masterDeviceId says.                                        *)
ClientSendsValue(c, node) ==
  /\ sends < MaxSend
  /\ sends' = sends + 1
  /\ cTree' = [cTree EXCEPT ![c][node] = Given(c, c, node)]
  /\ rx' = Delivered(<<Frame(c, masterDeviceId[c], WRITE_NODE_VALUE_REQEUST,
                             ValueData(c, node, Given(c, c, node)))>>, c)
  /\ UNCHANGED <<masterVars, cState, cEvent, masterDeviceId, reconnects, restarts>>

ClientTakesEvent(c) ==
  /\ cEvent[c]
  /\ cEvent' = [cEvent EXCEPT ![c] = FALSE]
  /\ UNCHANGED <<masterVars, cState, masterDeviceId, cTree, rx, budgetVars>>

-----------------------------------------------------------------------------
(* SOTClient::processCanFrameReceived.  Who sent a frame matters only for  *)
(* an init request.                                                        *)
NextFrame(device, types) ==
  /\ rx[device] # << >>
  /\ MessageType(Head(rx[device]).canId) \in types

ClientIgnores(c) ==
  /\ rx[c] # << >>
  /\ ~ NextFrame(c, {INIT_COMMUNICATION_REQUEST})
  /\ cState[c] # "INITIALIZED"
  /\ rx' = Consumed(c)
  /\ UNCHANGED <<masterVars, clientVars, budgetVars>>

ClientAccepts(c) ==
  /\ NextFrame(c, {INIT_COMMUNICATION_REQUEST})
  /\ cState[c] = "UNINITIALIZED"
  /\ LET sender == SourceDeviceId(Head(rx[c]).canId)
     IN  /\ masterDeviceId' = [masterDeviceId EXCEPT ![c] = sender]
         /\ rx' = Answered(c, <<Frame(c, sender, INIT_COMMUNICATION_RESPONSE,
                                      Status(TRUE))>>)
  /\ cState' = [cState EXCEPT ![c] = "INITIALIZED"]
  /\ cEvent' = [cEvent EXCEPT ![c] = TRUE]
  /\ UNCHANGED <<masterVars, cTree, budgetVars>>

ClientRefuses(c) ==
  /\ NextFrame(c, {INIT_COMMUNICATION_REQUEST})
  /\ cState[c] # "UNINITIALIZED"
  /\ rx' = Answered(c, <<Frame(c, SourceDeviceId(Head(rx[c]).canId),
                               INIT_COMMUNICATION_RESPONSE, Status(FALSE))>>)
  /\ UNCHANGED <<masterVars, clientVars, budgetVars>>

ClientDisconnects(c) ==
  /\ NextFrame(c, {DISCONNECT_COMMUNICATION_REQUEST})
  /\ cState[c] = "INITIALIZED"
  /\ cState' = [cState EXCEPT ![c] = "UNINITIALIZED"]
  /\ cEvent' = [cEvent EXCEPT ![c] = FALSE]
  /\ rx' = Consumed(c)
  /\ UNCHANGED <<masterVars, masterDeviceId, cTree, budgetVars>>

ClientIsWritten(c) ==
  /\ NextFrame(c, {WRITE_NODE_VALUE_REQEUST})
  /\ cState[c] = "INITIALIZED"
  /\ cTree' = IF Applies(c, Head(rx[c]))
                THEN [cTree EXCEPT ![c][NodeInFrame(c, Head(rx[c]))] =
                        Head(rx[c]).data.value]
                ELSE cTree
  /\ rx' = Consumed(c)
  /\ UNCHANGED <<masterVars, cState, cEvent, masterDeviceId, budgetVars>>

(* The answer goes to masterDeviceId, not to the sender. *)
ClientIsRead(c) ==
  /\ NextFrame(c, {READ_NODE_VALUE_REQEUST})
  /\ cState[c] = "INITIALIZED"
  /\ LET node == NodeInFrame(c, Head(rx[c]))
     IN  rx' = IF node \in Node
                 THEN Answered(c, <<Frame(c, masterDeviceId[c], READ_NODE_VALUE_RESPONSE,
                                          ValueData(c, node, cTree[c][node]))>>)
                 ELSE Consumed(c)
  /\ UNCHANGED <<masterVars, clientVars, budgetVars>>

ClientProcessesFrame(c) ==
  \/ ClientIgnores(c)
  \/ ClientAccepts(c)
  \/ ClientRefuses(c)
  \/ ClientDisconnects(c)
  \/ ClientIsWritten(c)
  \/ ClientIsRead(c)

-----------------------------------------------------------------------------
(* SOTMasterGeneric::processCanFrameReceived, for clients in the map.      *)
(* getClient finds the client by the frame's source.                       *)
Sender == SourceDeviceId(Head(rx[Master]).canId)

MasterGets(types) == NextFrame(Master, types) /\ Sender \in clients

MasterGetsAccept ==
  /\ MasterGets({INIT_COMMUNICATION_RESPONSE})
  /\ mState[Sender] = "INITIALIZING"
  /\ Head(rx[Master]).data.accepted
  /\ mState' = [mState EXCEPT ![Sender] = "INITIALIZED"]
  /\ mEvent' = [mEvent EXCEPT ![Sender] = TRUE]
  /\ rx' = Consumed(Master)
  /\ UNCHANGED <<clients, mTree, mUpdated, clientVars, budgetVars>>

MasterGetsRefusal ==
  /\ MasterGets({INIT_COMMUNICATION_RESPONSE})
  /\ mState[Sender] = "INITIALIZING"
  /\ ~ Head(rx[Master]).data.accepted
  /\ rx' = Answered(Master, ReconnectFrames(Sender))
  /\ UNCHANGED <<masterVars, clientVars, budgetVars>>

MasterIgnoresResponse ==
  /\ MasterGets({INIT_COMMUNICATION_RESPONSE})
  /\ mState[Sender] # "INITIALIZING"
  /\ rx' = Consumed(Master)
  /\ UNCHANGED <<masterVars, clientVars, budgetVars>>

(* A write request and a read response are handled alike. *)
MasterIsWritten ==
  /\ MasterGets({WRITE_NODE_VALUE_REQEUST, READ_NODE_VALUE_RESPONSE})
  /\ LET frame == Head(rx[Master])
         node == NodeInFrame(Master, frame)
     IN  IF Applies(Master, frame)
           THEN /\ mTree' = [mTree EXCEPT ![Sender][node] = frame.data.value]
                /\ mUpdated' = [mUpdated EXCEPT ![Sender] = @ \cup {node}]
           ELSE UNCHANGED <<mTree, mUpdated>>
  /\ rx' = Consumed(Master)
  /\ UNCHANGED <<clients, mState, mEvent, clientVars, budgetVars>>

MasterProcessesFrame ==
  \/ MasterGetsAccept
  \/ MasterGetsRefusal
  \/ MasterIgnoresResponse
  \/ MasterIsWritten

-----------------------------------------------------------------------------
ApplicationUses(c) ==
  \/ \E node \in NodesIn(Master) : MasterSendsValue(c, node) \/ MasterSendsRead(c, node)
  \/ \E node \in NodesIn(c) : ClientSendsValue(c, node)
  \/ MasterTakesEvent(c)
  \/ ClientTakesEvent(c)

(* The master's process ends and a new one starts with an empty map.  The  *)
(* frames the old socket held are gone, those still on the bus are not.    *)
MasterRestarts ==
  /\ restarts < MaxRestarts
  /\ restarts' = restarts + 1
  /\ clients' = {}
  /\ mState' = [c \in Client |-> "UNINITIALIZED"]
  /\ mEvent' = [c \in Client |-> FALSE]
  /\ mTree' = [c \in Client |-> [n \in Node |-> Unset]]
  /\ mUpdated' = [c \in Client |-> {}]
  /\ \E k \in 1 .. Len(rx[Master]) + 1 :
       rx' = [rx EXCEPT ![Master] = SubSeq(@, k, Len(@))]
  /\ UNCHANGED <<clientVars, reconnects, sends>>

Next ==
  \/ \E c \in Client :
       \/ AddAndConnectToClient(c)
       \/ ApplicationReconnects(c)
       \/ ApplicationUses(c)
       \/ ClientProcessesFrame(c)
  \/ MasterProcessesFrame
  \/ MasterRestarts

Spec == Init /\ [][Next]_vars

-----------------------------------------------------------------------------
(* A client that has not been connected addresses its values to device     *)
(* 0xFF, whose three bits are those of this one.                           *)
Misaddressed == 255 % 8

(* The master's copy of a client's tree (SOTMaster.h:28) holds in each     *)
(* node what that client or the master gave for that node of that client:  *)
(* no filter, identifier or number mixes up clients or nodes, but for the  *)
(* client that others may write.                                           *)
MasterCopyGenuine ==
  \A c \in Client \ {Misaddressed} : \A n \in Node : mTree[c][n] # Unset =>
    /\ mTree[c][n].client = c /\ mTree[c][n].node = n

(* So does a client's own tree.                                            *)
ClientTreeGenuine ==
  \A c \in Client \ {Misaddressed} : \A n \in Node : cTree[c][n] # Unset =>
    /\ cTree[c][n].client = c /\ cTree[c][n].node = n

(* doc/protocol_can_frames.md:27-40 has values and read requests go        *)
(* between the master and a client: a client's tree is written by itself   *)
(* and by the master only.                                                 *)
OnlyMasterWrites ==
  \A c \in Client : \A n \in Node :
    cTree[c][n] # Unset => cTree[c][n].by \in {c, Master}

(* ... and so is the master's copy of it.                                  *)
OnlyMasterCopied ==
  \A c \in Client : \A n \in Node :
    mTree[c][n] # Unset => mTree[c][n].by \in {c, Master}

(* SOTClient.h:173 and SOTMaster.h:231 say of a number without a node that *)
(* it "does not exist": no device reads behind its table.                  *)
LookUpsDefined ==
  \A d \in Device : \A i \in DOMAIN rx[d] :
    "id" \in DOMAIN rx[d][i].data => NodeInFrame(d, rx[d][i]) # BehindTable

-----------------------------------------------------------------------------
(* The bus as the link of SOTLink: the channel to a client is what the     *)
(* master has sent through the client's filter; the channel from a client  *)
(* is its part of what the master will get.                                *)
LinkFrame(device, frame) ==
  LET type == MessageType(frame.canId)
  IN  IF type = INIT_COMMUNICATION_REQUEST THEN [type |-> "INIT_REQUEST", node |-> NoNode]
      ELSE IF type = DISCONNECT_COMMUNICATION_REQUEST THEN [type |-> "DISCONNECT", node |-> NoNode]
      ELSE IF type = INIT_COMMUNICATION_RESPONSE
        THEN [type |-> IF frame.data.accepted THEN "ACCEPT" ELSE "NOT_ACCEPT", node |-> NoNode]
      ELSE [type |-> IF type = WRITE_NODE_VALUE_REQEUST THEN "WRITE"
                     ELSE IF type = READ_NODE_VALUE_REQEUST THEN "READ_REQUEST"
                     ELSE "READ_RESPONSE",
            node |-> NodeInFrame(device, frame)]

LinkFrames(source, device, frames) ==
  LET upTo[i \in 0 .. Len(frames)] ==
        IF i = 0 THEN << >>
        ELSE IF SourceDeviceId(frames[i].canId) = source
          THEN Append(upTo[i - 1], LinkFrame(device, frames[i]))
        ELSE upTo[i - 1]
  IN  upTo[Len(frames)]

Channel(source, device) == LinkFrames(source, device, rx[device])

Link == INSTANCE SOTLinkFaults WITH
  MetaNodes   <- << >>,
  received    <- mUpdated,
  masterKnown <- [c \in Client |-> masterDeviceId[c] # 255],
  toClient    <- [c \in Client |-> Channel(Master, c)],
  toMaster    <- [c \in Client |-> Channel(c, Master)],
  faults      <- restarts,
  attempted   <- clients,
  FaultKinds  <- {"master restart"},
  MaxFaults   <- MaxRestarts

(* The shared bus with its identifiers, filters and numbers gives every    *)
(* client the link of SOTLink, also when the master restarts.              *)
ImplementsLink == Link!FaultSpec
=============================================================================
