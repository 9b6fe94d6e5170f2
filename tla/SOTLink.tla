------------------------------ MODULE SOTLink ------------------------------
(***************************************************************************)
(* Connection establishment between one SOTMaster and its SOTClients       *)
(* (src/src/baseLib/communication/SOTMaster.h, SOTClient.h and             *)
(* SOTCanCommunication.h).                                                 *)
(*                                                                         *)
(* Every device runs one loop that calls processCanFrames; a step of this  *)
(* specification is the processing of one frame or one call of the         *)
(* application.  A link is a pair of FIFO channels, as two SocketCAN       *)
(* endpoints have them.  Losses and restarts are in SOTLinkFaults.         *)
(*                                                                         *)
(* Of an object tree only the identity of its value nodes is kept; a frame *)
(* that carries a value carries the node it is for.                        *)
(***************************************************************************)
EXTENDS Naturals, Sequences

CONSTANTS
  Client,        \* device ids of the clients
  Node,          \* value nodes of a client's object tree
  NoNode,        \* the node of a frame that carries none
  MetaNodes,     \* protocolDef.metaNodeValuesToSendOnInit, a sequence of nodes
  MaxReconnect,  \* bound: calls of reconnectToClient by the master's application
  MaxSend        \* bound: values and read requests sent by the applications

ASSUME NodeAssumption  == NoNode \notin Node
ASSUME MetaAssumption  == MetaNodes \in Seq(Node)
ASSUME BoundAssumption == MaxReconnect \in Nat /\ MaxSend \in Nat

VARIABLES
  clients,      \* SOTMaster::clients, the keys of the map
  mState,       \* ConnectedClient::communicationState
  mEvent,       \* ConnectedClient::gotConnectedEvent
  received,     \* nodes of ConnectedClient::protocol that a frame has written
  cState,       \* SOTClient::communicationState
  cEvent,       \* SOTClient::gotConnectedEvent
  masterKnown,  \* SOTClient::masterDeviceId is no longer 0xFF
  toClient,     \* frames from the master to each client
  toMaster,     \* frames from each client to the master
  reconnects,   \* calls of reconnectToClient so far
  sends,        \* frames sent by the applications so far
  faults,       \* losses and restarts so far; they are in SOTLinkFaults
  attempted     \* clients added or reconnected to since the last of them

masterVars == <<clients, mState, mEvent, received>>
clientVars == <<cState, cEvent, masterKnown>>
budgetVars == <<reconnects, sends, faults, attempted>>
vars == <<masterVars, clientVars, toClient, toMaster, budgetVars>>

CommunicationState == {"UNINITIALIZED", "INITIALIZING", "INITIALIZED"}

-----------------------------------------------------------------------------
(* Frames.  The response to an init request is one message type with a     *)
(* status byte; the two statuses are two types here.                       *)

MasterFrameType == {"INIT_REQUEST", "DISCONNECT", "WRITE", "READ_REQUEST"}

Frame(type, node) == [type |-> type, node |-> node]

InitRequest == Frame("INIT_REQUEST", NoNode)
Disconnect  == Frame("DISCONNECT", NoNode)
Accept      == Frame("ACCEPT", NoNode)
NotAccept   == Frame("NOT_ACCEPT", NoNode)

MasterFrame == [type : {"WRITE", "READ_REQUEST"}, node : Node]
                 \cup {InitRequest, Disconnect}
ClientFrame == [type : {"WRITE", "READ_RESPONSE"}, node : Node]
                 \cup {Accept, NotAccept}

(* One write request per _meta node, in the order of the protocol's list. *)
MetaFrames == [i \in DOMAIN MetaNodes |-> Frame("WRITE", MetaNodes[i])]

(* The answer to an accepted init request: all _meta values, then the      *)
(* response.  (Forms a bug could give it: the response first, or left out.)*)
AcceptanceAcceptFirst == <<Accept>> \o MetaFrames
AcceptanceMetaOnly == MetaFrames
AcceptanceFrames == Append(MetaFrames, Accept)

(* The pair of requests reconnectToClient sends.  (Forms a bug could give  *)
(* it: one of them left out, or the two in the other order.)               *)
ReconnectInitOnly == <<InitRequest>>
ReconnectDisconnectOnly == <<Disconnect>>
ReconnectInitFirst == <<InitRequest, Disconnect>>
ReconnectFrames == <<Disconnect, InitRequest>>

(* The answer to a read request.  (A bug's form: the request sent back.)   *)
ReadRequestReturned(frame) == frame
ReadResponse(frame) == Frame("READ_RESPONSE", frame.node)

-----------------------------------------------------------------------------
(* Initially the master's map is empty and no client has been contacted. *)

Init ==
  /\ clients = {}
  /\ mState = [c \in Client |-> "UNINITIALIZED"]
  /\ mEvent = [c \in Client |-> FALSE]
  /\ received = [c \in Client |-> {}]
  /\ cState = [c \in Client |-> "UNINITIALIZED"]
  /\ cEvent = [c \in Client |-> FALSE]
  /\ masterKnown = [c \in Client |-> FALSE]
  /\ toClient = [c \in Client |-> << >>]
  /\ toMaster = [c \in Client |-> << >>]
  /\ reconnects = 0
  /\ sends = 0
  /\ faults = 0
  /\ attempted = {}

-----------------------------------------------------------------------------
(* The master's application. *)

(* addAndConnectToClient: a client that is in the map already is refused.  *)
AddAndConnectToClient(c) ==
  /\ c \notin clients
  /\ clients' = clients \cup {c}
  /\ toClient' = [toClient EXCEPT ![c] = Append(@, InitRequest)]
  /\ mState' = [mState EXCEPT ![c] = "INITIALIZING"]
  /\ attempted' = attempted \cup {c}
  /\ UNCHANGED <<mEvent, received, clientVars, toMaster, reconnects, sends, faults>>

(* reconnectToClient, called by the application and on a refused request. *)
reconnectToClient(c) ==
  /\ mState' = [mState EXCEPT ![c] = "INITIALIZING"]
  /\ toClient' = [toClient EXCEPT ![c] = @ \o ReconnectFrames]

ApplicationReconnects(c) ==
  /\ c \in clients
  /\ reconnects < MaxReconnect
  /\ reconnectToClient(c)
  /\ reconnects' = reconnects + 1
  /\ attempted' = attempted \cup {c}
  /\ UNCHANGED <<clients, mEvent, received, clientVars, toMaster, sends, faults>>

(* sendValue and sendReadValueReq of a ConnectedClient; neither looks at  *)
(* the connection's state.                                                 *)
MasterSends(c, type, node) ==
  /\ c \in clients
  /\ sends < MaxSend
  /\ toClient' = [toClient EXCEPT ![c] = Append(@, Frame(type, node))]
  /\ sends' = sends + 1
  /\ UNCHANGED <<masterVars, clientVars, toMaster, reconnects, faults, attempted>>

(* The application takes gotConnectedEvent with checkAndReset. *)
MasterTakesEvent(c) ==
  /\ mEvent[c]
  /\ mEvent' = [mEvent EXCEPT ![c] = FALSE]
  /\ UNCHANGED <<clients, mState, received, clientVars, toClient, toMaster,
                 budgetVars>>

-----------------------------------------------------------------------------
(* The client's application. *)

(* sendValue.  Before the first init request masterDeviceId is 0xFF, whose *)
(* three low bits address device 7: the frame does not reach the master.   *)
ClientSends(c, node) ==
  /\ sends < MaxSend
  /\ sends' = sends + 1
  /\ toMaster' = IF masterKnown[c]
                   THEN [toMaster EXCEPT ![c] = Append(@, Frame("WRITE", node))]
                   ELSE toMaster
  /\ UNCHANGED <<masterVars, clientVars, toClient, reconnects, faults, attempted>>

ClientTakesEvent(c) ==
  /\ cEvent[c]
  /\ cEvent' = [cEvent EXCEPT ![c] = FALSE]
  /\ UNCHANGED <<masterVars, cState, masterKnown, toClient, toMaster, budgetVars>>

-----------------------------------------------------------------------------
(* SOTClient::processCanFrameReceived. *)

(* The head of a client's channel is a frame of one of the given types. *)
NextForClient(c, types) ==
  /\ toClient[c] # << >>
  /\ Head(toClient[c]).type \in types

ConsumeAtClient(c) == toClient' = [toClient EXCEPT ![c] = Tail(@)]

(* Not connected: everything but an init request is dropped. *)
ClientIgnores(c) ==
  /\ NextForClient(c, MasterFrameType \ {"INIT_REQUEST"})
  /\ cState[c] # "INITIALIZED"
  /\ ConsumeAtClient(c)
  /\ UNCHANGED <<masterVars, clientVars, toMaster, budgetVars>>

ClientAccepts(c) ==
  /\ NextForClient(c, {"INIT_REQUEST"})
  /\ cState[c] = "UNINITIALIZED"
  /\ ConsumeAtClient(c)
  /\ masterKnown' = [masterKnown EXCEPT ![c] = TRUE]
  /\ toMaster' = [toMaster EXCEPT ![c] = @ \o AcceptanceFrames]
  /\ cState' = [cState EXCEPT ![c] = "INITIALIZED"]
  /\ cEvent' = [cEvent EXCEPT ![c] = TRUE]
  /\ UNCHANGED <<masterVars, budgetVars>>

ClientRefuses(c) ==
  /\ NextForClient(c, {"INIT_REQUEST"})
  /\ cState[c] # "UNINITIALIZED"
  /\ ConsumeAtClient(c)
  /\ toMaster' = [toMaster EXCEPT ![c] = Append(@, NotAccept)]
  /\ UNCHANGED <<masterVars, clientVars, budgetVars>>

(* (A bug's form: gotConnectedEvent is not cleared.) *)
EventKept(c) == cEvent
EventCleared(c) == [cEvent EXCEPT ![c] = FALSE]

ClientDisconnects(c) ==
  /\ NextForClient(c, {"DISCONNECT"})
  /\ cState[c] = "INITIALIZED"
  /\ ConsumeAtClient(c)
  /\ cState' = [cState EXCEPT ![c] = "UNINITIALIZED"]
  /\ cEvent' = EventCleared(c)
  /\ UNCHANGED <<masterVars, masterKnown, toMaster, budgetVars>>

(* A write request is applied; a read request is answered. *)
ClientHandlesValue(c) ==
  /\ NextForClient(c, {"WRITE", "READ_REQUEST"})
  /\ cState[c] = "INITIALIZED"
  /\ ConsumeAtClient(c)
  /\ toMaster' = IF NextForClient(c, {"READ_REQUEST"})
                   THEN [toMaster EXCEPT
                           ![c] = Append(@, ReadResponse(Head(toClient[c])))]
                   ELSE toMaster
  /\ UNCHANGED <<masterVars, clientVars, budgetVars>>

ClientProcessesFrame(c) ==
  \/ ClientIgnores(c)
  \/ ClientAccepts(c)
  \/ ClientRefuses(c)
  \/ ClientDisconnects(c)
  \/ ClientHandlesValue(c)

-----------------------------------------------------------------------------
(* SOTMasterGeneric::processCanFrameReceived, for clients in the map. *)

NextForMaster(c, types) ==
  /\ c \in clients
  /\ toMaster[c] # << >>
  /\ Head(toMaster[c]).type \in types

ConsumeAtMaster(c) == toMaster' = [toMaster EXCEPT ![c] = Tail(@)]

MasterGetsAccept(c) ==
  /\ NextForMaster(c, {"ACCEPT"})
  /\ mState[c] = "INITIALIZING"
  /\ ConsumeAtMaster(c)
  /\ mState' = [mState EXCEPT ![c] = "INITIALIZED"]
  /\ mEvent' = [mEvent EXCEPT ![c] = TRUE]
  /\ UNCHANGED <<clients, received, clientVars, toClient, budgetVars>>

(* (A bug's form: a refusal is only logged.) *)
MasterLogsRefusal(c) ==
  /\ NextForMaster(c, {"NOT_ACCEPT"})
  /\ ConsumeAtMaster(c)
  /\ UNCHANGED <<masterVars, clientVars, toClient, budgetVars>>

MasterGetsRefusal(c) ==
  /\ NextForMaster(c, {"NOT_ACCEPT"})
  /\ mState[c] = "INITIALIZING"
  /\ ConsumeAtMaster(c)
  /\ reconnectToClient(c)
  /\ UNCHANGED <<clients, mEvent, received, clientVars, budgetVars>>

(* A response the master does not wait for is only logged. *)
MasterIgnoresResponse(c) ==
  /\ NextForMaster(c, {"ACCEPT", "NOT_ACCEPT"})
  /\ mState[c] # "INITIALIZING"
  /\ ConsumeAtMaster(c)
  /\ UNCHANGED <<masterVars, clientVars, toClient, budgetVars>>

(* A write request or a read response is applied in every state. *)
MasterHandlesValue(c) ==
  /\ NextForMaster(c, {"WRITE", "READ_RESPONSE"})
  /\ ConsumeAtMaster(c)
  /\ received' = [received EXCEPT ![c] = @ \cup {Head(toMaster[c]).node}]
  /\ UNCHANGED <<clients, mState, mEvent, clientVars, toClient, budgetVars>>

MasterProcessesFrame(c) ==
  \/ MasterGetsAccept(c)
  \/ MasterGetsRefusal(c)
  \/ MasterIgnoresResponse(c)
  \/ MasterHandlesValue(c)

-----------------------------------------------------------------------------
ApplicationConnects(c) ==
  \/ AddAndConnectToClient(c)
  \/ ApplicationReconnects(c)

ApplicationUses(c) ==
  \/ \E node \in Node :
       \/ MasterSends(c, "WRITE", node)
       \/ MasterSends(c, "READ_REQUEST", node)
       \/ ClientSends(c, node)
  \/ MasterTakesEvent(c)
  \/ ClientTakesEvent(c)

LinkStep(c) ==
  \/ ApplicationUses(c)
  \/ ClientProcessesFrame(c)
  \/ MasterProcessesFrame(c)

Next == \E c \in Client : ApplicationConnects(c) \/ LinkStep(c)

Spec == Init /\ [][Next]_vars

(* Both main loops call processCanFrames again and again; what the         *)
(* applications do is up to them.                                          *)
Fairness == \A c \in Client :
  /\ WF_vars(ClientProcessesFrame(c))
  /\ WF_vars(MasterProcessesFrame(c))

FairSpec == Spec /\ Fairness

-----------------------------------------------------------------------------
(* Every variable keeps its type; the bounds on the budgets hold. *)
TypeOK ==
  /\ clients \subseteq Client
  /\ mState \in [Client -> CommunicationState]
  /\ mEvent \in [Client -> BOOLEAN]
  /\ received \in [Client -> SUBSET Node]
  /\ cState \in [Client -> CommunicationState]
  /\ cEvent \in [Client -> BOOLEAN]
  /\ masterKnown \in [Client -> BOOLEAN]
  /\ toClient \in [Client -> Seq(MasterFrame)]
  /\ toMaster \in [Client -> Seq(ClientFrame)]
  /\ reconnects \in 0 .. MaxReconnect
  /\ sends \in 0 .. MaxSend
  /\ faults \in Nat
  /\ attempted \subseteq Client

(* With nothing in flight, a client the master has added is connected on  *)
(* both sides: the handshake leaves no half-open connection, whatever      *)
(* reconnects overlapped it (SOTMaster.h processCanFrameReceived and       *)
(* reconnectToClient against SOTClient.h processCanFrameReceived).         *)
QuietMeansConnected ==
  \A c \in clients :
    toClient[c] = << >> /\ toMaster[c] = << >>
      => mState[c] = "INITIALIZED" /\ cState[c] = "INITIALIZED"

(* The client's guard "do nothing when not connected" (SOTClient.h:67-73)  *)
(* never discards a frame of its master: on a FIFO link nothing the        *)
(* application sends after addAndConnectToClient is lost, although the     *)
(* master sends without looking at the connection's state.                 *)
NothingIgnored ==
  \A c \in Client :
    toClient[c] # << >> /\ Head(toClient[c]) # InitRequest
      => cState[c] = "INITIALIZED"

(* When the master takes a client for connected it holds all of its _meta  *)
(* values (doc/protocol_can_frames.md:47-48), also when the connection was *)
(* completed by the answer to an earlier request.                          *)
MetaHeld(c) ==
  mState[c] = "INITIALIZED" => \A k \in DOMAIN MetaNodes : MetaNodes[k] \in received[c]

MetaBeforeConnected == \A c \in clients : MetaHeld(c)

(* The client's gotConnectedEvent is never left over from a connection     *)
(* that has been closed since.                                             *)
ClientEventFresh ==
  \A c \in Client : cEvent[c] => cState[c] = "INITIALIZED"

(* What makes the above hold, as an inductive invariant.  In the channel   *)
(* of a client in the given state a disconnect is always followed by an    *)
(* init request, and an init request always meets a client that accepts it.*)
RequestsPaired(channel, state) ==
  \A i \in DOMAIN channel :
    /\ channel[i] = Disconnect
         => i < Len(channel) /\ channel[i + 1] = InitRequest
    /\ channel[i] = InitRequest
         => IF i = 1 THEN state = "UNINITIALIZED" ELSE channel[i - 1] = Disconnect

(* A client in the map that is not connected has an init request next. *)
RequestAwaited(channel, state) ==
  state # "INITIALIZED" => channel # << >> /\ channel[1] = InitRequest

(* Behind every acceptance under way the _meta values have been received  *)
(* or travel ahead of it.                                                  *)
MetaAhead(channel, got) ==
  \A i \in DOMAIN channel : channel[i] = Accept =>
    \A k \in DOMAIN MetaNodes :
      \/ MetaNodes[k] \in got
      \/ \E j \in 1 .. (i - 1) : channel[j] = Frame("WRITE", MetaNodes[k])

(* A master that waits for a response has a reason to: a request of its   *)
(* own or the acceptance of one is still under way, so that the state      *)
(* INITIALIZING, which no timeout ever leaves, is no dead end.             *)
Carries(channel, frame) == \E i \in DOMAIN channel : channel[i] = frame

JustifiedWait(c) ==
  mState[c] = "INITIALIZING"
    => Carries(toClient[c], InitRequest) \/ Carries(toMaster[c], Accept)

ClientInv(c) ==
  /\ cState[c] # "INITIALIZING"
  /\ cEvent[c] => cState[c] = "INITIALIZED"
  /\ RequestsPaired(toClient[c], cState[c])
  /\ ~ Carries(toMaster[c], NotAccept)
  /\ MetaAhead(toMaster[c], received[c])
  /\ IF c \in clients
       THEN /\ mState[c] # "UNINITIALIZED"
            /\ RequestAwaited(toClient[c], cState[c])
            /\ JustifiedWait(c)
            /\ MetaHeld(c)
       ELSE /\ toClient[c] = << >> /\ toMaster[c] = << >>
            /\ cState[c] = "UNINITIALIZED" /\ ~ masterKnown[c]

LinkInv == \A c \in Client : ClientInv(c)

(* SOTMaster.h:58-62: isConnected() returns "true if currently connected   *)
(* to client".                                                             *)
IsConnectedTruthful ==
  \A c \in clients : mState[c] = "INITIALIZED" => cState[c] = "INITIALIZED"

(* SOTMaster.h:66-67: after reconnectToClient, "when connected to the      *)
(* client the gotConnectedEvent flag will be set": while the master waits   *)
(* for the connection the flag is not set.                                  *)
MasterEventFresh ==
  \A c \in clients : mEvent[c] => mState[c] = "INITIALIZED"

(* Every client that is added gets connected on both sides, once the       *)
(* application stops asking for reconnects.                                *)
ConnectedBothSides(c) == mState[c] = "INITIALIZED" /\ cState[c] = "INITIALIZED"
AddedGetsConnected ==
  \A c \in Client : c \in clients ~> ConnectedBothSides(c)

(* A read request is answered, whatever reconnects and events overtake it: *)
(* the value of the node reaches the master's copy of the object tree      *)
(* (doc/protocol_can_frames.md, Read Node Value Response).                 *)
ReadGetsAnswered ==
  \A c \in Client : \A n \in Node :
    Carries(toClient[c], Frame("READ_REQUEST", n)) ~> n \in received[c]

=============================================================================
