------------------------- MODULE ObjectTreeBus_proofs -------------------------
(***************************************************************************)
(* Several clients on one bus, for any clients, any object trees and any   *)
(* versions of the spec file that only append nodes: neither identifiers,  *)
(* filters nor the numbers of nodes mix up clients or nodes.  With one     *)
(* version, the bus implements the link of SOTLink for every client.       *)
(***************************************************************************)
EXTENDS ObjectTreeBus, CodeGenerator_proofs, SequenceTheorems

(* The devices' programs come from versions of one spec file to whose end  *)
(* the author only appends.                                                *)
AppendOnly ==
  \A d, e \in Device : \A i \in 1 .. Len(NodesOf[d]) :
    i <= Len(NodesOf[e]) => NodesOf[d][i] = NodesOf[e][i]

MessageTypes == {0, 1, 3, 4, 8, 9}

-----------------------------------------------------------------------------
(* What the identifier of a frame gives back, and whom it reaches. *)
LEMMA Bits ==
  ASSUME NEW s \in 0 .. 7, NEW t \in Nat, NEW type \in MessageTypes, NEW d \in 0 .. 7
  PROVE  /\ SourceDeviceId(packCanFrameId(s, t, type)) = s
         /\ MessageType(packCanFrameId(s, t, type)) = type
         /\ PassesFilter(d, packCanFrameId(s, t, type)) <=> d = t % 8
<1> DEFINE id == packCanFrameId(s, t, type)
<1>1. PICK b \in 0 .. 7 : b = t % 8
  OBVIOUS
<1>2. type \in 0 .. 31 /\ type % 32 = type /\ s % 8 = s /\ d % 8 = d
  BY DEF MessageTypes
<1>3. id = s * 256 + b * 32 + type
  BY <1>1, <1>2 DEF packCanFrameId
<1>4. id \div 256 = s
  BY <1>2, <1>3
<1>5. id % 32 = type
  BY <1>2, <1>3
<1>6. id \div 32 = s * 8 + b
  BY <1>2, <1>3
<1>7. (id \div 32) % 8 = b
  BY <1>6
<1> HIDE DEF id
<1>8. PassesFilter(d, id) <=> b * 32 = d * 32
  BY <1>2, <1>7 DEF PassesFilter, ownCanID
<1>9. SourceDeviceId(id) = s /\ MessageType(id) = type
  BY <1>2, <1>4, <1>5 DEF SourceDeviceId, MessageType
<1> QED
  BY <1>1, <1>8, <1>9 DEF id

LEMMA Devices ==
  /\ Client \subseteq 1 .. 7 /\ Device \subseteq 0 .. 7 /\ Master \in Device
  /\ Master = 0 /\ Master \notin Client /\ Client \subseteq Device
  /\ Device \ {Master} = Client
  /\ Misaddressed = 7
BY ClientAssumption DEF Device, Master, Misaddressed

LEMMA FromMaster ==
  ASSUME NEW c \in Client, NEW type \in MessageTypes, NEW data
  PROVE  /\ SourceDeviceId(Frame(Master, c, type, data).canId) = Master
         /\ MessageType(Frame(Master, c, type, data).canId) = type
         /\ Frame(Master, c, type, data).data = data
         /\ \A d \in Device : PassesFilter(d, Frame(Master, c, type, data).canId) <=> d = c
<1>1. c \in 0 .. 7 /\ c \in Nat /\ c % 8 = c /\ Master \in 0 .. 7
  BY Devices
<1>2. \A d \in Device : d \in 0 .. 7
  BY Devices
<1> QED
  BY <1>1, <1>2, Bits DEF Frame

LEMMA FromClients ==
  ASSUME NEW c \in Client, NEW m \in {Master, 255}, NEW type \in MessageTypes, NEW data
  PROVE  /\ SourceDeviceId(Frame(c, m, type, data).canId) = c
         /\ MessageType(Frame(c, m, type, data).canId) = type
         /\ Frame(c, m, type, data).data = data
         /\ \A d \in Device : PassesFilter(d, Frame(c, m, type, data).canId)
              <=> IF m = Master THEN d = Master ELSE d = Misaddressed
<1>1. c \in 0 .. 7 /\ m \in Nat /\ (m % 8 = IF m = Master THEN 0 ELSE 7)
  BY Devices
<1>2. \A d \in Device : d \in 0 .. 7
  BY Devices
<1> QED
  BY <1>1, <1>2, Bits, Devices DEF Frame

-----------------------------------------------------------------------------
(* A number that one program gives a node leads, in another program, to    *)
(* that node or to none.                                                   *)
LEMMA NumberLeadsToNode ==
  ASSUME AppendOnly, NEW s \in Device, NEW d \in Device, NEW n \in NodesIn(s),
         LookUp(otNodeIDsTable[d], nodeId[s][n]) \in Node
  PROVE  LookUp(otNodeIDsTable[d], nodeId[s][n]) = n
<1> DEFINE theirs == NodesOf[s]
           ours == NodesOf[d]
<1>1. /\ theirs \in Seq(Node) /\ Distinct(theirs) /\ ours \in Seq(Node) /\ Distinct(ours)
      /\ Len(theirs) \in Nat /\ Len(ours) \in Nat
  BY NodesAssumption DEF Distinct
<1>2. PICK i \in 1 .. Len(theirs) : theirs[i] = n
  BY <1>1, LenProperties DEF NodesIn
<1>3. nodeId[s][n] = i - 1
  BY <1>1, <1>2, NumbersInOrder DEF nodeId, ByName
<1>4. otNodeIDsTable[d] = Table(ByName(ours))
  BY DEF otNodeIDsTable, nodeId, ByName
<1>5. /\ DOMAIN Table(ByName(ours)) = 0 .. Len(ours) - 1
      /\ \A j \in 1 .. Len(ours) : Table(ByName(ours))[j - 1] = ours[j]
  BY <1>1, TableInOrder
<1>6. LookUp(Table(ByName(ours)), i - 1) \in Node
  BY <1>3, <1>4
<1>7. i - 1 \in 0 .. Len(ours) - 1
  BY <1>5, <1>6, NodesAssumption DEF LookUp
<1>8. LookUp(Table(ByName(ours)), i - 1) = Table(ByName(ours))[i - 1]
  BY <1>5, <1>6, <1>7, NodesAssumption DEF LookUp
<1>9. i \in 1 .. Len(ours) /\ ours[i] = theirs[i]
  BY <1>1, <1>2, <1>7 DEF AppendOnly
<1> QED
  BY <1>2, <1>3, <1>4, <1>5, <1>8, <1>9

-----------------------------------------------------------------------------
(* Values.  What a node of a client's tree may hold, on either side: what  *)
(* was given for it; anything, where other clients write.                  *)
AnyValue == [by : Device, client : Client, node : Node] \cup {Unset}

ValueOf(c, n) ==
  IF c = Misaddressed THEN AnyValue
  ELSE {Given(by, c, n) : by \in Device} \cup {Unset}

TreesGenuine ==
  /\ mTree \in [Client -> [Node -> AnyValue]]
  /\ cTree \in [Client -> [Node -> AnyValue]]
  /\ \A c \in Client : \A n \in Node :
       mTree[c][n] \in ValueOf(c, n) /\ cTree[c][n] \in ValueOf(c, n)

LEMMA Values ==
  ASSUME NEW c \in Client, NEW n \in Node
  PROVE  /\ ValueOf(c, n) \subseteq AnyValue
         /\ Unset \in ValueOf(c, n)
         /\ \A by \in Device : Given(by, c, n) \in ValueOf(c, n)
BY DEF ValueOf, AnyValue, Given

LEMMA ValueIsForItsNode ==
  ASSUME NEW c \in Client \ {Misaddressed}, NEW n \in Node,
         NEW v \in ValueOf(c, n), v # Unset
  PROVE  v.client = c /\ v.node = n
<1>1. PICK by \in Device : v = Given(by, c, n)
  BY DEF ValueOf
<1> QED
  BY <1>1 DEF Given

LEMMA NodesAreNodes ==
  ASSUME NEW d \in Device
  PROVE  NodesIn(d) \subseteq Node
BY NodesAssumption, ElementOfSeq, LenProperties DEF NodesIn

(* Frames.  A value in a frame is given by its sender's number of a node,  *)
(* and may be held by that node of a client's tree.                        *)
CarriesValue(data, source, c) ==
  \E n \in NodesIn(source) : \E v \in ValueOf(c, n) : data = ValueData(source, n, v)

(* What the master sends to a client, and what a client sends to master m. *)
SentByMaster(c, type, data) ==
  \/ type \in {INIT_COMMUNICATION_REQUEST, DISCONNECT_COMMUNICATION_REQUEST}
  \/ /\ type = READ_NODE_VALUE_REQEUST
     /\ \E n \in NodesIn(Master) : data = ReadData(Master, n)
  \/ type = WRITE_NODE_VALUE_REQEUST /\ CarriesValue(data, Master, c)

SentByClient(c, m, type, data) ==
  \/ /\ type = INIT_COMMUNICATION_RESPONSE /\ m = Master
     /\ \E accepted \in BOOLEAN : data = Status(accepted)
  \/ type = READ_NODE_VALUE_RESPONSE /\ m = Master /\ CarriesValue(data, c, c)
  \/ type = WRITE_NODE_VALUE_REQEUST /\ CarriesValue(data, c, c)

(* What may be in a device's queue: at the master what a client sends, its *)
(* values for its own tree; at a client what the master sends, and values  *)
(* of others for its own tree.                                             *)
Proper(d, f) ==
  LET source == SourceDeviceId(f.canId)
      type == MessageType(f.canId)
  IN  IF d = Master THEN source \in Client /\ SentByClient(source, Master, type, f.data)
      ELSE \/ source = Master /\ SentByMaster(d, type, f.data)
           \/ /\ source \in Client /\ type = WRITE_NODE_VALUE_REQEUST
              /\ CarriesValue(f.data, source, d)

AnyData ==
  {NoData} \cup {Status(accepted) : accepted \in BOOLEAN}
    \cup {ReadData(Master, n) : n \in NodesIn(Master)}
    \cup UNION {{ValueData(d, n, v) : n \in NodesIn(d), v \in AnyValue} : d \in Device}

Arrivals(d) == {f \in [canId : Nat, data : AnyData] : Proper(d, f)}

(* Queues in which everything is proper. *)
ProperQueues(queues) ==
  queues = [d \in Device |-> queues[d]] /\ \A d \in Device : queues[d] \in Seq(Arrivals(d))

BusInv ==
  /\ clients \subseteq Client
  /\ mState \in [Client -> CommunicationState]
  /\ cState \in [Client -> CommunicationState]
  /\ masterDeviceId \in [Client -> {Master, 255}]
  /\ \A c \in Client : cState[c] = "INITIALIZED" => masterDeviceId[c] = Master
  /\ TreesGenuine
  /\ ProperQueues(rx)

(* A frame is a frame. *)
LEMMA FrameShape ==
  ASSUME NEW s \in Device, NEW t \in {Master, 255} \cup Client, NEW type \in MessageTypes,
         NEW data \in AnyData
  PROVE  Frame(s, t, type, data) \in [canId : Nat, data : AnyData]
<1>1. s \in 0 .. 7 /\ t \in 0 .. 255 /\ type \in 0 .. 9
  BY Devices DEF MessageTypes
<1>2. packCanFrameId(s, t, type) \in Nat
  BY <1>1 DEF packCanFrameId
<1> QED
  BY <1>2 DEF Frame

LEMMA MasterFrameArrives ==
  ASSUME NEW c \in Client, NEW type \in MessageTypes, NEW data \in AnyData,
         SentByMaster(c, type, data)
  PROVE  Frame(Master, c, type, data) \in Arrivals(c)
<1> DEFINE f == Frame(Master, c, type, data)
<1>1. /\ SourceDeviceId(f.canId) = Master /\ MessageType(f.canId) = type /\ f.data = data
  BY FromMaster
<1>2. f \in [canId : Nat, data : AnyData]
  BY FrameShape, Devices
<1> HIDE DEF f
<1>3. Proper(c, f)
  BY <1>1, Devices DEF Proper
<1> QED
  BY <1>2, <1>3 DEF Arrivals, f

LEMMA ClientFrameArrives ==
  ASSUME NEW c \in Client, NEW m \in {Master, 255}, NEW type \in MessageTypes,
         NEW data \in AnyData, NEW d \in Device \ {c}, SentByClient(c, m, type, data),
         PassesFilter(d, Frame(c, m, type, data).canId)
  PROVE  Frame(c, m, type, data) \in Arrivals(d)
<1> DEFINE f == Frame(c, m, type, data)
<1>1. /\ SourceDeviceId(f.canId) = c /\ MessageType(f.canId) = type /\ f.data = data
      /\ IF m = Master THEN d = Master ELSE d = Misaddressed
  BY FromClients
<1>2. f \in [canId : Nat, data : AnyData]
  BY FrameShape, Devices
<1> HIDE DEF f
<1>3. CASE d = Master
  <2>1. SentByClient(c, Master, type, data)
    BY <1>1, <1>3, Devices DEF SentByClient
  <2> QED
    BY <1>1, <1>2, <1>3, <2>1 DEF Proper, Arrivals, f
<1>4. CASE d = Misaddressed /\ d # Master
  <2>1. type = WRITE_NODE_VALUE_REQEUST /\ CarriesValue(data, c, c)
    BY <1>1, <1>4 DEF SentByClient
  <2>2. CarriesValue(data, c, Misaddressed)
    <3>1. \A n \in NodesIn(c) : ValueOf(c, n) \subseteq ValueOf(Misaddressed, n)
      BY Values, NodesAreNodes, Devices DEF ValueOf
    <3> QED
      BY <2>1, <3>1 DEF CarriesValue
  <2>3. Proper(d, f)
    BY <1>1, <1>4, <2>1, <2>2, Devices DEF Proper
  <2> QED
    BY <1>2, <2>3 DEF Arrivals, f
<1> QED
  BY <1>1, <1>3, <1>4

-----------------------------------------------------------------------------
(* Queues stay proper when frames are delivered and taken. *)
LEMMA DeliveredIsProper ==
  ASSUME NEW source \in Device, NEW frames, ProperQueues(rx),
         \A d \in Device \ {source} :
           (\A i \in DOMAIN frames : PassesFilter(d, frames[i].canId))
             => frames \in Seq(Arrivals(d))
  PROVE  ProperQueues(Delivered(frames, source))
<1>1. ASSUME NEW d \in Device
      PROVE  Delivered(frames, source)[d] \in Seq(Arrivals(d))
  <2>1. rx[d] \in Seq(Arrivals(d))
    BY <1>1 DEF ProperQueues
  <2>2. CASE d # source /\ \A i \in DOMAIN frames : PassesFilter(d, frames[i].canId)
    <3>1. frames \in Seq(Arrivals(d))
      BY <1>1, <2>2
    <3>2. rx[d] \o frames \in Seq(Arrivals(d))
      BY <2>1, <3>1, ConcatProperties
    <3> QED
      BY <2>2, <3>2 DEF Delivered
  <2> QED
    BY <2>1, <2>2 DEF Delivered
<1> QED
  BY <1>1 DEF ProperQueues, Delivered

LEMMA OneDelivered ==
  ASSUME NEW source \in Device, NEW f, ProperQueues(rx),
         \A d \in Device \ {source} : PassesFilter(d, f.canId) => f \in Arrivals(d)
  PROVE  ProperQueues(Delivered(<<f>>, source))
<1>1. DOMAIN <<f>> = {1} /\ <<f>>[1] = f
  OBVIOUS
<1>2. ASSUME NEW d \in Device \ {source},
             \A i \in DOMAIN <<f>> : PassesFilter(d, <<f>>[i].canId)
      PROVE  <<f>> \in Seq(Arrivals(d))
  <2>1. f \in Arrivals(d)
    BY <1>1, <1>2
  <2> QED
    BY <2>1
<1> QED
  BY <1>2, DeliveredIsProper

LEMMA TailIsProper ==
  ASSUME NEW queues, ProperQueues(queues), NEW d \in Device, NEW q, q \in Seq(Arrivals(d))
  PROVE  ProperQueues([queues EXCEPT ![d] = q])
BY DEF ProperQueues

LEMMA ConsumedIsProper ==
  ASSUME ProperQueues(rx), NEW d \in Device, rx[d] # << >>
  PROVE  /\ ProperQueues(Consumed(d))
         /\ Tail(rx[d]) \in Seq(Arrivals(d))
         /\ Head(rx[d]) \in Arrivals(d)
<1>1. rx[d] \in Seq(Arrivals(d))
  BY DEF ProperQueues
<1>2. Tail(rx[d]) \in Seq(Arrivals(d)) /\ Head(rx[d]) \in Arrivals(d)
  BY <1>1, HeadTailProperties
<1> QED
  BY <1>2, TailIsProper DEF Consumed

LEMMA AnsweredIsProper ==
  ASSUME ProperQueues(rx), NEW d \in Device, rx[d] # << >>, NEW frames,
         ProperQueues(Delivered(frames, d))
  PROVE  ProperQueues(Answered(d, frames))
BY ConsumedIsProper, TailIsProper DEF Answered

-----------------------------------------------------------------------------
(* What the head of a queue says. *)
LEMMA HeadAtMaster ==
  ASSUME BusInv, rx[Master] # << >>
  PROVE  /\ Sender \in Client
         /\ SentByClient(Sender, Master, MessageType(Head(rx[Master]).canId),
                          Head(rx[Master]).data)
         /\ MessageType(Head(rx[Master]).canId)
              \in {WRITE_NODE_VALUE_REQEUST, READ_NODE_VALUE_RESPONSE}
              => CarriesValue(Head(rx[Master]).data, Sender, Sender)
<1>1. Head(rx[Master]) \in Arrivals(Master)
  BY ConsumedIsProper, Devices DEF BusInv
<1>2. /\ Sender \in Client
      /\ SentByClient(Sender, Master, MessageType(Head(rx[Master]).canId),
                       Head(rx[Master]).data)
  BY <1>1 DEF Arrivals, Proper, Sender
<1> QED
  BY <1>2 DEF SentByClient, WRITE_NODE_VALUE_REQEUST, READ_NODE_VALUE_RESPONSE,
      INIT_COMMUNICATION_RESPONSE

LEMMA HeadAtClient ==
  ASSUME BusInv, NEW c \in Client, rx[c] # << >>
  PROVE  LET f == Head(rx[c])
             source == SourceDeviceId(f.canId)
             type == MessageType(f.canId)
         IN  /\ \/ source = Master /\ SentByMaster(c, type, f.data)
                \/ source \in Client /\ type = WRITE_NODE_VALUE_REQEUST
             /\ type = INIT_COMMUNICATION_REQUEST => source = Master
             /\ type = WRITE_NODE_VALUE_REQEUST
                  => source \in Device /\ CarriesValue(f.data, source, c)
<1>1. Head(rx[c]) \in Arrivals(c) /\ c # Master
  BY ConsumedIsProper, Devices DEF BusInv
<1> QED
  BY <1>1, Devices
     DEF Arrivals, Proper, SentByMaster, INIT_COMMUNICATION_REQUEST, WRITE_NODE_VALUE_REQEUST,
         READ_NODE_VALUE_REQEUST, DISCONNECT_COMMUNICATION_REQUEST

(* A value that a device takes out of a frame is one for the node that the *)
(* device finds for the frame's number.                                    *)
LEMMA ValueForItsNode ==
  ASSUME AppendOnly, NEW s \in Device, NEW d \in Device, NEW c \in Client, NEW f,
         CarriesValue(f.data, s, c), NodeInFrame(d, f) \in Node
  PROVE  f.data.value \in ValueOf(c, NodeInFrame(d, f))
<1>1. PICK n \in NodesIn(s) : \E v \in ValueOf(c, n) : f.data = ValueData(s, n, v)
  BY DEF CarriesValue
<1>2. PICK v \in ValueOf(c, n) : f.data = ValueData(s, n, v)
  BY <1>1
<1>3. f.data.id = nodeId[s][n] /\ f.data.value = v
  BY <1>2 DEF ValueData
<1>4. NodeInFrame(d, f) = n
  BY <1>3, NumberLeadsToNode DEF NodeInFrame
<1> QED
  BY <1>3, <1>4

(* What a device finds is one of its nodes. *)
LEMMA FoundIsOwn ==
  ASSUME NEW d \in Device, NEW f, NodeInFrame(d, f) \in Node
  PROVE  NodeInFrame(d, f) \in NodesIn(d)
<1> DEFINE ours == NodesOf[d]
           id == f.data.id
<1>1. ours \in Seq(Node) /\ Distinct(ours) /\ Len(ours) \in Nat
  BY NodesAssumption DEF Distinct
<1>2. otNodeIDsTable[d] = Table(ByName(ours))
  BY DEF otNodeIDsTable, nodeId, ByName
<1>3. /\ DOMAIN Table(ByName(ours)) = 0 .. Len(ours) - 1
      /\ \A j \in 1 .. Len(ours) : Table(ByName(ours))[j - 1] = ours[j]
  BY <1>1, TableInOrder
<1>4. id \in 0 .. Len(ours) - 1 /\ NodeInFrame(d, f) = Table(ByName(ours))[id]
  BY <1>2, <1>3, NodesAssumption DEF NodeInFrame, LookUp
<1>5. id + 1 \in 1 .. Len(ours) /\ (id + 1) - 1 = id
  BY <1>1, <1>4
<1>6. NodeInFrame(d, f) = ours[id + 1]
  BY <1>3, <1>4, <1>5
<1> QED
  BY <1>1, <1>5, <1>6 DEF NodesIn

(* The data of each frame that a device sends. *)
LEMMA SentData ==
  /\ NoData \in AnyData
  /\ \A accepted \in BOOLEAN : Status(accepted) \in AnyData
  /\ \A n \in NodesIn(Master) : ReadData(Master, n) \in AnyData
  /\ \A d \in Device : \A n \in NodesIn(d) : \A v \in AnyValue : ValueData(d, n, v) \in AnyData
BY DEF AnyData

-----------------------------------------------------------------------------
(* Sending keeps the queues proper. *)
LEMMA MasterSends ==
  ASSUME ProperQueues(rx), NEW c \in Client, NEW type \in MessageTypes, NEW data \in AnyData,
         SentByMaster(c, type, data)
  PROVE  ProperQueues(Delivered(<<Frame(Master, c, type, data)>>, Master))
<1> DEFINE f == Frame(Master, c, type, data)
<1>1. f \in Arrivals(c)
  BY MasterFrameArrives
<1>2. \A d \in Device : PassesFilter(d, f.canId) => d = c
  BY FromMaster
<1> HIDE DEF f
<1>3. ProperQueues(Delivered(<<f>>, Master))
  BY <1>1, <1>2, OneDelivered, Devices
<1> QED
  BY <1>3 DEF f

LEMMA ClientSends ==
  ASSUME ProperQueues(rx), NEW c \in Client, NEW m \in {Master, 255},
         NEW type \in MessageTypes, NEW data \in AnyData, SentByClient(c, m, type, data)
  PROVE  ProperQueues(Delivered(<<Frame(c, m, type, data)>>, c))
<1> DEFINE f == Frame(c, m, type, data)
<1>1. \A d \in Device \ {c} : PassesFilter(d, f.canId) => f \in Arrivals(d)
  BY ClientFrameArrives
<1> HIDE DEF f
<1>2. ProperQueues(Delivered(<<f>>, c))
  BY <1>1, OneDelivered, Devices
<1> QED
  BY <1>2 DEF f

LEMMA ReconnectSends ==
  ASSUME ProperQueues(rx), NEW c \in Client
  PROVE  ProperQueues(Delivered(ReconnectFrames(c), Master))
<1> DEFINE frames == ReconnectFrames(c)
<1>1. Disconnect(c) \in Arrivals(c) /\ InitRequest(c) \in Arrivals(c)
  BY MasterFrameArrives, SentData
     DEF SentByMaster, Disconnect, InitRequest, MessageTypes, WRITE_NODE_VALUE_REQEUST,
         DISCONNECT_COMMUNICATION_REQUEST, INIT_COMMUNICATION_REQUEST
<1>2. \A d \in Device : PassesFilter(d, Disconnect(c).canId) => d = c
  BY FromMaster DEF Disconnect, MessageTypes, DISCONNECT_COMMUNICATION_REQUEST
<1>3. /\ frames = <<Disconnect(c), InitRequest(c)>>
      /\ 1 \in DOMAIN frames /\ frames[1] = Disconnect(c)
  BY DEF ReconnectFrames
<1>4. frames \in Seq(Arrivals(c))
  BY <1>1, <1>3
<1> HIDE DEF frames
<1>5. \A d \in Device \ {Master} :
        (\A i \in DOMAIN frames : PassesFilter(d, frames[i].canId)) => frames \in Seq(Arrivals(d))
  BY <1>2, <1>3, <1>4
<1>6. ProperQueues(Delivered(frames, Master))
  BY <1>5, DeliveredIsProper, Devices
<1> QED
  BY <1>6 DEF frames

-----------------------------------------------------------------------------
(* Trees stay genuine when a node gets a value that it may hold. *)
Genuine(tree) ==
  /\ tree \in [Client -> [Node -> AnyValue]]
  /\ \A c \in Client : \A n \in Node : tree[c][n] \in ValueOf(c, n)

LEMMA TwoTrees == TreesGenuine <=> Genuine(mTree) /\ Genuine(cTree)
BY DEF TreesGenuine, Genuine

LEMMA WrittenTree ==
  ASSUME NEW tree, Genuine(tree), NEW c \in Client, NEW n \in Node, NEW v \in ValueOf(c, n)
  PROVE  Genuine([tree EXCEPT ![c][n] = v])
<1> DEFINE written == [tree EXCEPT ![c][n] = v]
<1>1. v \in AnyValue
  BY Values
<1>2. written \in [Client -> [Node -> AnyValue]]
  BY <1>1 DEF Genuine
<1>3. ASSUME NEW d \in Client, NEW m \in Node
      PROVE  written[d][m] = IF d = c /\ m = n THEN v ELSE tree[d][m]
  BY DEF Genuine
<1> HIDE DEF written
<1>4. ASSUME NEW d \in Client, NEW m \in Node
      PROVE  written[d][m] \in ValueOf(d, m)
  BY <1>3 DEF Genuine
<1>5. Genuine(written)
  BY <1>2, <1>4 DEF Genuine
<1> QED
  BY <1>5 DEF written

LEMMA EmptyTree == Genuine([c \in Client |-> [n \in Node |-> Unset]])
BY Values DEF Genuine

LEMMA InitIsBusInv == Init => BusInv
<1> SUFFICES ASSUME Init PROVE BusInv
  OBVIOUS
<1>1. TreesGenuine
  BY EmptyTree, TwoTrees DEF Init
<1>2. ProperQueues(rx)
  BY DEF Init, ProperQueues
<1> QED
  BY <1>1, <1>2 DEF Init, BusInv, CommunicationState

-----------------------------------------------------------------------------
(* The steps of the applications. *)
LEMMA MasterApplicationStep ==
  ASSUME BusInv, NEW c \in Client,
         \/ AddAndConnectToClient(c)
         \/ ApplicationReconnects(c)
         \/ \E n \in NodesIn(Master) : MasterSendsValue(c, n) \/ MasterSendsRead(c, n)
         \/ MasterTakesEvent(c)
  PROVE  BusInv'
<1> USE DEF BusInv
<1>1. CASE AddAndConnectToClient(c)
  <2>1. ProperQueues(rx')
    <3>1. ProperQueues(Delivered(<<InitRequest(c)>>, Master))
      BY MasterSends, SentData
         DEF SentByMaster, InitRequest, MessageTypes, INIT_COMMUNICATION_REQUEST, WRITE_NODE_VALUE_REQEUST
    <3> QED
      BY <1>1, <3>1 DEF AddAndConnectToClient
  <2> QED
    BY <1>1, <2>1 DEF AddAndConnectToClient, clientVars, TreesGenuine, CommunicationState
<1>2. CASE ApplicationReconnects(c)
  <2>1. ProperQueues(rx')
    BY <1>2, ReconnectSends DEF ApplicationReconnects
  <2> QED
    BY <1>2, <2>1 DEF ApplicationReconnects, clientVars, TreesGenuine, CommunicationState
<1>3. ASSUME NEW n \in NodesIn(Master), MasterSendsValue(c, n)
      PROVE  BusInv'
  <2> DEFINE value == Given(Master, c, n)
  <2>1. n \in Node /\ value \in ValueOf(c, n) /\ value \in AnyValue
    BY NodesAreNodes, Values, Devices
  <2>2. ValueData(Master, n, value) \in AnyData
    BY <2>1, SentData, Devices
  <2>3. CarriesValue(ValueData(Master, n, value), Master, c)
    BY <2>1 DEF CarriesValue
  <2>4. ProperQueues(rx')
    <3>1. ProperQueues(Delivered(<<Frame(Master, c, WRITE_NODE_VALUE_REQEUST,
                                         ValueData(Master, n, value))>>, Master))
      BY <2>2, <2>3, MasterSends DEF SentByMaster, MessageTypes, WRITE_NODE_VALUE_REQEUST
    <3> QED
      BY <1>3, <3>1 DEF MasterSendsValue
  <2>5. Genuine(mTree') /\ Genuine(cTree')
    BY <1>3, <2>1, WrittenTree, TwoTrees DEF MasterSendsValue, clientVars
  <2>6. TreesGenuine'
    BY <2>5 DEF Genuine, TreesGenuine
  <2> QED
    BY <1>3, <2>4, <2>6 DEF MasterSendsValue, clientVars
<1>4. ASSUME NEW n \in NodesIn(Master), MasterSendsRead(c, n)
      PROVE  BusInv'
  <2>1. ProperQueues(rx')
    <3>1. ProperQueues(Delivered(<<Frame(Master, c, READ_NODE_VALUE_REQEUST,
                                         ReadData(Master, n))>>, Master))
      BY MasterSends, SentData
         DEF SentByMaster, MessageTypes, READ_NODE_VALUE_REQEUST, WRITE_NODE_VALUE_REQEUST
    <3> QED
      BY <1>4, <3>1 DEF MasterSendsRead
  <2> QED
    BY <1>4, <2>1 DEF MasterSendsRead, masterVars, clientVars, TreesGenuine
<1>5. CASE MasterTakesEvent(c)
  BY <1>5 DEF MasterTakesEvent, clientVars, TreesGenuine
<1> QED
  BY <1>1, <1>2, <1>3, <1>4, <1>5

LEMMA ClientApplicationStep ==
  ASSUME BusInv, NEW c \in Client,
         \/ \E n \in NodesIn(c) : ClientSendsValue(c, n)
         \/ ClientTakesEvent(c)
  PROVE  BusInv'
<1> USE DEF BusInv
<1>1. ASSUME NEW n \in NodesIn(c), ClientSendsValue(c, n)
      PROVE  BusInv'
  <2> DEFINE value == Given(c, c, n)
             m == masterDeviceId[c]
  <2>1. n \in Node /\ value \in ValueOf(c, n) /\ value \in AnyValue /\ m \in {Master, 255}
    BY NodesAreNodes, Values, Devices
  <2>2. ValueData(c, n, value) \in AnyData
    BY <2>1, SentData, Devices
  <2>3. CarriesValue(ValueData(c, n, value), c, c)
    BY <2>1 DEF CarriesValue
  <2>4. ProperQueues(rx')
    <3>1. ProperQueues(Delivered(<<Frame(c, m, WRITE_NODE_VALUE_REQEUST,
                                         ValueData(c, n, value))>>, c))
      BY <2>1, <2>2, <2>3, ClientSends
         DEF SentByClient, MessageTypes, WRITE_NODE_VALUE_REQEUST, INIT_COMMUNICATION_REQUEST
    <3> QED
      BY <1>1, <3>1 DEF ClientSendsValue
  <2>5. Genuine(mTree') /\ Genuine(cTree')
    <3>1. Genuine(mTree) /\ Genuine(cTree)
      BY TwoTrees
    <3>2. Genuine([cTree EXCEPT ![c][n] = value])
      BY <2>1, <3>1, WrittenTree
    <3> QED
      BY <1>1, <3>1, <3>2 DEF ClientSendsValue, masterVars
  <2>6. TreesGenuine'
    BY <2>5 DEF Genuine, TreesGenuine
  <2> QED
    BY <1>1, <2>4, <2>6 DEF ClientSendsValue, masterVars
<1>2. CASE ClientTakesEvent(c)
  BY <1>2 DEF ClientTakesEvent, masterVars, TreesGenuine
<1> QED
  BY <1>1, <1>2

-----------------------------------------------------------------------------
(* The steps in which a client processes a frame. *)
LEMMA ClientFrameStep ==
  ASSUME AppendOnly, BusInv, NEW c \in Client, ClientProcessesFrame(c)
  PROVE  BusInv'
<1> USE DEF BusInv
<1>1. c \in Device /\ masterDeviceId[c] \in {Master, 255}
  BY Devices
<1>2. CASE ClientIgnores(c)
  BY <1>1, <1>2, ConsumedIsProper DEF ClientIgnores, masterVars, clientVars, TreesGenuine
<1>3. ASSUME rx[c] # << >>, NEW accepted \in BOOLEAN
      PROVE  ProperQueues(Answered(c, <<Frame(c, Master, INIT_COMMUNICATION_RESPONSE,
                                              Status(accepted))>>))
  <2>1. ProperQueues(Delivered(<<Frame(c, Master, INIT_COMMUNICATION_RESPONSE,
                                       Status(accepted))>>, c))
    BY ClientSends, SentData
       DEF SentByClient, MessageTypes, INIT_COMMUNICATION_RESPONSE, INIT_COMMUNICATION_REQUEST,
           WRITE_NODE_VALUE_REQEUST, READ_NODE_VALUE_RESPONSE
  <2> QED
    BY <1>1, <1>3, <2>1, AnsweredIsProper
<1>4. CASE ClientAccepts(c)
  <2>1. rx[c] # << >> /\ SourceDeviceId(Head(rx[c]).canId) = Master
    BY <1>4, HeadAtClient DEF ClientAccepts, NextFrame
  <2>2. ProperQueues(rx')
    BY <1>3, <1>4, <2>1 DEF ClientAccepts
  <2>3. masterDeviceId' \in [Client -> {Master, 255}]
    BY <1>4, <2>1 DEF ClientAccepts
  <2>4. /\ cState' \in [Client -> CommunicationState]
        /\ \A d \in Client : cState'[d] = "INITIALIZED" => masterDeviceId'[d] = Master
    <3>1. masterDeviceId' = [masterDeviceId EXCEPT ![c] = Master]
      BY <1>4, <2>1 DEF ClientAccepts
    <3>2. cState' = [cState EXCEPT ![c] = "INITIALIZED"]
      BY <1>4 DEF ClientAccepts
    <3> QED
      BY <3>1, <3>2 DEF CommunicationState
  <2> QED
    BY <1>4, <2>2, <2>3, <2>4 DEF ClientAccepts, masterVars, TreesGenuine
<1>5. CASE ClientRefuses(c)
  <2>1. rx[c] # << >> /\ SourceDeviceId(Head(rx[c]).canId) = Master
    BY <1>5, HeadAtClient DEF ClientRefuses, NextFrame
  <2>2. ProperQueues(rx')
    BY <1>3, <1>5, <2>1 DEF ClientRefuses
  <2>3. UNCHANGED <<masterVars, clientVars>>
    BY <1>5 DEF ClientRefuses
  <2> QED
    BY <2>2, <2>3 DEF masterVars, clientVars, TreesGenuine
<1>6. CASE ClientDisconnects(c)
  <2>1. ProperQueues(rx')
    BY <1>1, <1>6, ConsumedIsProper DEF ClientDisconnects, NextFrame
  <2>2. /\ cState' = [cState EXCEPT ![c] = "UNINITIALIZED"]
        /\ UNCHANGED <<masterVars, masterDeviceId, cTree>>
    BY <1>6 DEF ClientDisconnects
  <2> QED
    BY <2>1, <2>2 DEF CommunicationState, masterVars, TreesGenuine
<1>7. CASE ClientIsWritten(c)
  <2> DEFINE f == Head(rx[c])
             node == NodeInFrame(c, f)
  <2>1. rx[c] # << >> /\ MessageType(f.canId) = WRITE_NODE_VALUE_REQEUST
    BY <1>7 DEF ClientIsWritten, NextFrame
  <2>2. ProperQueues(rx')
    BY <1>1, <1>7, <2>1, ConsumedIsProper DEF ClientIsWritten
  <2>3. Genuine(mTree) /\ Genuine(cTree)
    BY TwoTrees
  <2>4. CASE Applies(c, f)
    <3>1. node \in Node
      BY <2>4 DEF Applies
    <3>2. SourceDeviceId(f.canId) \in Device /\ CarriesValue(f.data, SourceDeviceId(f.canId), c)
      BY <2>1, HeadAtClient
    <3>3. f.data.value \in ValueOf(c, node)
      BY <1>1, <3>1, <3>2, ValueForItsNode
    <3>4. Genuine([cTree EXCEPT ![c][node] = f.data.value])
      BY <2>3, <3>1, <3>3, WrittenTree
    <3> QED
      BY <1>7, <2>2, <2>3, <2>4, <3>4 DEF ClientIsWritten, masterVars, Genuine, TreesGenuine
  <2>5. CASE ~ Applies(c, f)
    BY <1>7, <2>2, <2>5 DEF ClientIsWritten, masterVars, TreesGenuine
  <2> QED
    BY <2>4, <2>5
<1>8. CASE ClientIsRead(c)
  <2> DEFINE f == Head(rx[c])
             node == NodeInFrame(c, f)
             data == ValueData(c, node, cTree[c][node])
             m == masterDeviceId[c]
  <2>1. rx[c] # << >> /\ m = Master
    BY <1>8 DEF ClientIsRead, NextFrame
  <2>2. CASE node \in Node
    <3>1. node \in NodesIn(c)
      BY <1>1, <2>2, FoundIsOwn
    <3>2. cTree[c][node] \in ValueOf(c, node) /\ cTree[c][node] \in AnyValue
      BY <2>2, Values DEF TreesGenuine
    <3>3. data \in AnyData /\ CarriesValue(data, c, c)
      BY <1>1, <3>1, <3>2, SentData DEF CarriesValue
    <3>4. ProperQueues(Delivered(<<Frame(c, m, READ_NODE_VALUE_RESPONSE, data)>>, c))
      BY <1>1, <2>1, <3>3, ClientSends
         DEF SentByClient, MessageTypes, READ_NODE_VALUE_RESPONSE, INIT_COMMUNICATION_REQUEST
    <3>5. ProperQueues(Answered(c, <<Frame(c, m, READ_NODE_VALUE_RESPONSE, data)>>))
      BY <1>1, <2>1, <3>4, AnsweredIsProper
    <3>6. ProperQueues(rx')
      BY <1>8, <2>2, <3>5 DEF ClientIsRead
    <3> QED
      BY <1>8, <3>6 DEF ClientIsRead, masterVars, clientVars, TreesGenuine
  <2>3. CASE node \notin Node
    <3>1. ProperQueues(rx')
      BY <1>1, <1>8, <2>1, <2>3, ConsumedIsProper DEF ClientIsRead
    <3> QED
      BY <1>8, <3>1 DEF ClientIsRead, masterVars, clientVars, TreesGenuine
  <2> QED
    BY <2>2, <2>3
<1> QED
  BY <1>2, <1>4, <1>5, <1>6, <1>7, <1>8 DEF ClientProcessesFrame

(* The steps in which the master processes a frame. *)
LEMMA MasterFrameStep ==
  ASSUME AppendOnly, BusInv, MasterProcessesFrame
  PROVE  BusInv'
<1> USE DEF BusInv
<1>1. Master \in Device
  BY Devices
<1>2. rx[Master] # << >> /\ Sender \in Client
  BY HeadAtMaster
     DEF MasterProcessesFrame, MasterGetsAccept, MasterGetsRefusal, MasterIgnoresResponse,
         MasterIsWritten, MasterGets, NextFrame
<1>3. ProperQueues(Consumed(Master))
  BY <1>1, <1>2, ConsumedIsProper
<1>4. CASE MasterGetsAccept
  BY <1>3, <1>4 DEF MasterGetsAccept, clientVars, TreesGenuine, CommunicationState
<1>5. CASE MasterGetsRefusal
  <2>1. ProperQueues(Answered(Master, ReconnectFrames(Sender)))
    BY <1>1, <1>2, ReconnectSends, AnsweredIsProper
  <2> QED
    BY <1>5, <2>1 DEF MasterGetsRefusal, masterVars, clientVars, TreesGenuine
<1>6. CASE MasterIgnoresResponse
  BY <1>3, <1>6 DEF MasterIgnoresResponse, masterVars, clientVars, TreesGenuine
<1>7. CASE MasterIsWritten
  <2> DEFINE f == Head(rx[Master])
             node == NodeInFrame(Master, f)
  <2>1. CarriesValue(f.data, Sender, Sender)
    BY <1>2, <1>7, HeadAtMaster DEF MasterIsWritten, MasterGets, NextFrame
  <2>2. Genuine(mTree) /\ Genuine(cTree)
    BY TwoTrees
  <2>3. CASE Applies(Master, f)
    <3>1. node \in Node
      BY <2>3 DEF Applies
    <3>2. f.data.value \in ValueOf(Sender, node)
      BY <1>1, <1>2, <2>1, <3>1, ValueForItsNode, Devices
    <3>3. Genuine([mTree EXCEPT ![Sender][node] = f.data.value])
      BY <1>2, <2>2, <3>1, <3>2, WrittenTree
    <3>4. TreesGenuine'
      BY <1>7, <2>2, <2>3, <3>3 DEF MasterIsWritten, clientVars, Genuine, TreesGenuine
    <3> QED
      BY <1>3, <1>7, <3>4 DEF MasterIsWritten, clientVars
  <2>4. CASE ~ Applies(Master, f)
    BY <1>3, <1>7, <2>4 DEF MasterIsWritten, clientVars, TreesGenuine
  <2> QED
    BY <2>3, <2>4
<1> QED
  BY <1>4, <1>5, <1>6, <1>7 DEF MasterProcessesFrame

(* The master's new process has the frames that are still to come. *)
LEMMA RestartStep ==
  ASSUME BusInv, MasterRestarts
  PROVE  BusInv'
<1> USE DEF BusInv
<1>1. PICK k \in 1 .. Len(rx[Master]) + 1 :
        rx' = [rx EXCEPT ![Master] = SubSeq(rx[Master], k, Len(rx[Master]))]
  BY DEF MasterRestarts
<1>2. rx[Master] \in Seq(Arrivals(Master)) /\ Master \in Device
  BY Devices DEF ProperQueues
<1>3. SubSeq(rx[Master], k, Len(rx[Master])) \in Seq(Arrivals(Master))
  <2>1. /\ Len(rx[Master]) \in Nat /\ k \in Int
        /\ \A i \in k .. Len(rx[Master]) : rx[Master][i] \in Arrivals(Master)
    BY <1>2, ElementOfSeq, LenProperties
  <2> QED
    BY <2>1, SubSeqProperties
<1>4. ProperQueues(rx')
  BY <1>1, <1>2, <1>3, TailIsProper
<1>5. TreesGenuine'
  BY EmptyTree DEF MasterRestarts, clientVars, Genuine, TreesGenuine
<1> QED
  BY <1>4, <1>5 DEF MasterRestarts, clientVars, CommunicationState

LEMMA EveryStep ==
  ASSUME AppendOnly, BusInv, [Next]_vars
  PROVE  BusInv'
<1>1. CASE UNCHANGED vars
  BY <1>1 DEF vars, masterVars, clientVars, BusInv, TreesGenuine
<1>2. ASSUME NEW c \in Client, ApplicationUses(c)
      PROVE  BusInv'
  BY <1>2, MasterApplicationStep, ClientApplicationStep DEF ApplicationUses
<1> QED
  BY <1>1, <1>2, MasterApplicationStep, ClientFrameStep, MasterFrameStep, RestartStep DEF Next

(* For any clients, trees and versions that only append: everything on the *)
(* bus is proper, and the trees are genuine.                               *)
THEOREM BusIsProper == ASSUME AppendOnly PROVE Spec => []BusInv
<1>1. BusInv /\ [Next]_vars => BusInv'
  BY EveryStep
<1> QED
  BY <1>1, InitIsBusInv, PTL DEF Spec

(* CanPackages.h and SOTMaster.h:226-238, for any clients and trees: no    *)
(* frame puts a value into the master's copy of another client or node,    *)
(* however many values are sent.                                           *)
THEOREM MasterCopiesGenuine == ASSUME AppendOnly PROVE Spec => []MasterCopyGenuine
<1>1. BusInv => MasterCopyGenuine
  BY ValueIsForItsNode DEF BusInv, TreesGenuine, MasterCopyGenuine
<1> QED
  BY <1>1, BusIsProper, PTL

(* SOTClient.h:168-180, for any clients and trees: nor into the client's   *)
(* own tree.                                                               *)
THEOREM ClientTreesGenuine == ASSUME AppendOnly PROVE Spec => []ClientTreeGenuine
<1>1. BusInv => ClientTreeGenuine
  BY ValueIsForItsNode DEF BusInv, TreesGenuine, ClientTreeGenuine
<1> QED
  BY <1>1, BusIsProper, PTL

-----------------------------------------------------------------------------
(* The frames of a source, as a link's: u has those of the beginnings of a *)
(* queue.                                                                  *)
Beginnings(u, source, device, q, n) ==
  u = [i \in 0 .. n |->
         IF i = 0 THEN << >>
         ELSE IF SourceDeviceId(q[i].canId) = source
           THEN Append(u[i - 1], LinkFrame(device, q[i]))
         ELSE u[i - 1]]

LEMMA BeginningsExist ==
  ASSUME NEW source, NEW device, NEW q, NEW n \in Nat
  PROVE  \E u : Beginnings(u, source, device, q, n)
<1> DEFINE Next1(s, i) == IF SourceDeviceId(q[i].canId) = source
                            THEN Append(s, LinkFrame(device, q[i])) ELSE s
           Rule(u, k) == u = [i \in 0 .. k |-> IF i = 0 THEN << >> ELSE Next1(u[i - 1], i)]
           S == {k \in Nat : \E u : Rule(u, k)}
<1> HIDE DEF Next1
<1>1. 0 \in S
  <2>1. Rule([i \in 0 .. 0 |-> << >>], 0)
    OBVIOUS
  <2>2. \E u : Rule(u, 0)
    <3> HIDE DEF Rule
    <3> QED BY <2>1, Zenon
  <2> HIDE DEF Rule
  <2> QED BY <2>2
<1>2. ASSUME NEW k \in Nat, k \in S
      PROVE  k + 1 \in S
  <2>1. PICK f : Rule(f, k)
    BY <1>2
  <2> DEFINE g == [i \in 0 .. k + 1 |-> IF i <= k THEN f[i] ELSE Next1(f[k], k + 1)]
  <2>2. ASSUME NEW i \in 0 .. k + 1
        PROVE  g[i] = IF i = 0 THEN << >> ELSE Next1(g[i - 1], i)
    <3>1. CASE i <= k
      <4>1. i \in 0 .. k /\ (i # 0 => i - 1 \in 0 .. k)
        BY <3>1
      <4>2. f[i] = IF i = 0 THEN << >> ELSE Next1(f[i - 1], i)
        BY <4>1, <2>1
      <4>3. g[i] = f[i] /\ (i # 0 => g[i - 1] = f[i - 1])
        BY <4>1
      <4> HIDE DEF g
      <4> QED BY <4>2, <4>3
    <3>2. CASE i = k + 1
      <4>1. g[i] = Next1(f[k], k + 1) /\ g[k] = f[k] /\ i - 1 = k /\ i # 0
        BY <3>2
      <4> HIDE DEF g
      <4> QED BY <4>1, <3>2
    <3> QED BY <3>1, <3>2
  <2>3. Rule(g, k + 1)
    <3>1. g = [i \in 0 .. k + 1 |-> g[i]]
      OBVIOUS
    <3>2. \A i \in 0 .. k + 1 : g[i] = IF i = 0 THEN << >> ELSE Next1(g[i - 1], i)
      BY <2>2, Zenon
    <3> HIDE DEF g
    <3> QED BY <3>1, <3>2
  <2>4. \E h : Rule(h, k + 1)
    <3> HIDE DEF g, Rule
    <3> QED BY <2>3, Zenon
  <2> HIDE DEF Rule
  <2> QED BY <2>4
<1>3. n \in S
  <2> HIDE DEF S
  <2> QED BY <1>1, <1>2, InductiveSet, Zenon
<1>4. \E u : Rule(u, n)
  BY <1>3
<1> QED BY <1>4 DEF Next1, Beginnings

(* What the frames of a queue are as frames of a link.                     *)
LinkFramesIn(device, S) == {LinkFrame(device, f) : f \in S}

FrameByFrame(F, source, device, S, q) ==
  /\ F \in [0 .. Len(q) -> Seq(LinkFramesIn(device, S))]
  /\ F[0] = << >>
  /\ F[Len(q)] = LinkFrames(source, device, q)
  /\ \A k \in 0 .. Len(q) - 1 :
       F[k + 1] = IF SourceDeviceId(q[k + 1].canId) = source
                    THEN Append(F[k], LinkFrame(device, q[k + 1])) ELSE F[k]

LEMMA LinkFramesSteps ==
  ASSUME NEW source, NEW device, NEW S, NEW q \in Seq(S)
  PROVE  \E F : FrameByFrame(F, source, device, S, q)
<1> DEFINE n == Len(q)
           T == LinkFramesIn(device, S)
           Rule(u) == Beginnings(u, source, device, q, n)
           F == CHOOSE u : Rule(u)
<1>1. n \in Nat /\ \A i \in 1 .. n : q[i] \in S /\ LinkFrame(device, q[i]) \in T
  BY ElementOfSeq DEF LinkFramesIn
<1>2. Rule(F)
  <2>1. \E u : Rule(u)
    BY <1>1, BeginningsExist
  <2> HIDE DEF Rule
  <2> QED BY <2>1, Zenon
<1>3. F[n] = LinkFrames(source, device, q)
  BY DEF LinkFrames, Beginnings
<1> HIDE DEF F
<1>4. F[0] = << >> /\ F = [i \in 0 .. n |-> F[i]]
  BY <1>1, <1>2 DEF Beginnings
<1>5. ASSUME NEW k \in 0 .. n - 1
      PROVE  F[k + 1] = IF SourceDeviceId(q[k + 1].canId) = source
                          THEN Append(F[k], LinkFrame(device, q[k + 1])) ELSE F[k]
  <2>1. k + 1 \in 0 .. n /\ k + 1 # 0 /\ (k + 1) - 1 = k
    BY <1>1
  <2> QED BY <1>2, <2>1 DEF Beginnings
<1>6. \A k \in 0 .. n : F[k] \in Seq(T)
  <2> DEFINE Z == {k \in Nat : k <= n => F[k] \in Seq(T)}
  <2>1. 0 \in Z
    BY <1>4
  <2>2. ASSUME NEW k \in Nat, k \in Z PROVE k + 1 \in Z
    <3>1. SUFFICES ASSUME k + 1 <= n PROVE F[k + 1] \in Seq(T)
      OBVIOUS
    <3>2. k \in 0 .. n - 1 /\ k + 1 \in 1 .. n /\ F[k] \in Seq(T)
      BY <3>1, <2>2, <1>1
    <3>3. LinkFrame(device, q[k + 1]) \in T
      BY <3>2, <1>1
    <3> HIDE DEF T
    <3>4. Append(F[k], LinkFrame(device, q[k + 1])) \in Seq(T)
      BY <3>2, <3>3, AppendProperties
    <3> QED BY <3>2, <3>4, <1>5
  <2>3. \A k \in Nat : k \in Z
    <3> HIDE DEF Z
    <3> QED BY <2>1, <2>2, InductiveSet, Zenon
  <2> QED BY <2>3, <1>1
<1>7. F \in [0 .. n -> Seq(T)]
  <2> HIDE DEF T
  <2> QED BY <1>4, <1>6
<1> HIDE DEF Rule
<1>8. FrameByFrame(F, source, device, S, q)
  BY <1>3, <1>4, <1>5, <1>7 DEF FrameByFrame
<1> QED BY <1>8, Zenon

LEMMA LinkFramesType ==
  ASSUME NEW source, NEW device, NEW S, NEW q \in Seq(S)
  PROVE  LinkFrames(source, device, q) \in Seq(LinkFramesIn(device, S))
<1>1. PICK F : FrameByFrame(F, source, device, S, q)
  BY LinkFramesSteps
<1>2. Len(q) \in 0 .. Len(q)
  BY LenProperties
<1> QED BY <1>1, <1>2 DEF FrameByFrame

(* The link's frames of two queues, one behind the other.                  *)
LEMMA LinkFramesOfConcat ==
  ASSUME NEW source, NEW device, NEW S, NEW q \in Seq(S), NEW r \in Seq(S)
  PROVE  LinkFrames(source, device, q \o r)
           = LinkFrames(source, device, q) \o LinkFrames(source, device, r)
<1> DEFINE n == Len(q)
           m == Len(r)
           qr == q \o r
           T == LinkFramesIn(device, S)
           kept(f) == SourceDeviceId(f.canId) = source
           as(f) == LinkFrame(device, f)
<1>1. /\ n \in Nat /\ m \in Nat /\ qr \in Seq(S) /\ Len(qr) = n + m
      /\ \A i \in 1 .. n : qr[i] = q[i]
      /\ \A i \in 1 .. m : qr[n + i] = r[i]
      /\ \A i \in 1 .. m : r[i] \in S
  <2>1. qr \in Seq(S) /\ Len(qr) = n + m
    BY ConcatProperties
  <2>2. n \in Nat /\ m \in Nat
    BY LenProperties
  <2>3. \A i \in 1 .. m : n + i \in 1 .. n + m /\ ~ (n + i <= n) /\ (n + i) - n = i
    BY <2>2
  <2>4. \A i \in 1 .. n : i \in 1 .. n + m /\ i <= n
    BY <2>2
  <2> QED BY <2>1, <2>2, <2>3, <2>4, ConcatProperties, ElementOfSeq
<1> HIDE DEF qr
<1>2. PICK F : FrameByFrame(F, source, device, S, q)
  BY LinkFramesSteps
<1>3. PICK G : FrameByFrame(G, source, device, S, r)
  BY LinkFramesSteps
<1>4. PICK H : FrameByFrame(H, source, device, S, qr)
  BY <1>1, LinkFramesSteps
<1>10. /\ F \in [0 .. n -> Seq(T)] /\ F[0] = << >> /\ F[n] = LinkFrames(source, device, q)
       /\ \A k \in 0 .. n - 1 :
            F[k + 1] = IF kept(q[k + 1]) THEN Append(F[k], as(q[k + 1])) ELSE F[k]
  BY <1>2 DEF FrameByFrame
<1>11. /\ G \in [0 .. m -> Seq(T)] /\ G[0] = << >> /\ G[m] = LinkFrames(source, device, r)
       /\ \A k \in 0 .. m - 1 :
            G[k + 1] = IF kept(r[k + 1]) THEN Append(G[k], as(r[k + 1])) ELSE G[k]
  BY <1>3 DEF FrameByFrame
<1>12. /\ H \in [0 .. n + m -> Seq(T)] /\ H[0] = << >>
       /\ H[n + m] = LinkFrames(source, device, qr)
       /\ \A k \in 0 .. (n + m) - 1 :
            H[k + 1] = IF kept(qr[k + 1]) THEN Append(H[k], as(qr[k + 1])) ELSE H[k]
  BY <1>1, <1>4 DEF FrameByFrame
<1>5. \A f \in S : as(f) \in T
  BY DEF LinkFramesIn
<1> HIDE DEF kept, as, T, n, m
<1>6. H[n] = F[n]
  <2> DEFINE Z == {k \in Nat : k <= n => H[k] = F[k]}
  <2>1. 0 \in Z
    BY <1>10, <1>12
  <2>2. ASSUME NEW k \in Nat, k \in Z PROVE k + 1 \in Z
    <3>1. SUFFICES ASSUME k + 1 <= n PROVE H[k + 1] = F[k + 1]
      OBVIOUS
    <3>2. /\ k \in 0 .. n - 1 /\ k \in 0 .. (n + m) - 1 /\ k + 1 \in 1 .. n
          /\ H[k] = F[k]
      BY <3>1, <2>2, <1>1
    <3>3. qr[k + 1] = q[k + 1]
      BY <3>2, <1>1
    <3>4. F[k + 1] = IF kept(q[k + 1]) THEN Append(F[k], as(q[k + 1])) ELSE F[k]
      BY <3>2, <1>10
    <3>5. H[k + 1] = IF kept(qr[k + 1]) THEN Append(H[k], as(qr[k + 1])) ELSE H[k]
      BY <3>2, <1>12
    <3> QED BY <3>2, <3>3, <3>4, <3>5
  <2>3. n \in Z
    <3> HIDE DEF Z
    <3> QED BY <2>1, <2>2, <1>1, InductiveSet, Zenon
  <2> QED BY <2>3, <1>1
<1>7. H[n + m] = F[n] \o G[m]
  <2> DEFINE Joined(k) == H[n + k] = F[n] \o G[k]
             Z == {k \in Nat : k <= m => Joined(k)}
  <2>1. n \in 0 .. n /\ F[n] \in Seq(T)
    BY <1>1, <1>10
  <2>2. 0 \in Z
    <3>1. F[n] \o << >> = F[n] /\ n + 0 = n
      BY <2>1, <1>1, ConcatEmptySeq
    <3> QED BY <3>1, <1>11, <1>6
  <2>3. ASSUME NEW k \in Nat, k \in Z PROVE k + 1 \in Z
    <3> HIDE DEF Joined
    <3>1. SUFFICES ASSUME k + 1 <= m PROVE Joined(k + 1)
      OBVIOUS
    <3>2. /\ k \in 0 .. m - 1 /\ k \in 0 .. m /\ n + k \in 0 .. (n + m) - 1 /\ k + 1 \in 1 .. m
          /\ n + (k + 1) = (n + k) + 1 /\ Joined(k)
      BY <3>1, <2>3, <1>1
    <3> USE DEF Joined
    <3>3. qr[(n + k) + 1] = r[k + 1] /\ r[k + 1] \in S
      <4>1. qr[n + (k + 1)] = r[k + 1] /\ r[k + 1] \in S
        BY <3>2, <1>1
      <4> QED BY <4>1, <3>2
    <3>4. G[k + 1] = IF kept(r[k + 1]) THEN Append(G[k], as(r[k + 1])) ELSE G[k]
      BY <3>2, <1>11
    <3>5. H[(n + k) + 1] = IF kept(r[k + 1]) THEN Append(H[n + k], as(r[k + 1])) ELSE H[n + k]
      BY <3>2, <3>3, <1>12
    <3>6. CASE ~ kept(r[k + 1])
      BY <3>2, <3>4, <3>5, <3>6
    <3>7. CASE kept(r[k + 1])
      <4>1. as(r[k + 1]) \in T /\ F[n] \in Seq(T) /\ G[k] \in Seq(T)
        BY <3>2, <3>3, <2>1, <1>5, <1>10, <1>11
      <4>2. Append(F[n] \o G[k], as(r[k + 1])) = F[n] \o Append(G[k], as(r[k + 1]))
        <5> DEFINE e == as(r[k + 1])
                   a == F[n]
                   b == G[k]
        <5>1. e \in T /\ a \in Seq(T) /\ b \in Seq(T)
          BY <4>1
        <5> HIDE DEF a, b, e
        <5>2. a \o b \in Seq(T) /\ <<e>> \in Seq(T)
          BY <5>1, ConcatProperties
        <5>3. Append(a \o b, e) = (a \o b) \o <<e>> /\ Append(b, e) = b \o <<e>>
          BY <5>1, <5>2, AppendIsConcat
        <5>4. Append(a \o b, e) = a \o Append(b, e)
          BY <5>1, <5>2, <5>3, ConcatAssociative
        <5> QED BY <5>4 DEF a, b, e
      <4>3. G[k + 1] = Append(G[k], as(r[k + 1])) /\ H[(n + k) + 1] = Append(H[n + k], as(r[k + 1]))
        BY <3>4, <3>5, <3>7, Zenon
      <4>4. H[n + k] = F[n] \o G[k] /\ n + (k + 1) = (n + k) + 1
        BY <3>2
      <4> QED BY <4>2, <4>3, <4>4, Zenon
    <3> QED BY <3>6, <3>7
  <2>4. \A k \in Nat : k \in Z
    <3> HIDE DEF Z
    <3> QED BY <2>2, <2>3, InductiveSet, Zenon
  <2>5. Joined(m)
    <3> HIDE DEF Joined
    <3> QED BY <2>4, <1>1
  <2> QED BY <2>5
<1> QED BY <1>10, <1>11, <1>12, <1>6, <1>7 DEF qr

LEMMA LinkFramesOfOne ==
  ASSUME NEW source, NEW device, NEW f
  PROVE  /\ LinkFrames(source, device, << >>) = << >>
         /\ LinkFrames(source, device, <<f>>)
              = IF SourceDeviceId(f.canId) = source THEN <<LinkFrame(device, f)>> ELSE << >>
<1>1. << >> \in Seq({f}) /\ Len(<< >>) = 0 /\ <<f>> \in Seq({f}) /\ Len(<<f>>) = 1 /\ <<f>>[1] = f
  OBVIOUS
<1>2. LinkFrames(source, device, << >>) = << >>
  <2>1. PICK F : FrameByFrame(F, source, device, {f}, << >>)
    BY <1>1, LinkFramesSteps
  <2> QED BY <1>1, <2>1 DEF FrameByFrame
<1>3. PICK F : FrameByFrame(F, source, device, {f}, <<f>>)
  BY <1>1, LinkFramesSteps
<1>4. /\ F[0] = << >> /\ F[1] = LinkFrames(source, device, <<f>>)
      /\ F[1] = IF SourceDeviceId(f.canId) = source
                  THEN Append(F[0], LinkFrame(device, f)) ELSE F[0]
  <2>1. 0 \in 0 .. Len(<<f>>) - 1 /\ 0 + 1 = 1
    BY <1>1
  <2>2. F[0 + 1] = IF SourceDeviceId(<<f>>[0 + 1].canId) = source
                     THEN Append(F[0], LinkFrame(device, <<f>>[0 + 1])) ELSE F[0]
    BY <1>3, <2>1 DEF FrameByFrame
  <2> QED BY <1>1, <1>3, <2>1, <2>2 DEF FrameByFrame
<1>5. Append(<< >>, LinkFrame(device, f)) = <<LinkFrame(device, f)>>
  OBVIOUS
<1> QED BY <1>2, <1>4, <1>5

(* The head of a queue is the next frame of its source's link.             *)
Before(frame, rest) == <<frame>> \o rest

LEMMA LinkFramesOfHead ==
  ASSUME NEW source, NEW device, NEW S, NEW q \in Seq(S), q # << >>
  PROVE  LET rest == LinkFrames(source, device, Tail(q))
         IN  LinkFrames(source, device, q)
               = IF SourceDeviceId(Head(q).canId) = source
                   THEN Before(LinkFrame(device, Head(q)), rest) ELSE rest
<1> DEFINE h == Head(q)
           t == Tail(q)
           rest == LinkFrames(source, device, t)
<1>1. h \in S /\ t \in Seq(S) /\ <<h>> \in Seq(S) /\ q = <<h>> \o t
  <2>1. h \in S /\ t \in Seq(S) /\ Len(t) = Len(q) - 1
    BY HeadTailProperties
  <2>2. Len(q) \in Nat \ {0} /\ <<h>> \in Seq(S)
    BY <2>1, EmptySeq
  <2>3. q = <<h>> \o t
    OBVIOUS
  <2> QED BY <2>1, <2>2, <2>3
<1>2. rest \in Seq(LinkFramesIn(device, S))
  BY <1>1, LinkFramesType
<1> HIDE DEF h, t
<1>3. LinkFrames(source, device, q) = LinkFrames(source, device, <<h>>) \o rest
  <2> DEFINE first == <<h>>
  <2>1. first \in Seq(S) /\ t \in Seq(S) /\ q = first \o t
    BY <1>1
  <2> HIDE DEF first
  <2>2. LinkFrames(source, device, first \o t) = LinkFrames(source, device, first) \o rest
    BY <2>1, LinkFramesOfConcat
  <2>3. LinkFrames(source, device, q) = LinkFrames(source, device, first) \o rest
    BY <2>1, <2>2
  <2> QED BY <2>3 DEF first
<1>4. << >> \o rest = rest
  BY <1>2, ConcatEmptySeq
<1>5. LinkFrames(source, device, <<h>>)
        = IF SourceDeviceId(h.canId) = source THEN <<LinkFrame(device, h)>> ELSE << >>
  BY LinkFramesOfOne
<1>6. LinkFrames(source, device, q)
        = IF SourceDeviceId(h.canId) = source THEN <<LinkFrame(device, h)>> \o rest ELSE rest
  <2> HIDE DEF rest
  <2> QED BY <1>3, <1>4, <1>5
<1> QED BY <1>6 DEF h, t, Before

-----------------------------------------------------------------------------
(* The channels of the link, of any queues.                                *)
ToClients(queues) == [c \in Client |-> LinkFrames(Master, c, queues[c])]
ToMasters(queues) == [c \in Client |-> LinkFrames(c, Master, queues[Master])]

LEMMA QueueTypes ==
  ASSUME NEW queues, ProperQueues(queues), NEW d \in Device
  PROVE  queues[d] \in Seq(Arrivals(d))
BY DEF ProperQueues

LEMMA QueueChanged ==
  ASSUME NEW queues, ProperQueues(queues), NEW d \in Device, NEW q
  PROVE  /\ [queues EXCEPT ![d] = q][d] = q
         /\ \A e \in Device \ {d} : [queues EXCEPT ![d] = q][e] = queues[e]
BY DEF ProperQueues

(* Changing a client's queue changes the channel to this client, changing  *)
(* the master's the channels to the master.                                *)
LEMMA ChangedAtClient ==
  ASSUME NEW queues, ProperQueues(queues), NEW c \in Client, NEW q
  PROVE  /\ ToClients([queues EXCEPT ![c] = q])
              = [ToClients(queues) EXCEPT ![c] = LinkFrames(Master, c, q)]
         /\ ToMasters([queues EXCEPT ![c] = q]) = ToMasters(queues)
<1> DEFINE changed == [queues EXCEPT ![c] = q]
<1>1. changed[c] = q /\ \A e \in Device \ {c} : changed[e] = queues[e]
  BY QueueChanged, Devices
<1> HIDE DEF changed
<1>2. \A e \in Client \ {c} : e \in Device \ {c}
  BY Devices
<1>3. ToClients(changed) = [ToClients(queues) EXCEPT ![c] = LinkFrames(Master, c, q)]
  BY <1>1, <1>2 DEF ToClients
<1>4. changed[Master] = queues[Master]
  BY <1>1, Devices
<1>5. ToMasters(changed) = ToMasters(queues)
  BY <1>4 DEF ToMasters
<1> QED BY <1>3, <1>5 DEF changed

LEMMA ChangedAtMaster ==
  ASSUME NEW queues, ProperQueues(queues), NEW q
  PROVE  /\ ToClients([queues EXCEPT ![Master] = q]) = ToClients(queues)
         /\ ToMasters([queues EXCEPT ![Master] = q])
              = [c \in Client |-> LinkFrames(c, Master, q)]
<1> DEFINE changed == [queues EXCEPT ![Master] = q]
<1>1. changed[Master] = q /\ \A e \in Device \ {Master} : changed[e] = queues[e]
  BY QueueChanged, Devices
<1> HIDE DEF changed
<1>2. \A e \in Client : e \in Device \ {Master}
  BY Devices
<1>3. ToClients(changed) = ToClients(queues)
  BY <1>1, <1>2 DEF ToClients
<1>4. ToMasters(changed) = [c \in Client |-> LinkFrames(c, Master, q)]
  BY <1>1 DEF ToMasters
<1> QED BY <1>3, <1>4 DEF changed

(* Frames sent to a client get to the end of its channel.                  *)
LEMMA SentToClient ==
  ASSUME NEW queues, ProperQueues(queues), NEW c \in Client, NEW frames \in Seq(Arrivals(c))
  PROVE  /\ ToClients([queues EXCEPT ![c] = queues[c] \o frames])
              = [ToClients(queues) EXCEPT ![c] = @ \o LinkFrames(Master, c, frames)]
         /\ ToMasters([queues EXCEPT ![c] = queues[c] \o frames]) = ToMasters(queues)
<1> DEFINE q == queues[c]
           longer == q \o frames
<1>1. q \in Seq(Arrivals(c))
  BY QueueTypes, Devices
<1>2. ToClients(queues)[c] = LinkFrames(Master, c, q)
  BY DEF ToClients
<1> HIDE DEF q
<1>3. LinkFrames(Master, c, longer) = LinkFrames(Master, c, q) \o LinkFrames(Master, c, frames)
  BY <1>1, LinkFramesOfConcat
<1> HIDE DEF longer
<1>4. /\ ToClients([queues EXCEPT ![c] = longer])
           = [ToClients(queues) EXCEPT ![c] = LinkFrames(Master, c, longer)]
      /\ ToMasters([queues EXCEPT ![c] = longer]) = ToMasters(queues)
  BY ChangedAtClient
<1>5. ToClients([queues EXCEPT ![c] = longer])
        = [ToClients(queues) EXCEPT ![c] = @ \o LinkFrames(Master, c, frames)]
  BY <1>2, <1>3, <1>4, Zenon
<1> QED BY <1>4, <1>5 DEF longer, q

(* A frame that the master does not send is not in the channel.            *)
LEMMA SentByOther ==
  ASSUME NEW queues, ProperQueues(queues), NEW c \in Client, NEW f \in Arrivals(c),
         SourceDeviceId(f.canId) # Master
  PROVE  /\ ToClients([queues EXCEPT ![c] = queues[c] \o <<f>>]) = ToClients(queues)
         /\ ToMasters([queues EXCEPT ![c] = queues[c] \o <<f>>]) = ToMasters(queues)
<1> DEFINE old == LinkFrames(Master, c, queues[c])
<1>1. queues[c] \in Seq(Arrivals(c)) /\ <<f>> \in Seq(Arrivals(c))
  BY QueueTypes, Devices
<1>2. LinkFrames(Master, c, <<f>>) = << >>
  BY LinkFramesOfOne
<1>3. old \in Seq(LinkFramesIn(c, Arrivals(c))) /\ ToClients(queues)[c] = old
  BY <1>1, LinkFramesType DEF ToClients
<1>4. [ToClients(queues) EXCEPT ![c] = @ \o LinkFrames(Master, c, <<f>>)] = ToClients(queues)
  <2> HIDE DEF old
  <2>1. old \o << >> = old
    BY <1>3, ConcatEmptySeq
  <2>2. [ToClients(queues) EXCEPT ![c] = old] = ToClients(queues)
    BY <1>3 DEF ToClients
  <2> QED BY <1>2, <1>3, <2>1, <2>2
<1>5. /\ ToClients([queues EXCEPT ![c] = queues[c] \o <<f>>])
           = [ToClients(queues) EXCEPT ![c] = @ \o LinkFrames(Master, c, <<f>>)]
      /\ ToMasters([queues EXCEPT ![c] = queues[c] \o <<f>>]) = ToMasters(queues)
  <2> DEFINE frames == <<f>>
  <2>1. frames \in Seq(Arrivals(c))
    BY <1>1
  <2> HIDE DEF frames
  <2>2. /\ ToClients([queues EXCEPT ![c] = queues[c] \o frames])
             = [ToClients(queues) EXCEPT ![c] = @ \o LinkFrames(Master, c, frames)]
        /\ ToMasters([queues EXCEPT ![c] = queues[c] \o frames]) = ToMasters(queues)
    BY <2>1, SentToClient
  <2> QED BY <2>2 DEF frames
<1> QED BY <1>4, <1>5, Zenon

(* A client's frame gets to the end of its channel.                        *)
LEMMA SentToMaster ==
  ASSUME NEW queues, ProperQueues(queues), NEW c \in Client, NEW f \in Arrivals(Master),
         SourceDeviceId(f.canId) = c
  PROVE  /\ ToClients([queues EXCEPT ![Master] = queues[Master] \o <<f>>]) = ToClients(queues)
         /\ ToMasters([queues EXCEPT ![Master] = queues[Master] \o <<f>>])
              = [ToMasters(queues) EXCEPT ![c] = Append(@, LinkFrame(Master, f))]
<1> DEFINE q == queues[Master]
           T == LinkFramesIn(Master, Arrivals(Master))
<1>1. q \in Seq(Arrivals(Master)) /\ <<f>> \in Seq(Arrivals(Master))
  BY QueueTypes, Devices
<1>2. ASSUME NEW e \in Client
      PROVE  LinkFrames(e, Master, q \o <<f>>)
               = IF e = c THEN Append(LinkFrames(e, Master, q), LinkFrame(Master, f))
                 ELSE LinkFrames(e, Master, q)
  <2>1. LinkFrames(e, Master, q \o <<f>>)
          = LinkFrames(e, Master, q) \o LinkFrames(e, Master, <<f>>)
    <3> DEFINE one == <<f>>
    <3>1. one \in Seq(Arrivals(Master)) /\ q \in Seq(Arrivals(Master))
      BY <1>1
    <3> HIDE DEF one, q
    <3>2. LinkFrames(e, Master, q \o one) = LinkFrames(e, Master, q) \o LinkFrames(e, Master, one)
      BY <3>1, LinkFramesOfConcat
    <3> QED BY <3>2 DEF one
  <2>2. LinkFrames(e, Master, <<f>>) = IF e = c THEN <<LinkFrame(Master, f)>> ELSE << >>
    BY LinkFramesOfOne
  <2>3. LinkFrames(e, Master, q) \in Seq(T) /\ LinkFrame(Master, f) \in T
    BY <1>1, LinkFramesType DEF LinkFramesIn
  <2> HIDE DEF q, T
  <2>4. /\ LinkFrames(e, Master, q) \o << >> = LinkFrames(e, Master, q)
        /\ LinkFrames(e, Master, q) \o <<LinkFrame(Master, f)>>
             = Append(LinkFrames(e, Master, q), LinkFrame(Master, f))
    BY <2>3, ConcatEmptySeq, AppendIsConcat
  <2> QED BY <2>1, <2>2, <2>4
<1>3. [e \in Client |-> LinkFrames(e, Master, q \o <<f>>)]
        = [ToMasters(queues) EXCEPT ![c] = Append(@, LinkFrame(Master, f))]
  BY <1>2 DEF ToMasters
<1> DEFINE longer == q \o <<f>>
<1>4. /\ ToClients([queues EXCEPT ![Master] = longer]) = ToClients(queues)
      /\ ToMasters([queues EXCEPT ![Master] = longer])
           = [e \in Client |-> LinkFrames(e, Master, longer)]
  <2> HIDE DEF longer
  <2> QED BY ChangedAtMaster
<1> QED BY <1>3, <1>4

(* Consuming a frame of the master takes the head out of its channel.      *)
LEMMA HeadOfChannel ==
  ASSUME NEW S, NEW e, NEW r \in Seq(S), e \in S
  PROVE  <<e>> \o r # << >> /\ Head(<<e>> \o r) = e /\ Tail(<<e>> \o r) = r
<1>1. <<e>> \o r \in Seq(S) /\ Len(<<e>> \o r) = 1 + Len(r) /\ Len(r) \in Nat
  BY ConcatProperties
<1> QED BY <1>1

-----------------------------------------------------------------------------
(* A frame out of a client's queue is the next one of its channel, when    *)
(* the master has sent it; others are in no channel.                       *)
LEMMA TakenAtClient ==
  ASSUME NEW queues, ProperQueues(queues), NEW c \in Client, queues[c] # << >>
  PROVE  LET f == Head(queues[c])
             taken == [queues EXCEPT ![c] = Tail(queues[c])]
         IN  /\ ToMasters(taken) = ToMasters(queues)
             /\ SourceDeviceId(f.canId) = Master =>
                  /\ ToClients(queues)[c] # << >>
                  /\ Head(ToClients(queues)[c]) = LinkFrame(c, f)
                  /\ ToClients(taken) = [ToClients(queues) EXCEPT ![c] = Tail(@)]
             /\ SourceDeviceId(f.canId) # Master => ToClients(taken) = ToClients(queues)
<1> DEFINE q == queues[c]
           f == Head(q)
           rest == LinkFrames(Master, c, Tail(q))
           e == LinkFrame(c, f)
           T == LinkFramesIn(c, Arrivals(c))
           taken == [queues EXCEPT ![c] = Tail(q)]
<1>1. q \in Seq(Arrivals(c)) /\ q # << >>
  BY QueueTypes, Devices
<1>2. Tail(q) \in Seq(Arrivals(c)) /\ f \in Arrivals(c)
  BY <1>1, HeadTailProperties
<1>3. rest \in Seq(T) /\ e \in T
  <2> DEFINE t == Tail(q)
  <2>1. t \in Seq(Arrivals(c))
    BY <1>2
  <2> HIDE DEF t
  <2>2. LinkFrames(Master, c, t) \in Seq(T)
    BY <2>1, LinkFramesType
  <2> QED BY <1>2, <2>2 DEF t, LinkFramesIn
<1>4. ToClients(queues)[c] = LinkFrames(Master, c, q)
  BY DEF ToClients
<1>5. LinkFrames(Master, c, q)
        = IF SourceDeviceId(f.canId) = Master THEN Before(e, rest) ELSE rest
  <2> HIDE DEF q
  <2> QED BY <1>1, LinkFramesOfHead
<1>6. /\ ToClients(taken) = [ToClients(queues) EXCEPT ![c] = rest]
      /\ ToMasters(taken) = ToMasters(queues)
  <2> DEFINE t == Tail(q)
  <2> HIDE DEF t
  <2>1. /\ ToClients([queues EXCEPT ![c] = t])
             = [ToClients(queues) EXCEPT ![c] = LinkFrames(Master, c, t)]
        /\ ToMasters([queues EXCEPT ![c] = t]) = ToMasters(queues)
    BY ChangedAtClient
  <2> QED BY <2>1 DEF t
<1>7. ASSUME SourceDeviceId(f.canId) = Master
      PROVE  /\ ToClients(queues)[c] # << >>
             /\ Head(ToClients(queues)[c]) = e
             /\ ToClients(taken) = [ToClients(queues) EXCEPT ![c] = Tail(@)]
  <2>1. ToClients(queues)[c] = <<e>> \o rest
    BY <1>4, <1>5, <1>7 DEF Before
  <2> HIDE DEF rest, e, T, taken
  <2>2. <<e>> \o rest # << >> /\ Head(<<e>> \o rest) = e /\ Tail(<<e>> \o rest) = rest
    BY <1>3, HeadOfChannel
  <2> QED BY <1>6, <2>1, <2>2, Zenon
<1>8. ASSUME SourceDeviceId(f.canId) # Master
      PROVE  ToClients(taken) = ToClients(queues)
  <2>1. ToClients(queues)[c] = rest
    BY <1>4, <1>5, <1>8
  <2> HIDE DEF rest, taken
  <2>2. [ToClients(queues) EXCEPT ![c] = rest] = ToClients(queues)
    BY <2>1 DEF ToClients
  <2> QED BY <1>6, <2>2
<1> QED BY <1>6, <1>7, <1>8

LEMMA TakenAtMaster ==
  ASSUME NEW queues, ProperQueues(queues), queues[Master] # << >>
  PROVE  LET f == Head(queues[Master])
             c == SourceDeviceId(f.canId)
             taken == [queues EXCEPT ![Master] = Tail(queues[Master])]
         IN  /\ ToClients(taken) = ToClients(queues)
             /\ ToMasters(queues)[c] # << >>
             /\ Head(ToMasters(queues)[c]) = LinkFrame(Master, f)
             /\ ToMasters(taken) = [ToMasters(queues) EXCEPT ![c] = Tail(@)]
<1> DEFINE q == queues[Master]
           f == Head(q)
           c == SourceDeviceId(f.canId)
           rest(d) == LinkFrames(d, Master, Tail(q))
           e == LinkFrame(Master, f)
           T == LinkFramesIn(Master, Arrivals(Master))
           taken == [queues EXCEPT ![Master] = Tail(q)]
<1>1. q \in Seq(Arrivals(Master)) /\ q # << >>
  BY QueueTypes, Devices
<1>2. Tail(q) \in Seq(Arrivals(Master)) /\ f \in Arrivals(Master)
  BY <1>1, HeadTailProperties
<1>3. c \in Client
  BY <1>2 DEF Arrivals, Proper
<1>4. e \in T /\ \A d \in Client : rest(d) \in Seq(T)
  <2> DEFINE t == Tail(q)
  <2>1. t \in Seq(Arrivals(Master))
    BY <1>2
  <2> HIDE DEF t
  <2>2. \A d \in Client : LinkFrames(d, Master, t) \in Seq(T)
    BY <2>1, LinkFramesType
  <2> QED BY <1>2, <2>2 DEF t, LinkFramesIn
<1>5. \A d \in Client : ToMasters(queues)[d] = LinkFrames(d, Master, q)
  BY DEF ToMasters
<1>6. \A d \in Client : LinkFrames(d, Master, q) = IF d = c THEN Before(e, rest(d)) ELSE rest(d)
  <2> HIDE DEF q
  <2> QED BY <1>1, LinkFramesOfHead
<1>7. /\ ToClients(taken) = ToClients(queues)
      /\ ToMasters(taken) = [d \in Client |-> rest(d)]
  <2> DEFINE t == Tail(q)
  <2> HIDE DEF t
  <2>1. /\ ToClients([queues EXCEPT ![Master] = t]) = ToClients(queues)
        /\ ToMasters([queues EXCEPT ![Master] = t]) = [d \in Client |-> LinkFrames(d, Master, t)]
    BY ChangedAtMaster
  <2> QED BY <2>1 DEF t
<1> HIDE DEF rest, e, T, taken, c
<1>8. /\ <<e>> \o rest(c) # << >> /\ Head(<<e>> \o rest(c)) = e
      /\ Tail(<<e>> \o rest(c)) = rest(c)
  BY <1>3, <1>4, HeadOfChannel
<1>9. ToMasters(queues)[c] = <<e>> \o rest(c)
  BY <1>3, <1>5, <1>6 DEF Before
<1>10. ToMasters(taken) = [ToMasters(queues) EXCEPT ![c] = Tail(@)]
  <2>1. Tail(ToMasters(queues)[c]) = rest(c)
    BY <1>8, <1>9
  <2>2. \A d \in Client \ {c} : ToMasters(queues)[d] = rest(d)
    BY <1>5, <1>6
  <2>3. [ToMasters(queues) EXCEPT ![c] = rest(c)] = [d \in Client |-> rest(d)]
    BY <2>2, <1>3 DEF ToMasters
  <2> QED BY <1>7, <2>1, <2>3
<1> QED BY <1>7, <1>8, <1>9, <1>10 DEF e, c, taken

-----------------------------------------------------------------------------
(* Frames that are sent, by the queues they get into.                      *)
LEMMA DeliveredTo ==
  ASSUME ProperQueues(rx), NEW source \in Device, NEW frames, NEW d \in Device \ {source},
         \A e \in Device : (\A i \in DOMAIN frames : PassesFilter(e, frames[i].canId)) <=> e = d
  PROVE  Delivered(frames, source) = [rx EXCEPT ![d] = rx[d] \o frames]
<1> DEFINE q == rx[d] \o frames
<1>1. rx = [e \in Device |-> rx[e]]
  BY DEF ProperQueues
<1>2. Delivered(frames, source) = [e \in Device |-> IF e = d THEN q ELSE rx[e]]
  BY DEF Delivered
<1> HIDE DEF q
<1>3. [rx EXCEPT ![d] = q] = [e \in Device |-> IF e = d THEN q ELSE rx[e]]
  BY <1>1
<1> QED BY <1>2, <1>3 DEF q

LEMMA OneDeliveredTo ==
  ASSUME ProperQueues(rx), NEW source \in Device, NEW f, NEW d \in Device \ {source},
         \A e \in Device : PassesFilter(e, f.canId) <=> e = d
  PROVE  Delivered(<<f>>, source) = [rx EXCEPT ![d] = rx[d] \o <<f>>]
<1> DEFINE frames == <<f>>
<1>1. \A e \in Device : (\A i \in DOMAIN frames : PassesFilter(e, frames[i].canId)) <=> e = d
  <2>1. DOMAIN frames = {1} /\ frames[1] = f
    OBVIOUS
  <2> HIDE DEF frames
  <2> QED BY <2>1
<1> HIDE DEF frames
<1>2. Delivered(frames, source) = [rx EXCEPT ![d] = rx[d] \o frames]
  BY <1>1, DeliveredTo
<1> QED BY <1>2 DEF frames

(* The master sends a frame to a client.                                   *)
LEMMA MasterSendsOne ==
  ASSUME ProperQueues(rx), NEW c \in Client, NEW type \in MessageTypes, NEW data \in AnyData,
         SentByMaster(c, type, data)
  PROVE  LET f == Frame(Master, c, type, data)
             sent == Delivered(<<f>>, Master)
         IN  /\ ToClients(sent) = [ToClients(rx) EXCEPT ![c] = Append(@, LinkFrame(c, f))]
             /\ ToMasters(sent) = ToMasters(rx)
<1> DEFINE f == Frame(Master, c, type, data)
           frames == <<f>>
           e == LinkFrame(c, f)
           T == LinkFramesIn(c, Arrivals(c))
           old == LinkFrames(Master, c, rx[c])
<1>1. f \in Arrivals(c)
  BY MasterFrameArrives
<1>2. SourceDeviceId(f.canId) = Master /\ \A d \in Device : PassesFilter(d, f.canId) <=> d = c
  BY FromMaster
<1> HIDE DEF f
<1>3. Delivered(<<f>>, Master) = [rx EXCEPT ![c] = rx[c] \o <<f>>]
  BY <1>2, OneDeliveredTo, Devices
<1>4. LinkFrames(Master, c, <<f>>) = <<e>>
  BY <1>2, LinkFramesOfOne
<1>5. frames \in Seq(Arrivals(c))
  BY <1>1
<1>6. old \in Seq(T) /\ e \in T
  <2> DEFINE q == rx[c]
  <2>1. q \in Seq(Arrivals(c))
    BY QueueTypes, Devices
  <2> HIDE DEF q
  <2>2. LinkFrames(Master, c, q) \in Seq(T)
    BY <2>1, LinkFramesType
  <2> QED BY <1>1, <2>2 DEF q, LinkFramesIn
<1>7. ToClients(rx)[c] = old
  BY DEF ToClients
<1> HIDE DEF frames
<1>8. /\ ToClients([rx EXCEPT ![c] = rx[c] \o frames])
           = [ToClients(rx) EXCEPT ![c] = @ \o LinkFrames(Master, c, frames)]
      /\ ToMasters([rx EXCEPT ![c] = rx[c] \o frames]) = ToMasters(rx)
  BY <1>5, SentToClient
<1> HIDE DEF e, T, old
<1>9. old \o <<e>> = Append(old, e)
  BY <1>6, AppendIsConcat
<1>10. [ToClients(rx) EXCEPT ![c] = @ \o <<e>>] = [ToClients(rx) EXCEPT ![c] = Append(@, e)]
  BY <1>7, <1>9, Zenon
<1> QED BY <1>3, <1>4, <1>8, <1>10 DEF frames, e, f

(* A client that knows the master sends it a frame.                        *)
LEMMA ClientSendsOne ==
  ASSUME ProperQueues(rx), NEW c \in Client, NEW type \in MessageTypes, NEW data \in AnyData,
         SentByClient(c, Master, type, data)
  PROVE  LET f == Frame(c, Master, type, data)
             sent == Delivered(<<f>>, c)
         IN  /\ sent[c] = rx[c]
             /\ ToClients(sent) = ToClients(rx)
             /\ ToMasters(sent) = [ToMasters(rx) EXCEPT ![c] = Append(@, LinkFrame(Master, f))]
<1> DEFINE f == Frame(c, Master, type, data)
<1>1. /\ SourceDeviceId(f.canId) = c
      /\ \A d \in Device : PassesFilter(d, f.canId) <=> d = Master
  BY FromClients
<1>2. f \in Arrivals(Master)
  BY <1>1, ClientFrameArrives, Devices
<1> HIDE DEF f
<1>3. Delivered(<<f>>, c) = [rx EXCEPT ![Master] = rx[Master] \o <<f>>]
  <2>1. c \in Device /\ Master \in Device \ {c}
    BY Devices
  <2> QED BY <1>1, <2>1, OneDeliveredTo
<1>4. Delivered(<<f>>, c)[c] = rx[c]
  BY <1>3, QueueChanged, Devices
<1> QED BY <1>1, <1>2, <1>3, <1>4, SentToMaster DEF f

(* One that does not know it: the frame is in no channel, wherever it gets.*)
LEMMA ClientSendsAstray ==
  ASSUME ProperQueues(rx), NEW c \in Client, NEW data \in AnyData,
         SentByClient(c, 255, WRITE_NODE_VALUE_REQEUST, data)
  PROVE  LET sent == Delivered(<<Frame(c, 255, WRITE_NODE_VALUE_REQEUST, data)>>, c)
         IN  ToClients(sent) = ToClients(rx) /\ ToMasters(sent) = ToMasters(rx)
<1> DEFINE f == Frame(c, 255, WRITE_NODE_VALUE_REQEUST, data)
           sent == Delivered(<<f>>, c)
<1>1. /\ SourceDeviceId(f.canId) = c
      /\ \A d \in Device : PassesFilter(d, f.canId) <=> d = Misaddressed
  <2>1. WRITE_NODE_VALUE_REQEUST \in MessageTypes /\ 255 \in {Master, 255} /\ 255 # Master
    BY Devices DEF MessageTypes, WRITE_NODE_VALUE_REQEUST
  <2> QED BY <2>1, FromClients
<1>2. \A d \in Device \ {c} : PassesFilter(d, f.canId) => f \in Arrivals(d)
  BY ClientFrameArrives DEF MessageTypes, WRITE_NODE_VALUE_REQEUST
<1> HIDE DEF f
<1>3. CASE Misaddressed \in Client \ {c}
  <2>1. /\ Misaddressed \in Device \ {c} /\ c \in Device /\ f \in Arrivals(Misaddressed)
        /\ SourceDeviceId(f.canId) # Master
    BY <1>1, <1>2, <1>3, Devices
  <2>2. sent = [rx EXCEPT ![Misaddressed] = rx[Misaddressed] \o <<f>>]
    BY <1>1, <2>1, OneDeliveredTo
  <2> QED BY <1>3, <2>1, <2>2, SentByOther DEF f
<1>4. CASE Misaddressed \notin Client \ {c}
  <2>1. \A d \in Device \ {c} : ~ PassesFilter(d, f.canId)
    BY <1>1, <1>4, Devices
  <2>2. sent = [d \in Device |-> rx[d]]
    <3> DEFINE frames == <<f>>
    <3>1. 1 \in DOMAIN frames /\ frames[1] = f
      OBVIOUS
    <3> HIDE DEF frames
    <3>2. Delivered(frames, c) = [d \in Device |-> rx[d]]
      BY <2>1, <3>1 DEF Delivered
    <3> QED BY <3>2 DEF frames
  <2>3. sent = rx
    BY <2>2 DEF ProperQueues
  <2> QED BY <2>3 DEF f
<1> QED BY <1>3, <1>4

-----------------------------------------------------------------------------
(* All devices run programs of one def file. *)
SamePrograms == \A d, e \in Device : NodesOf[d] = NodesOf[e]

LEMMA SameAppends == SamePrograms => AppendOnly
BY DEF SamePrograms, AppendOnly

(* Then a number leads every device to the node its sender means.          *)
LEMMA SameProgramFinds ==
  ASSUME SamePrograms, NEW s \in Device, NEW d \in Device, NEW n \in NodesIn(s)
  PROVE  LookUp(otNodeIDsTable[d], nodeId[s][n]) = n /\ n \in Node
<1> DEFINE theirs == NodesOf[s]
<1>1. /\ theirs \in Seq(Node) /\ Distinct(theirs) /\ Len(theirs) \in Nat
      /\ Len(theirs) < ByteSize /\ NodesOf[d] = theirs
  BY NodesAssumption, ByteAssumption DEF Distinct, SamePrograms, NodeLimit
<1>2. PICK i \in 1 .. Len(theirs) : theirs[i] = n
  BY <1>1, LenProperties DEF NodesIn
<1>3. nodeId[s] = ByName(theirs) /\ otNodeIDsTable[d] = Table(ByName(theirs))
  BY <1>1 DEF otNodeIDsTable, nodeId, ByName
<1> HIDE DEF theirs
<1>4. LookUp(Table(ByName(theirs)), ByName(theirs)[theirs[i]]) = theirs[i]
  BY <1>1, NodeIsFound
<1> QED BY <1>2, <1>3, <1>4, NodesAreNodes

-----------------------------------------------------------------------------
(* The link's frame of each frame on the bus. *)
LEMMA LinkFrameByType ==
  ASSUME NEW d, NEW f
  PROVE  LET type == MessageType(f.canId)
         IN  /\ type = INIT_COMMUNICATION_REQUEST => LinkFrame(d, f) = Link!InitRequest
             /\ type = DISCONNECT_COMMUNICATION_REQUEST => LinkFrame(d, f) = Link!Disconnect
             /\ type = INIT_COMMUNICATION_RESPONSE =>
                  LinkFrame(d, f) = IF f.data.accepted THEN Link!Accept ELSE Link!NotAccept
             /\ type = WRITE_NODE_VALUE_REQEUST =>
                  LinkFrame(d, f) = Link!Frame("WRITE", NodeInFrame(d, f))
             /\ type = READ_NODE_VALUE_REQEUST =>
                  LinkFrame(d, f) = Link!Frame("READ_REQUEST", NodeInFrame(d, f))
             /\ type = READ_NODE_VALUE_RESPONSE =>
                  LinkFrame(d, f) = Link!Frame("READ_RESPONSE", NodeInFrame(d, f))
<1> DEFINE type == MessageType(f.canId)
           node == NodeInFrame(d, f)
<1> HIDE DEF type, node
<1>1. /\ type = 0 => LinkFrame(d, f) = [type |-> "INIT_REQUEST", node |-> NoNode]
      /\ type = 3 => LinkFrame(d, f) = [type |-> "DISCONNECT", node |-> NoNode]
      /\ type = 1 => LinkFrame(d, f)
            = [type |-> IF f.data.accepted THEN "ACCEPT" ELSE "NOT_ACCEPT", node |-> NoNode]
      /\ type = 4 => LinkFrame(d, f) = [type |-> "WRITE", node |-> node]
      /\ type = 8 => LinkFrame(d, f) = [type |-> "READ_REQUEST", node |-> node]
      /\ type = 9 => LinkFrame(d, f) = [type |-> "READ_RESPONSE", node |-> node]
  BY DEF LinkFrame, type, node,
         INIT_COMMUNICATION_REQUEST, INIT_COMMUNICATION_RESPONSE, DISCONNECT_COMMUNICATION_REQUEST,
         WRITE_NODE_VALUE_REQEUST, READ_NODE_VALUE_REQEUST, READ_NODE_VALUE_RESPONSE
<1>2. [type |-> IF f.data.accepted THEN "ACCEPT" ELSE "NOT_ACCEPT", node |-> NoNode]
        = IF f.data.accepted THEN [type |-> "ACCEPT", node |-> NoNode]
          ELSE [type |-> "NOT_ACCEPT", node |-> NoNode]
  OBVIOUS
<1> QED
  BY <1>1, <1>2, Zenon
     DEF type, node, Link!InitRequest, Link!Disconnect, Link!Accept, Link!NotAccept, Link!Frame,
         INIT_COMMUNICATION_REQUEST, INIT_COMMUNICATION_RESPONSE, DISCONNECT_COMMUNICATION_REQUEST,
         WRITE_NODE_VALUE_REQEUST, READ_NODE_VALUE_REQEUST, READ_NODE_VALUE_RESPONSE

(* A frame that is about a node of its sender is about that node at all.   *)
LEMMA NodeMeant ==
  ASSUME SamePrograms, NEW s \in Device, NEW d \in Device, NEW n \in NodesIn(s), NEW f,
         f.data.id = nodeId[s][n]
  PROVE  NodeInFrame(d, f) = n /\ n \in Node
BY SameProgramFinds DEF NodeInFrame

-----------------------------------------------------------------------------
(* A client takes a frame of the master and answers it.                    *)
TakenFrom(channels, c) == [channels EXCEPT ![c] = Tail(@)]
AddedTo(channels, c, frame) == [channels EXCEPT ![c] = Append(@, frame)]

LEMMA ClientAnswers ==
  ASSUME ProperQueues(rx), NEW c \in Client, NEW type \in MessageTypes, NEW data \in AnyData,
         SentByClient(c, Master, type, data),
         rx[c] # << >>, SourceDeviceId(Head(rx[c]).canId) = Master
  PROVE  LET f == Frame(c, Master, type, data)
             sent == Answered(c, <<f>>)
         IN  /\ ToClients(sent) = TakenFrom(ToClients(rx), c)
             /\ ToMasters(sent) = AddedTo(ToMasters(rx), c, LinkFrame(Master, f))
<1> DEFINE f == Frame(c, Master, type, data)
           queues == Delivered(<<f>>, c)
<1>1. /\ queues[c] = rx[c]
      /\ ToClients(queues) = ToClients(rx)
      /\ ToMasters(queues) = [ToMasters(rx) EXCEPT ![c] = Append(@, LinkFrame(Master, f))]
  BY ClientSendsOne
<1>2. ProperQueues(queues)
  BY ClientSends, Devices
<1>3. Answered(c, <<f>>) = [queues EXCEPT ![c] = Tail(rx[c])]
  BY DEF Answered
<1> HIDE DEF f, queues
<1>4. /\ ToMasters([queues EXCEPT ![c] = Tail(queues[c])]) = ToMasters(queues)
      /\ ToClients([queues EXCEPT ![c] = Tail(queues[c])])
           = [ToClients(queues) EXCEPT ![c] = Tail(@)]
  BY <1>1, <1>2, TakenAtClient
<1>5. /\ ToMasters(Answered(c, <<f>>)) = ToMasters(queues)
      /\ ToClients(Answered(c, <<f>>)) = [ToClients(queues) EXCEPT ![c] = Tail(@)]
  BY <1>1, <1>3, <1>4
<1> QED BY <1>1, <1>5 DEF f, TakenFrom, AddedTo

(* The master's two requests of a reconnect.                               *)
LEMMA ReconnectLinked ==
  ASSUME ProperQueues(rx), NEW c \in Client
  PROVE  /\ Delivered(ReconnectFrames(c), Master)
              = [rx EXCEPT ![c] = rx[c] \o ReconnectFrames(c)]
         /\ ReconnectFrames(c) \in Seq(Arrivals(c))
         /\ LinkFrames(Master, c, ReconnectFrames(c)) = Link!ReconnectFrames
<1> DEFINE a == Disconnect(c)
           b == InitRequest(c)
           frames == ReconnectFrames(c)
<1>1. a \in Arrivals(c) /\ b \in Arrivals(c)
  BY MasterFrameArrives, SentData
     DEF SentByMaster, Disconnect, InitRequest, MessageTypes, WRITE_NODE_VALUE_REQEUST,
         DISCONNECT_COMMUNICATION_REQUEST, INIT_COMMUNICATION_REQUEST
<1>2. /\ SourceDeviceId(a.canId) = Master
      /\ MessageType(a.canId) = DISCONNECT_COMMUNICATION_REQUEST
      /\ \A d \in Device : PassesFilter(d, a.canId) <=> d = c
  BY FromMaster DEF Disconnect, MessageTypes, DISCONNECT_COMMUNICATION_REQUEST
<1>3. /\ SourceDeviceId(b.canId) = Master
      /\ MessageType(b.canId) = INIT_COMMUNICATION_REQUEST
      /\ \A d \in Device : PassesFilter(d, b.canId) <=> d = c
  BY FromMaster DEF InitRequest, MessageTypes, INIT_COMMUNICATION_REQUEST
<1> HIDE DEF a, b
<1>4. frames = <<a, b>>
  BY DEF ReconnectFrames, a, b
<1>5. /\ frames \in Seq(Arrivals(c)) /\ frames # << >>
      /\ Head(frames) = a /\ Tail(frames) = <<b>>
      /\ DOMAIN frames = {1, 2} /\ frames[1] = a /\ frames[2] = b
  BY <1>1, <1>4
<1> HIDE DEF frames
<1>6. \A e \in Device : (\A i \in DOMAIN frames : PassesFilter(e, frames[i].canId)) <=> e = c
  BY <1>2, <1>3, <1>5
<1>7. Delivered(frames, Master) = [rx EXCEPT ![c] = rx[c] \o frames]
  <2>1. Master \in Device /\ c \in Device \ {Master}
    BY Devices
  <2> QED BY <1>6, <2>1, DeliveredTo
<1>8. LinkFrames(Master, c, frames) = Before(LinkFrame(c, a), LinkFrames(Master, c, Tail(frames)))
  BY <1>2, <1>5, LinkFramesOfHead
<1>9. LinkFrames(Master, c, Tail(frames)) = <<LinkFrame(c, b)>>
  <2>1. LinkFrames(Master, c, <<b>>) = <<LinkFrame(c, b)>>
    BY <1>3, LinkFramesOfOne
  <2> QED BY <1>5, <2>1, Zenon
<1>10. LinkFrame(c, a) = Link!Disconnect /\ LinkFrame(c, b) = Link!InitRequest
  BY <1>2, <1>3, LinkFrameByType
<1>11. ASSUME NEW x, NEW y
       PROVE  Before(x, <<y>>) = <<x, y>>
  <2>1. <<x>> \in Seq({x, y}) /\ y \in {x, y}
    OBVIOUS
  <2>2. Append(<<x>>, y) = <<x>> \o <<y>>
    BY <2>1, AppendIsConcat
  <2>3. Append(<<x>>, y) = <<x, y>>
    <3> DEFINE S == {x, y}
               u == Append(<<x>>, y)
               v == <<x, y>>
    <3>1. u \in Seq(S) /\ Len(u) = 2 /\ u[1] = x /\ u[2] = y
      OBVIOUS
    <3>2. v \in Seq(S) /\ Len(v) = 2 /\ v[1] = x /\ v[2] = y
      OBVIOUS
    <3> HIDE DEF u, v, S
    <3>3. u = v
      BY <3>1, <3>2, SeqEqual
    <3> QED BY <3>3 DEF u, v
  <2> QED BY <2>2, <2>3, Zenon DEF Before
<1>12. LinkFrames(Master, c, frames) = Link!ReconnectFrames
  BY <1>8, <1>9, <1>10, <1>11 DEF Link!ReconnectFrames
<1> QED BY <1>5, <1>7, <1>12 DEF frames

LEMMA MasterReconnects ==
  ASSUME ProperQueues(rx), NEW c \in Client
  PROVE  LET sent == Delivered(ReconnectFrames(c), Master)
         IN  /\ sent[Master] = rx[Master]
             /\ ToClients(sent) = [ToClients(rx) EXCEPT ![c] = @ \o Link!ReconnectFrames]
             /\ ToMasters(sent) = ToMasters(rx)
<1> DEFINE frames == ReconnectFrames(c)
<1>1. /\ Delivered(frames, Master) = [rx EXCEPT ![c] = rx[c] \o frames]
      /\ frames \in Seq(Arrivals(c))
      /\ LinkFrames(Master, c, frames) = Link!ReconnectFrames
  BY ReconnectLinked
<1> HIDE DEF frames
<1>2. /\ ToClients([rx EXCEPT ![c] = rx[c] \o frames])
           = [ToClients(rx) EXCEPT ![c] = @ \o LinkFrames(Master, c, frames)]
      /\ ToMasters([rx EXCEPT ![c] = rx[c] \o frames]) = ToMasters(rx)
  BY <1>1, SentToClient
<1>3. Delivered(frames, Master)[Master] = rx[Master]
  BY Devices DEF Delivered
<1> QED BY <1>1, <1>2, <1>3 DEF frames

(* The master takes a refusal and reconnects.                              *)
LEMMA MasterAnswers ==
  ASSUME ProperQueues(rx), NEW c \in Client, rx[Master] # << >>, Sender = c
  PROVE  LET sent == Answered(Master, ReconnectFrames(c))
         IN  /\ ToClients(sent) = [ToClients(rx) EXCEPT ![c] = @ \o Link!ReconnectFrames]
             /\ ToMasters(sent) = [ToMasters(rx) EXCEPT ![c] = Tail(@)]
<1> DEFINE queues == Delivered(ReconnectFrames(c), Master)
<1>1. /\ queues[Master] = rx[Master]
      /\ ToClients(queues) = [ToClients(rx) EXCEPT ![c] = @ \o Link!ReconnectFrames]
      /\ ToMasters(queues) = ToMasters(rx)
  BY MasterReconnects
<1>2. ProperQueues(queues)
  BY ReconnectSends
<1>3. Answered(Master, ReconnectFrames(c)) = [queues EXCEPT ![Master] = Tail(rx[Master])]
  BY DEF Answered
<1> HIDE DEF queues
<1>4. /\ ToClients([queues EXCEPT ![Master] = Tail(queues[Master])]) = ToClients(queues)
      /\ ToMasters([queues EXCEPT ![Master] = Tail(queues[Master])])
           = [ToMasters(queues) EXCEPT ![c] = Tail(@)]
  BY <1>1, <1>2, TakenAtMaster DEF Sender
<1> QED BY <1>1, <1>3, <1>4

-----------------------------------------------------------------------------
(* The steps of the applications are the link's. *)
LEMMA ConnectIsLinked ==
  ASSUME BusInv, NEW c \in Client, AddAndConnectToClient(c)
  PROVE  Link!AddAndConnectToClient(c)
<1> DEFINE f == InitRequest(c)
<1>1. /\ SentByMaster(c, INIT_COMMUNICATION_REQUEST, NoData) /\ NoData \in AnyData
      /\ INIT_COMMUNICATION_REQUEST \in MessageTypes
  BY SentData DEF SentByMaster, MessageTypes, INIT_COMMUNICATION_REQUEST
<1>2. /\ ToClients(rx') = [ToClients(rx) EXCEPT ![c] = Append(@, LinkFrame(c, f))]
      /\ ToMasters(rx') = ToMasters(rx)
  BY <1>1, MasterSendsOne DEF AddAndConnectToClient, InitRequest, BusInv
<1>3. LinkFrame(c, f) = Link!InitRequest
  BY <1>1, FromMaster, LinkFrameByType DEF InitRequest
<1>4. [ToClients(rx) EXCEPT ![c] = Append(@, LinkFrame(c, f))]
        = [ToClients(rx) EXCEPT ![c] = Append(@, Link!InitRequest)]
  BY <1>3, Zenon
<1> HIDE DEF f
<1>5. /\ c \notin clients
      /\ clients' = clients \cup {c}
      /\ mState' = [mState EXCEPT ![c] = "INITIALIZING"]
      /\ UNCHANGED <<mEvent, mUpdated, cState, cEvent, masterDeviceId>>
      /\ UNCHANGED <<reconnects, restarts, sends>>
  BY DEF AddAndConnectToClient, clientVars, budgetVars
<1> QED
  BY <1>2, <1>4, <1>5
     DEF Link!AddAndConnectToClient, Link!clientVars, ToClients, ToMasters, Channel

LEMMA ReconnectIsLinked ==
  ASSUME BusInv, NEW c \in Client, ApplicationReconnects(c)
  PROVE  Link!ApplicationReconnects(c)
<1>1. /\ ToClients(rx') = [ToClients(rx) EXCEPT ![c] = @ \o Link!ReconnectFrames]
      /\ ToMasters(rx') = ToMasters(rx)
  BY MasterReconnects DEF ApplicationReconnects, BusInv
<1>2. /\ c \in clients
      /\ clients = clients \cup {c}
      /\ reconnects < MaxReconnect
      /\ reconnects' = reconnects + 1
      /\ mState' = [mState EXCEPT ![c] = "INITIALIZING"]
      /\ UNCHANGED <<clients, mEvent, mUpdated, cState, cEvent, masterDeviceId>>
      /\ UNCHANGED <<restarts, sends>>
  BY DEF ApplicationReconnects, clientVars
<1> QED
  BY <1>1, <1>2
     DEF Link!ApplicationReconnects, Link!reconnectToClient, Link!clientVars, ToClients,
         ToMasters, Channel

(* Of what a master sends, the link has the frame and the node.            *)
LEMMA MasterSendsLinked ==
  ASSUME BusInv, NEW c \in Client, NEW type \in MessageTypes, NEW data \in AnyData,
         SentByMaster(c, type, data), NEW linkType, NEW n,
         LinkFrame(c, Frame(Master, c, type, data)) = Link!Frame(linkType, n),
         c \in clients, sends < MaxSend, sends' = sends + 1,
         rx' = Delivered(<<Frame(Master, c, type, data)>>, Master),
         UNCHANGED <<clients, mState, mEvent, mUpdated, cState, cEvent, masterDeviceId>>,
         UNCHANGED <<reconnects, restarts>>
  PROVE  Link!MasterSends(c, linkType, n)
<1> DEFINE f == Frame(Master, c, type, data)
<1>1. /\ ToClients(rx') = [ToClients(rx) EXCEPT ![c] = Append(@, LinkFrame(c, f))]
      /\ ToMasters(rx') = ToMasters(rx)
  BY MasterSendsOne DEF BusInv
<1>2. [ToClients(rx) EXCEPT ![c] = Append(@, LinkFrame(c, f))]
        = [ToClients(rx) EXCEPT ![c] = Append(@, Link!Frame(linkType, n))]
  OBVIOUS
<1> HIDE DEF f
<1> QED
  BY <1>1, <1>2
     DEF Link!MasterSends, Link!masterVars, Link!clientVars, ToClients, ToMasters, Channel

LEMMA MasterValueIsLinked ==
  ASSUME SamePrograms, BusInv, NEW c \in Client, NEW n \in NodesIn(Master),
         MasterSendsValue(c, n)
  PROVE  n \in Node /\ Link!MasterSends(c, "WRITE", n)
<1> DEFINE value == Given(Master, c, n)
           data == ValueData(Master, n, value)
           type == WRITE_NODE_VALUE_REQEUST
           f == Frame(Master, c, type, data)
<1>1. n \in Node /\ value \in ValueOf(c, n) /\ value \in AnyValue
  BY NodesAreNodes, Values, Devices
<1>2. data \in AnyData /\ type \in MessageTypes
  BY <1>1, SentData, Devices DEF MessageTypes, WRITE_NODE_VALUE_REQEUST
<1>3. SentByMaster(c, type, data)
  BY <1>1 DEF SentByMaster, CarriesValue
<1>4. data.id = nodeId[Master][n]
  BY DEF ValueData
<1> HIDE DEF data
<1>5. f.data = data /\ MessageType(f.canId) = type
  BY <1>2, FromMaster
<1>6. NodeInFrame(c, f) = n
  BY <1>4, <1>5, NodeMeant, Devices
<1>7. LinkFrame(c, f) = Link!Frame("WRITE", n)
  BY <1>5, <1>6, LinkFrameByType
<1>8. /\ c \in clients /\ sends < MaxSend /\ sends' = sends + 1
      /\ rx' = Delivered(<<f>>, Master)
      /\ UNCHANGED <<clients, mState, mEvent, mUpdated, cState, cEvent, masterDeviceId>>
      /\ UNCHANGED <<reconnects, restarts>>
  BY DEF MasterSendsValue, clientVars, data
<1> HIDE DEF type
<1> QED BY <1>1, <1>2, <1>3, <1>7, <1>8, MasterSendsLinked

LEMMA MasterReadIsLinked ==
  ASSUME SamePrograms, BusInv, NEW c \in Client, NEW n \in NodesIn(Master),
         MasterSendsRead(c, n)
  PROVE  n \in Node /\ Link!MasterSends(c, "READ_REQUEST", n)
<1> DEFINE data == ReadData(Master, n)
           type == READ_NODE_VALUE_REQEUST
           f == Frame(Master, c, type, data)
<1>1. n \in Node
  BY NodesAreNodes, Devices
<1>2. data \in AnyData /\ type \in MessageTypes
  BY SentData DEF MessageTypes, READ_NODE_VALUE_REQEUST
<1>3. SentByMaster(c, type, data)
  BY DEF SentByMaster
<1>4. data.id = nodeId[Master][n]
  BY DEF ReadData
<1> HIDE DEF data
<1>5. f.data = data /\ MessageType(f.canId) = type
  BY <1>2, FromMaster
<1>6. NodeInFrame(c, f) = n
  BY <1>4, <1>5, NodeMeant, Devices
<1>7. LinkFrame(c, f) = Link!Frame("READ_REQUEST", n)
  BY <1>5, <1>6, LinkFrameByType
<1>8. /\ c \in clients /\ sends < MaxSend /\ sends' = sends + 1
      /\ rx' = Delivered(<<f>>, Master)
      /\ UNCHANGED <<clients, mState, mEvent, mUpdated, cState, cEvent, masterDeviceId>>
      /\ UNCHANGED <<reconnects, restarts>>
  BY DEF MasterSendsRead, masterVars, clientVars, data
<1> HIDE DEF type
<1> QED BY <1>1, <1>2, <1>3, <1>7, <1>8, MasterSendsLinked

LEMMA ClientValueIsLinked ==
  ASSUME SamePrograms, BusInv, NEW c \in Client, NEW n \in NodesIn(c), ClientSendsValue(c, n)
  PROVE  n \in Node /\ Link!ClientSends(c, n)
<1> DEFINE value == Given(c, c, n)
           data == ValueData(c, n, value)
           type == WRITE_NODE_VALUE_REQEUST
           m == masterDeviceId[c]
           f == Frame(c, m, type, data)
<1>1. n \in Node /\ value \in ValueOf(c, n) /\ value \in AnyValue
  BY NodesAreNodes, Values, Devices
<1>2. data \in AnyData /\ type \in MessageTypes
  BY <1>1, SentData, Devices DEF MessageTypes, WRITE_NODE_VALUE_REQEUST
<1>3. SentByClient(c, m, type, data)
  BY <1>1 DEF SentByClient, CarriesValue
<1>4. data.id = nodeId[c][n]
  BY DEF ValueData
<1>5. m \in {Master, 255}
  BY DEF BusInv
<1>6. /\ sends < MaxSend /\ sends' = sends + 1 /\ rx' = Delivered(<<f>>, c)
      /\ UNCHANGED <<clients, mState, mEvent, mUpdated, cState, cEvent, masterDeviceId>>
      /\ UNCHANGED <<reconnects, restarts>>
  BY DEF ClientSendsValue, masterVars
<1> HIDE DEF data
<1>7. CASE m = Master
  <2>1. f.data = data /\ MessageType(f.canId) = type
    BY <1>2, <1>5, FromClients
  <2>2. NodeInFrame(Master, f) = n
    BY <1>4, <2>1, NodeMeant, Devices
  <2>3. LinkFrame(Master, f) = Link!Frame("WRITE", n)
    BY <2>1, <2>2, LinkFrameByType
  <2>4. f = Frame(c, Master, type, data) /\ SentByClient(c, Master, type, data)
    BY <1>3, <1>7
  <2>5. /\ ToClients(rx') = ToClients(rx)
        /\ ToMasters(rx') = [ToMasters(rx) EXCEPT ![c] = Append(@, LinkFrame(Master, f))]
    <3> HIDE DEF type
    <3> DEFINE g == Frame(c, Master, type, data)
    <3>1. /\ ToClients(Delivered(<<g>>, c)) = ToClients(rx)
          /\ ToMasters(Delivered(<<g>>, c))
               = [ToMasters(rx) EXCEPT ![c] = Append(@, LinkFrame(Master, g))]
      BY <1>2, <2>4, ClientSendsOne DEF BusInv
    <3>2. rx' = Delivered(<<g>>, c) /\ f = g
      BY <1>6, <2>4
    <3> HIDE DEF f, g
    <3> QED BY <3>1, <3>2
  <2> HIDE DEF f
  <2>6. [ToMasters(rx) EXCEPT ![c] = Append(@, LinkFrame(Master, f))]
          = [ToMasters(rx) EXCEPT ![c] = Append(@, Link!Frame("WRITE", n))]
    BY <2>3, Zenon
  <2>7. [d \in Client |-> masterDeviceId[d] # 255][c]
    <3>1. masterDeviceId[c] # 255
      BY <1>7, Devices
    <3> QED BY <3>1
  <2> QED
    BY <1>1, <1>6, <2>5, <2>6, <2>7
       DEF Link!ClientSends, Link!masterVars, Link!clientVars, ToClients, ToMasters, Channel
<1>8. CASE m = 255
  <2>1. f = Frame(c, 255, type, data) /\ SentByClient(c, 255, type, data)
    BY <1>3, <1>8
  <2>2. ToClients(rx') = ToClients(rx) /\ ToMasters(rx') = ToMasters(rx)
    BY <1>2, <1>6, <2>1, ClientSendsAstray DEF BusInv
  <2>3. ~ [d \in Client |-> masterDeviceId[d] # 255][c]
    BY <1>8
  <2> HIDE DEF f
  <2> QED
    BY <1>1, <1>6, <2>2, <2>3
       DEF Link!ClientSends, Link!masterVars, Link!clientVars, ToClients, ToMasters, Channel
<1> QED BY <1>5, <1>7, <1>8

LEMMA EventsAreLinked ==
  ASSUME NEW c \in Client
  PROVE  /\ MasterTakesEvent(c) => Link!MasterTakesEvent(c)
         /\ ClientTakesEvent(c) => Link!ClientTakesEvent(c)
<1>1. MasterTakesEvent(c) => Link!MasterTakesEvent(c)
  BY DEF MasterTakesEvent, clientVars, budgetVars, Link!MasterTakesEvent, Link!clientVars,
         Link!budgetVars, Channel
<1>2. ClientTakesEvent(c) => Link!ClientTakesEvent(c)
  BY DEF ClientTakesEvent, masterVars, budgetVars, Link!ClientTakesEvent, Link!masterVars,
         Link!budgetVars, Channel
<1> QED BY <1>1, <1>2

-----------------------------------------------------------------------------
(* The steps in which a client processes a frame. *)
LEMMA LinkTypes ==
  /\ Link!InitRequest.type = "INIT_REQUEST" /\ Link!Disconnect.type = "DISCONNECT"
  /\ Link!Accept.type = "ACCEPT" /\ Link!NotAccept.type = "NOT_ACCEPT"
  /\ \A type, n : Link!Frame(type, n).type = type /\ Link!Frame(type, n).node = n
BY DEF Link!InitRequest, Link!Disconnect, Link!Accept, Link!NotAccept, Link!Frame

(* The next frame of a client, in its queue and in its channel.            *)
LEMMA NextOfClient ==
  ASSUME BusInv, NEW c \in Client, rx[c] # << >>,
         SourceDeviceId(Head(rx[c]).canId) = Master, NEW types
  PROVE  Link!NextForClient(c, types) <=> LinkFrame(c, Head(rx[c])).type \in types
<1>1. /\ ToClients(rx)[c] # << >>
      /\ Head(ToClients(rx)[c]) = LinkFrame(c, Head(rx[c]))
  BY TakenAtClient DEF BusInv
<1> QED BY <1>1 DEF Link!NextForClient, Channel, ToClients

(* Taking a frame out of a client's queue, when the master has sent it ... *)
LEMMA ClientConsumes ==
  ASSUME BusInv, NEW c \in Client, rx[c] # << >>,
         SourceDeviceId(Head(rx[c]).canId) = Master, rx' = Consumed(c)
  PROVE  Link!ConsumeAtClient(c) /\ ToMasters(rx') = ToMasters(rx)
<1>1. /\ ToClients(rx') = [ToClients(rx) EXCEPT ![c] = Tail(@)]
      /\ ToMasters(rx') = ToMasters(rx)
  BY TakenAtClient DEF BusInv, Consumed
<1> QED BY <1>1 DEF Link!ConsumeAtClient, Channel, ToClients

(* ... and when another client has.                                        *)
LEMMA ForeignFrameIsNone ==
  ASSUME BusInv, NEW c \in Client, rx[c] # << >>,
         SourceDeviceId(Head(rx[c]).canId) # Master, rx' = Consumed(c),
         UNCHANGED <<clients, mState, mEvent, mUpdated, cState, cEvent, masterDeviceId>>,
         UNCHANGED <<reconnects, restarts, sends>>
  PROVE  UNCHANGED Link!vars
<1>1. ToClients(rx') = ToClients(rx) /\ ToMasters(rx') = ToMasters(rx)
  BY TakenAtClient DEF BusInv, Consumed
<1> QED
  BY <1>1 DEF Link!vars, Link!masterVars, Link!clientVars, Link!budgetVars, Channel, ToClients,
              ToMasters

LEMMA IgnoredIsLinked ==
  ASSUME BusInv, NEW c \in Client, ClientIgnores(c)
  PROVE  Link!ClientIgnores(c) \/ UNCHANGED Link!vars
<1> DEFINE f == Head(rx[c])
           type == MessageType(f.canId)
<1>1. /\ rx[c] # << >> /\ type # INIT_COMMUNICATION_REQUEST /\ cState[c] # "INITIALIZED"
      /\ rx' = Consumed(c)
      /\ UNCHANGED <<clients, mState, mEvent, mUpdated, cState, cEvent, masterDeviceId>>
      /\ UNCHANGED <<reconnects, restarts, sends>>
  BY DEF ClientIgnores, NextFrame, masterVars, clientVars, budgetVars
<1>2. CASE SourceDeviceId(f.canId) = Master
  <2>1. type \in {DISCONNECT_COMMUNICATION_REQUEST, READ_NODE_VALUE_REQEUST,
                  WRITE_NODE_VALUE_REQEUST}
    BY <1>1, <1>2, HeadAtClient, Devices DEF SentByMaster
  <2>2. LinkFrame(c, f).type \in Link!MasterFrameType \ {"INIT_REQUEST"}
    BY <2>1, LinkFrameByType, LinkTypes DEF Link!MasterFrameType
  <2>3. Link!NextForClient(c, Link!MasterFrameType \ {"INIT_REQUEST"})
    BY <1>1, <1>2, <2>2, NextOfClient
  <2>4. Link!ConsumeAtClient(c) /\ ToMasters(rx') = ToMasters(rx)
    BY <1>1, <1>2, ClientConsumes
  <2> QED
    BY <1>1, <2>3, <2>4
       DEF Link!ClientIgnores, Link!masterVars, Link!clientVars, Link!budgetVars, Channel, ToMasters
<1>3. CASE SourceDeviceId(f.canId) # Master
  BY <1>1, <1>3, ForeignFrameIsNone
<1> QED BY <1>2, <1>3

(* A client takes a frame of the master and answers it.                    *)
LEMMA AnswerLinked ==
  ASSUME BusInv, NEW c \in Client, rx[c] # << >>,
         SourceDeviceId(Head(rx[c]).canId) = Master,
         NEW type \in MessageTypes, NEW data \in AnyData, SentByClient(c, Master, type, data),
         rx' = Answered(c, <<Frame(c, Master, type, data)>>)
  PROVE  /\ Link!ConsumeAtClient(c)
         /\ ToMasters(rx')
              = AddedTo(ToMasters(rx), c, LinkFrame(Master, Frame(c, Master, type, data)))
<1>1. ProperQueues(rx)
  BY DEF BusInv
<1> DEFINE f == Frame(c, Master, type, data)
<1>2. /\ ToClients(Answered(c, <<f>>)) = TakenFrom(ToClients(rx), c)
      /\ ToMasters(Answered(c, <<f>>)) = AddedTo(ToMasters(rx), c, LinkFrame(Master, f))
  BY <1>1, ClientAnswers
<1>3. rx' = Answered(c, <<f>>)
  OBVIOUS
<1> HIDE DEF f
<1>4. /\ ToClients(rx') = TakenFrom(ToClients(rx), c)
      /\ ToMasters(rx') = AddedTo(ToMasters(rx), c, LinkFrame(Master, f))
  BY <1>2, <1>3
<1>5. Link!ConsumeAtClient(c)
  BY <1>4 DEF Link!ConsumeAtClient, Channel, ToClients, TakenFrom
<1> QED BY <1>4, <1>5 DEF f

(* The answer to an init request.                                          *)
LEMMA ResponseLinked ==
  ASSUME BusInv, NEW c \in Client, NextFrame(c, {INIT_COMMUNICATION_REQUEST}),
         NEW accepted \in BOOLEAN, NEW answer,
         answer = IF accepted THEN Link!Accept ELSE Link!NotAccept,
         rx' = Answered(c, <<Frame(c, SourceDeviceId(Head(rx[c]).canId),
                                   INIT_COMMUNICATION_RESPONSE, Status(accepted))>>)
  PROVE  /\ SourceDeviceId(Head(rx[c]).canId) = Master
         /\ Link!NextForClient(c, {"INIT_REQUEST"})
         /\ Link!ConsumeAtClient(c)
         /\ ToMasters(rx') = [ToMasters(rx) EXCEPT ![c] = Append(@, answer)]
<1> DEFINE type == INIT_COMMUNICATION_RESPONSE
           data == Status(accepted)
           f == Frame(c, Master, type, data)
<1>1. /\ rx[c] # << >> /\ MessageType(Head(rx[c]).canId) = INIT_COMMUNICATION_REQUEST
      /\ SourceDeviceId(Head(rx[c]).canId) = Master
  BY HeadAtClient DEF NextFrame
<1>2. Link!NextForClient(c, {"INIT_REQUEST"})
  BY <1>1, NextOfClient, LinkFrameByType, LinkTypes
<1>3. /\ type \in MessageTypes /\ data \in AnyData /\ data.accepted = accepted
      /\ SentByClient(c, Master, type, data)
  BY SentData DEF MessageTypes, SentByClient, INIT_COMMUNICATION_RESPONSE, Status
<1>4. rx' = Answered(c, <<f>>)
  BY <1>1
<1> HIDE DEF type, data
<1>5. f.data = data /\ MessageType(f.canId) = type
  BY <1>3, FromClients
<1>6. LinkFrame(Master, f) = answer
  BY <1>3, <1>5, LinkFrameByType DEF type
<1>7. /\ Link!ConsumeAtClient(c)
      /\ ToMasters(rx') = AddedTo(ToMasters(rx), c, LinkFrame(Master, f))
  BY <1>1, <1>3, <1>4, AnswerLinked
<1> HIDE DEF f
<1> QED BY <1>1, <1>2, <1>6, <1>7 DEF AddedTo

Known(master) == [c \in Client |-> master[c] # 255]

LEMMA NowKnown ==
  ASSUME NEW old, NEW new, NEW c \in Client, new[c] # 255,
         \A d \in Client \ {c} : new[d] = old[d]
  PROVE  Known(new) = [Known(old) EXCEPT ![c] = TRUE]
<1> DEFINE P(d) == new[d] # 255
           Q(d) == old[d] # 255
<1>1. ASSUME NEW d \in Client
      PROVE  P(d) = IF d = c THEN TRUE ELSE Q(d)
  <2>1. CASE d = c
    BY <2>1, Zenon
  <2>2. CASE d # c
    BY <2>2
  <2> QED BY <2>1, <2>2
<1> HIDE DEF P, Q
<1>2. [d \in Client |-> P(d)] = [[d \in Client |-> Q(d)] EXCEPT ![c] = TRUE]
  BY <1>1
<1> QED BY <1>2 DEF P, Q, Known

LEMMA AcceptIsLinked ==
  ASSUME BusInv, NEW c \in Client, ClientAccepts(c)
  PROVE  Link!ClientAccepts(c)
<1>1. /\ SourceDeviceId(Head(rx[c]).canId) = Master
      /\ Link!NextForClient(c, {"INIT_REQUEST"})
      /\ Link!ConsumeAtClient(c)
      /\ ToMasters(rx') = [ToMasters(rx) EXCEPT ![c] = Append(@, Link!Accept)]
  BY ResponseLinked DEF ClientAccepts
<1>2. /\ cState[c] = "UNINITIALIZED"
      /\ masterDeviceId' = [masterDeviceId EXCEPT ![c] = Master]
      /\ cState' = [cState EXCEPT ![c] = "INITIALIZED"]
      /\ cEvent' = [cEvent EXCEPT ![c] = TRUE]
      /\ UNCHANGED <<clients, mState, mEvent, mUpdated, reconnects, restarts, sends>>
  BY <1>1 DEF ClientAccepts, masterVars, budgetVars
<1>3. Known(masterDeviceId') = [Known(masterDeviceId) EXCEPT ![c] = TRUE]
  <2>1. masterDeviceId'[c] # 255 /\ \A d \in Client \ {c} : masterDeviceId'[d] = masterDeviceId[d]
    BY <1>2, Devices DEF BusInv
  <2> QED BY <2>1, NowKnown
<1>4. Link!AcceptanceFrames = <<Link!Accept>>
  BY DEF Link!AcceptanceFrames, Link!MetaFrames
<1>5. Append(ToMasters(rx)[c], Link!Accept) = ToMasters(rx)[c] \o Link!AcceptanceFrames
  <2> DEFINE s == ToMasters(rx)[c]
             T == LinkFramesIn(Master, Arrivals(Master)) \cup {Link!Accept}
  <2>1. s \in Seq(T)
    <3> DEFINE q == rx[Master]
    <3>1. q \in Seq(Arrivals(Master))
      BY QueueTypes, Devices DEF BusInv
    <3> HIDE DEF q
    <3>2. LinkFrames(c, Master, q) \in Seq(LinkFramesIn(Master, Arrivals(Master)))
      BY <3>1, LinkFramesType
    <3> QED BY <3>2 DEF q, ToMasters
  <2>2. Link!Accept \in T
    OBVIOUS
  <2> HIDE DEF s, T
  <2>3. Append(s, Link!Accept) = s \o <<Link!Accept>>
    BY <2>1, <2>2, AppendIsConcat
  <2> QED BY <1>4, <2>3 DEF s
<1>6. [ToMasters(rx) EXCEPT ![c] = Append(@, Link!Accept)]
        = [ToMasters(rx) EXCEPT ![c] = @ \o Link!AcceptanceFrames]
  BY <1>5, Zenon
<1> QED
  BY <1>1, <1>2, <1>3, <1>6
     DEF Link!ClientAccepts, Link!masterVars, Link!budgetVars, Channel, ToMasters, Known

LEMMA RefuseIsLinked ==
  ASSUME BusInv, NEW c \in Client, ClientRefuses(c)
  PROVE  Link!ClientRefuses(c)
<1>1. /\ Link!NextForClient(c, {"INIT_REQUEST"})
      /\ Link!ConsumeAtClient(c)
      /\ ToMasters(rx') = [ToMasters(rx) EXCEPT ![c] = Append(@, Link!NotAccept)]
  BY ResponseLinked DEF ClientRefuses
<1>2. /\ cState[c] # "UNINITIALIZED"
      /\ UNCHANGED <<clients, mState, mEvent, mUpdated, cState, cEvent, masterDeviceId>>
      /\ UNCHANGED <<reconnects, restarts, sends>>
  BY DEF ClientRefuses, masterVars, clientVars, budgetVars
<1> QED
  BY <1>1, <1>2
     DEF Link!ClientRefuses, Link!masterVars, Link!clientVars, Link!budgetVars, Channel, ToMasters

LEMMA DisconnectIsLinked ==
  ASSUME BusInv, NEW c \in Client, ClientDisconnects(c)
  PROVE  Link!ClientDisconnects(c)
<1>1. /\ rx[c] # << >> /\ rx' = Consumed(c)
      /\ MessageType(Head(rx[c]).canId) = DISCONNECT_COMMUNICATION_REQUEST
      /\ cState[c] = "INITIALIZED"
      /\ cState' = [cState EXCEPT ![c] = "UNINITIALIZED"]
      /\ cEvent' = [cEvent EXCEPT ![c] = FALSE]
      /\ UNCHANGED <<clients, mState, mEvent, mUpdated, masterDeviceId, reconnects, restarts, sends>>
  BY DEF ClientDisconnects, NextFrame, masterVars, budgetVars
<1>2. SourceDeviceId(Head(rx[c]).canId) = Master
  BY <1>1, HeadAtClient DEF DISCONNECT_COMMUNICATION_REQUEST, WRITE_NODE_VALUE_REQEUST
<1>3. Link!NextForClient(c, {"DISCONNECT"})
  BY <1>1, <1>2, NextOfClient, LinkFrameByType, LinkTypes
<1>4. Link!ConsumeAtClient(c) /\ ToMasters(rx') = ToMasters(rx)
  BY <1>1, <1>2, ClientConsumes
<1> QED
  BY <1>1, <1>3, <1>4
     DEF Link!ClientDisconnects, Link!EventCleared, Link!masterVars, Link!budgetVars, Channel,
         ToMasters

LEMMA WrittenIsLinked ==
  ASSUME BusInv, NEW c \in Client, ClientIsWritten(c)
  PROVE  Link!ClientHandlesValue(c) \/ UNCHANGED Link!vars
<1>1. /\ rx[c] # << >> /\ rx' = Consumed(c)
      /\ MessageType(Head(rx[c]).canId) = WRITE_NODE_VALUE_REQEUST
      /\ cState[c] = "INITIALIZED"
      /\ UNCHANGED <<clients, mState, mEvent, mUpdated, cState, cEvent, masterDeviceId>>
      /\ UNCHANGED <<reconnects, restarts, sends>>
  BY DEF ClientIsWritten, NextFrame, masterVars, budgetVars
<1>2. CASE SourceDeviceId(Head(rx[c]).canId) = Master
  <2>1. LinkFrame(c, Head(rx[c])).type = "WRITE"
    BY <1>1, LinkFrameByType, LinkTypes
  <2>2. /\ Link!NextForClient(c, {"WRITE", "READ_REQUEST"})
        /\ ~ Link!NextForClient(c, {"READ_REQUEST"})
    BY <1>1, <1>2, <2>1, NextOfClient
  <2>3. Link!ConsumeAtClient(c) /\ ToMasters(rx') = ToMasters(rx)
    BY <1>1, <1>2, ClientConsumes
  <2> QED
    BY <1>1, <2>2, <2>3
       DEF Link!ClientHandlesValue, Link!masterVars, Link!clientVars, Link!budgetVars, Channel,
           ToMasters
<1>3. CASE SourceDeviceId(Head(rx[c]).canId) # Master
  BY <1>1, <1>3, ForeignFrameIsNone
<1> QED BY <1>2, <1>3

(* A read request is for a node of the client: it is always answered.      *)
LEMMA ReadIsLinked ==
  ASSUME SamePrograms, BusInv, NEW c \in Client, ClientIsRead(c)
  PROVE  Link!ClientHandlesValue(c)
<1> DEFINE f == Head(rx[c])
           node == NodeInFrame(c, f)
           type == READ_NODE_VALUE_RESPONSE
           data == ValueData(c, node, cTree[c][node])
           answer == Frame(c, Master, type, data)
<1>1. /\ rx[c] # << >> /\ MessageType(f.canId) = READ_NODE_VALUE_REQEUST
      /\ cState[c] = "INITIALIZED" /\ masterDeviceId[c] = Master
      /\ UNCHANGED <<clients, mState, mEvent, mUpdated, cState, cEvent, masterDeviceId>>
      /\ UNCHANGED <<reconnects, restarts, sends>>
  BY DEF ClientIsRead, NextFrame, masterVars, clientVars, budgetVars, BusInv
<1>2. SourceDeviceId(f.canId) = Master /\ SentByMaster(c, READ_NODE_VALUE_REQEUST, f.data)
  BY <1>1, HeadAtClient DEF READ_NODE_VALUE_REQEUST, WRITE_NODE_VALUE_REQEUST
<1>3. PICK n \in NodesIn(Master) : f.data = ReadData(Master, n)
  BY <1>2 DEF SentByMaster, READ_NODE_VALUE_REQEUST, WRITE_NODE_VALUE_REQEUST,
              INIT_COMMUNICATION_REQUEST, DISCONNECT_COMMUNICATION_REQUEST
<1>4. node = n /\ n \in Node
  <2>1. f.data.id = nodeId[Master][n]
    BY <1>3 DEF ReadData
  <2> QED BY <2>1, NodeMeant, Devices
<1>5. node \in Node /\ node \in NodesIn(c)
  <2>1. c \in Device /\ NodeInFrame(c, f) \in Node
    BY <1>4, Devices
  <2> QED BY <2>1, FoundIsOwn
<1>6. rx' = Answered(c, <<answer>>)
  BY <1>1, <1>5 DEF ClientIsRead
<1>7. cTree[c][node] \in ValueOf(c, node) /\ cTree[c][node] \in AnyValue
  BY <1>5, Values DEF BusInv, TreesGenuine
<1>8. /\ data \in AnyData /\ type \in MessageTypes /\ data.id = nodeId[c][node]
      /\ SentByClient(c, Master, type, data)
  <2>1. data \in AnyData /\ CarriesValue(data, c, c)
    BY <1>5, <1>7, SentData, Devices DEF CarriesValue
  <2> QED BY <2>1 DEF SentByClient, MessageTypes, READ_NODE_VALUE_RESPONSE, ValueData
<1> HIDE DEF f, node, type, data
<1>9. answer.data = data /\ MessageType(answer.canId) = type
  BY <1>8, FromClients
<1>10. LinkFrame(Master, answer) = Link!Frame("READ_RESPONSE", node)
  <2>1. NodeInFrame(Master, answer) = node
    BY <1>5, <1>8, <1>9, NodeMeant, Devices
  <2> QED BY <1>9, <2>1, LinkFrameByType DEF type
<1>11. /\ Link!ConsumeAtClient(c)
       /\ ToMasters(rx') = AddedTo(ToMasters(rx), c, LinkFrame(Master, answer))
  BY <1>1, <1>2, <1>6, <1>8, AnswerLinked DEF f
<1>12. LinkFrame(c, f) = Link!Frame("READ_REQUEST", node)
  BY <1>1, LinkFrameByType DEF node
<1>13. /\ Link!NextForClient(c, {"WRITE", "READ_REQUEST"})
       /\ Link!NextForClient(c, {"READ_REQUEST"})
  <2>1. LinkFrame(c, f).type = "READ_REQUEST"
    BY <1>12, LinkTypes
  <2> QED BY <1>1, <1>2, <2>1, NextOfClient DEF f
<1>14. Link!ReadResponse(Head(ToClients(rx)[c])) = Link!Frame("READ_RESPONSE", node)
  <2>1. Head(ToClients(rx)[c]) = LinkFrame(c, f)
    BY <1>1, <1>2, TakenAtClient DEF BusInv, f
  <2> QED BY <1>12, <2>1, LinkTypes DEF Link!ReadResponse
<1> HIDE DEF answer
<1>15. ToMasters(rx') = [ToMasters(rx) EXCEPT
                           ![c] = Append(@, Link!ReadResponse(Head(ToClients(rx)[c])))]
  BY <1>10, <1>11, <1>14 DEF AddedTo
<1> QED
  BY <1>1, <1>11, <1>13, <1>15
     DEF Link!ClientHandlesValue, Link!masterVars, Link!clientVars, Link!budgetVars, Channel,
         ToMasters, ToClients

-----------------------------------------------------------------------------
(* The steps in which the master processes a frame. *)
LEMMA NextOfMaster ==
  ASSUME BusInv, NEW c \in Client, rx[Master] # << >>, c = Sender, NEW types
  PROVE  Link!NextForMaster(c, types)
           <=> c \in clients /\ LinkFrame(Master, Head(rx[Master])).type \in types
<1>1. /\ ToMasters(rx)[c] # << >>
      /\ Head(ToMasters(rx)[c]) = LinkFrame(Master, Head(rx[Master]))
  BY TakenAtMaster DEF BusInv, Sender
<1> QED BY <1>1 DEF Link!NextForMaster, Channel, ToMasters

LEMMA MasterConsumes ==
  ASSUME BusInv, NEW c \in Client, rx[Master] # << >>, c = Sender, rx' = Consumed(Master)
  PROVE  Link!ConsumeAtMaster(c) /\ ToClients(rx') = ToClients(rx)
<1>1. /\ ToMasters(rx') = [ToMasters(rx) EXCEPT ![c] = Tail(@)]
      /\ ToClients(rx') = ToClients(rx)
  BY TakenAtMaster DEF BusInv, Sender, Consumed
<1> QED BY <1>1 DEF Link!ConsumeAtMaster, Channel, ToMasters

LEMMA GotAcceptIsLinked ==
  ASSUME BusInv, NEW c \in Client, c = Sender, MasterGetsAccept
  PROVE  Link!MasterGetsAccept(c)
<1>1. /\ rx[Master] # << >> /\ c \in clients /\ rx' = Consumed(Master)
      /\ MessageType(Head(rx[Master]).canId) = INIT_COMMUNICATION_RESPONSE
      /\ Head(rx[Master]).data.accepted
      /\ mState[c] = "INITIALIZING"
      /\ mState' = [mState EXCEPT ![c] = "INITIALIZED"]
      /\ mEvent' = [mEvent EXCEPT ![c] = TRUE]
      /\ UNCHANGED <<clients, mUpdated, cState, cEvent, masterDeviceId>>
      /\ UNCHANGED <<reconnects, restarts, sends>>
  BY DEF MasterGetsAccept, MasterGets, NextFrame, clientVars, budgetVars
<1>2. Link!NextForMaster(c, {"ACCEPT"})
  BY <1>1, NextOfMaster, LinkFrameByType, LinkTypes
<1>3. Link!ConsumeAtMaster(c) /\ ToClients(rx') = ToClients(rx)
  BY <1>1, MasterConsumes
<1> QED
  BY <1>1, <1>2, <1>3
     DEF Link!MasterGetsAccept, Link!clientVars, Link!budgetVars, Channel, ToClients

LEMMA GotRefusalIsLinked ==
  ASSUME BusInv, NEW c \in Client, c = Sender, MasterGetsRefusal
  PROVE  Link!MasterGetsRefusal(c)
<1>1. /\ rx[Master] # << >> /\ c \in clients
      /\ MessageType(Head(rx[Master]).canId) = INIT_COMMUNICATION_RESPONSE
      /\ ~ Head(rx[Master]).data.accepted
      /\ mState[c] = "INITIALIZING"
      /\ rx' = Answered(Master, ReconnectFrames(c))
      /\ UNCHANGED <<clients, mState, mEvent, mUpdated, cState, cEvent, masterDeviceId>>
      /\ UNCHANGED <<reconnects, restarts, sends>>
  BY DEF MasterGetsRefusal, MasterGets, NextFrame, masterVars, clientVars, budgetVars
<1>2. Link!NextForMaster(c, {"NOT_ACCEPT"})
  BY <1>1, NextOfMaster, LinkFrameByType, LinkTypes
<1>3. /\ ToClients(rx') = [ToClients(rx) EXCEPT ![c] = @ \o Link!ReconnectFrames]
      /\ ToMasters(rx') = [ToMasters(rx) EXCEPT ![c] = Tail(@)]
  BY <1>1, MasterAnswers DEF BusInv
<1>4. Link!ConsumeAtMaster(c)
  BY <1>3 DEF Link!ConsumeAtMaster, Channel, ToMasters
<1>5. mState' = [mState EXCEPT ![c] = "INITIALIZING"]
  BY <1>1 DEF BusInv
<1>6. Link!reconnectToClient(c)
  BY <1>3, <1>5 DEF Link!reconnectToClient, Channel, ToClients
<1> QED
  BY <1>1, <1>2, <1>4, <1>6
     DEF Link!MasterGetsRefusal, Link!clientVars, Link!budgetVars

LEMMA IgnoredResponseIsLinked ==
  ASSUME BusInv, NEW c \in Client, c = Sender, MasterIgnoresResponse
  PROVE  Link!MasterIgnoresResponse(c)
<1>1. /\ rx[Master] # << >> /\ c \in clients /\ rx' = Consumed(Master)
      /\ MessageType(Head(rx[Master]).canId) = INIT_COMMUNICATION_RESPONSE
      /\ mState[c] # "INITIALIZING"
      /\ UNCHANGED <<clients, mState, mEvent, mUpdated, cState, cEvent, masterDeviceId>>
      /\ UNCHANGED <<reconnects, restarts, sends>>
  BY DEF MasterIgnoresResponse, MasterGets, NextFrame, masterVars, clientVars, budgetVars
<1>2. Link!NextForMaster(c, {"ACCEPT", "NOT_ACCEPT"})
  BY <1>1, NextOfMaster, LinkFrameByType, LinkTypes
<1>3. Link!ConsumeAtMaster(c) /\ ToClients(rx') = ToClients(rx)
  BY <1>1, MasterConsumes
<1> QED
  BY <1>1, <1>2, <1>3
     DEF Link!MasterIgnoresResponse, Link!masterVars, Link!clientVars, Link!budgetVars, Channel,
         ToClients

(* A value is for a node of the master's program: it is always taken over. *)
LEMMA MasterWrittenIsLinked ==
  ASSUME SamePrograms, BusInv, NEW c \in Client, c = Sender, MasterIsWritten
  PROVE  Link!MasterHandlesValue(c)
<1> DEFINE f == Head(rx[Master])
           node == NodeInFrame(Master, f)
<1>1. /\ rx[Master] # << >> /\ c \in clients /\ rx' = Consumed(Master)
      /\ MessageType(f.canId) \in {WRITE_NODE_VALUE_REQEUST, READ_NODE_VALUE_RESPONSE}
      /\ UNCHANGED <<clients, mState, mEvent, cState, cEvent, masterDeviceId>>
      /\ UNCHANGED <<reconnects, restarts, sends>>
  BY DEF MasterIsWritten, MasterGets, NextFrame, clientVars, budgetVars
<1>2. CarriesValue(f.data, c, c)
  BY <1>1, HeadAtMaster
<1>3. PICK n \in NodesIn(c) : \E v \in ValueOf(c, n) : f.data = ValueData(c, n, v)
  BY <1>2 DEF CarriesValue
<1>4. f.data.id = nodeId[c][n] /\ f.data.bytes = Size[n] + 1
  BY <1>3 DEF ValueData
<1>5. node = n /\ n \in Node
  BY <1>4, NodeMeant, Devices
<1>6. Applies(Master, f)
  <2>1. Size[n] \in 1 .. 4
    BY <1>5, NodesAssumption
  <2> QED BY <1>4, <1>5, <2>1 DEF Applies
<1>7. mUpdated' = [mUpdated EXCEPT ![c] = @ \cup {node}]
  BY <1>6 DEF MasterIsWritten
<1>8. LinkFrame(Master, f).type \in {"WRITE", "READ_RESPONSE"} /\ LinkFrame(Master, f).node = node
  BY <1>1, LinkFrameByType, LinkTypes
<1>9. Link!NextForMaster(c, {"WRITE", "READ_RESPONSE"})
  BY <1>1, <1>8, NextOfMaster
<1>10. Link!ConsumeAtMaster(c) /\ ToClients(rx') = ToClients(rx)
  BY <1>1, MasterConsumes
<1>11. Head(ToMasters(rx)[c]).node = node
  <2>1. Head(ToMasters(rx)[c]) = LinkFrame(Master, f)
    BY <1>1, TakenAtMaster DEF BusInv, Sender
  <2> QED BY <1>8, <2>1
<1> HIDE DEF node
<1>12. mUpdated' = [mUpdated EXCEPT ![c] = @ \cup {Head(ToMasters(rx)[c]).node}]
  BY <1>7, <1>11
<1> QED
  BY <1>1, <1>9, <1>10, <1>12
     DEF Link!MasterHandlesValue, Link!clientVars, Link!budgetVars, Channel, ToClients, ToMasters

-----------------------------------------------------------------------------
(* The master restarts: what it loses of its queue is the beginning of     *)
(* each channel.                                                           *)
LEMMA BehindBeginning ==
  ASSUME NEW S, NEW a \in Seq(S), NEW b \in Seq(S)
  PROVE  /\ Len(a) \in 0 .. Len(a \o b)
         /\ SubSeq(a \o b, Len(a) + 1, Len(a \o b)) = b
<1>1. /\ a \o b \in Seq(S) /\ Len(a \o b) = Len(a) + Len(b)
      /\ Len(a) \in Nat /\ Len(b) \in Nat
  BY ConcatProperties, LenProperties
<1>2. \A i \in 1 .. Len(b) : (a \o b)[Len(a) + i] = b[i]
  <2>1. \A i \in 1 .. Len(b) :
          /\ Len(a) + i \in 1 .. Len(a) + Len(b) /\ ~ (Len(a) + i <= Len(a))
          /\ (Len(a) + i) - Len(a) = i
    BY <1>1
  <2> QED BY <2>1, ConcatProperties
<1> DEFINE ab == a \o b
           n == Len(a)
           m == Len(b)
<1> HIDE DEF ab
<1>3. \A i \in (n + 1) .. Len(ab) : ab[i] \in S
  BY <1>1, ElementOfSeq DEF ab
<1>4. SubSeq(ab, n + 1, Len(ab)) = b
  <2> DEFINE s == SubSeq(ab, n + 1, Len(ab))
  <2>1. /\ s \in Seq(S) /\ Len(s) = m
        /\ \A i \in 1 .. m : s[i] = ab[n + i]
    <3>1. n + 1 \in Int /\ Len(ab) \in Int
      BY <1>1 DEF ab
    <3>2. /\ s \in Seq(S)
          /\ Len(s) = IF n + 1 <= Len(ab) THEN Len(ab) - (n + 1) + 1 ELSE 0
          /\ \A i \in 1 .. Len(ab) - (n + 1) + 1 : s[i] = ab[(n + 1) + i - 1]
      BY <3>1, <1>3, SubSeqProperties
    <3>3. Len(s) = m
      BY <3>2, <1>1 DEF ab
    <3>4. \A i \in 1 .. m : s[i] = ab[n + i]
      <4>1. \A i \in 1 .. m : i \in 1 .. Len(ab) - (n + 1) + 1 /\ (n + 1) + i - 1 = n + i
        BY <1>1 DEF ab
      <4> QED BY <3>2, <4>1
    <3> QED BY <3>2, <3>3, <3>4
  <2> HIDE DEF s
  <2>2. \A i \in 1 .. m : s[i] = b[i]
    BY <2>1, <1>2 DEF ab
  <2>3. s = b
    BY <2>1, <2>2, SeqEqual
  <2> QED BY <2>3 DEF s
<1> QED BY <1>1, <1>4 DEF ab

LEMMA CutInTwo ==
  ASSUME NEW S, NEW q \in Seq(S), NEW k \in 1 .. Len(q) + 1
  PROVE  \E a \in Seq(S), b \in Seq(S) : q = a \o b /\ b = SubSeq(q, k, Len(q))
<1> DEFINE a == SubSeq(q, 1, k - 1)
           b == SubSeq(q, k, Len(q))
<1>1. Len(q) \in Nat /\ k \in Int /\ k - 1 \in Int /\ \A i \in 1 .. Len(q) : q[i] \in S
  BY LenProperties, ElementOfSeq
<1>2. a \in Seq(S) /\ Len(a) = k - 1 /\ \A i \in 1 .. k - 1 : a[i] = q[i]
  <2>1. /\ \A i \in 1 .. k - 1 : q[i] \in S
        /\ (k - 1) - 1 + 1 = k - 1 /\ \A i \in 1 .. k - 1 : 1 + i - 1 = i
    BY <1>1
  <2>2. /\ a \in Seq(S)
        /\ Len(a) = IF 1 <= k - 1 THEN (k - 1) - 1 + 1 ELSE 0
        /\ \A i \in 1 .. (k - 1) - 1 + 1 : a[i] = q[1 + i - 1]
    BY <1>1, <2>1, SubSeqProperties
  <2> QED BY <1>1, <2>1, <2>2
<1>3. /\ b \in Seq(S) /\ Len(b) = Len(q) - k + 1
      /\ \A i \in 1 .. Len(q) - k + 1 : b[i] = q[k + i - 1]
  <2>1. \A i \in k .. Len(q) : q[i] \in S
    BY <1>1
  <2>2. /\ b \in Seq(S)
        /\ Len(b) = IF k <= Len(q) THEN Len(q) - k + 1 ELSE 0
        /\ \A i \in 1 .. Len(q) - k + 1 : b[i] = q[k + i - 1]
    BY <1>1, <2>1, SubSeqProperties
  <2> QED BY <1>1, <2>2
<1> HIDE DEF a, b
<1>4. q = a \o b
  <2> DEFINE ab == a \o b
  <2>1. ab \in Seq(S) /\ Len(ab) = Len(q)
    BY <1>1, <1>2, <1>3, ConcatProperties
  <2>2. ASSUME NEW i \in 1 .. Len(q)
        PROVE  ab[i] = q[i]
    <3>1. ab[i] = IF i <= Len(a) THEN a[i] ELSE b[i - Len(a)]
      BY <1>1, <1>2, <1>3, ConcatProperties
    <3>2. CASE i <= k - 1
      <4>1. i \in 1 .. k - 1
        BY <1>1, <3>2
      <4> QED BY <1>2, <3>1, <3>2, <4>1
    <3>3. CASE ~ (i <= k - 1)
      <4>1. i - (k - 1) \in 1 .. Len(q) - k + 1 /\ k + (i - (k - 1)) - 1 = i
        BY <1>1, <3>3
      <4>2. b[i - (k - 1)] = q[k + (i - (k - 1)) - 1]
        BY <1>3, <4>1
      <4> QED BY <1>2, <3>1, <3>3, <4>1, <4>2
    <3> QED BY <3>2, <3>3
  <2> HIDE DEF ab
  <2>3. ab = q
    BY <2>1, <2>2, SeqEqual
  <2> QED BY <2>3 DEF ab
<1>5. \E x \in Seq(S), y \in Seq(S) : q = x \o y /\ y = b
  BY <1>2, <1>3, <1>4
<1> QED BY <1>5 DEF b

(* A cut of a queue cuts the channel of each source.                       *)
CutFrom(all, rest) == \E lost \in 0 .. Len(all) : rest = SubSeq(all, lost + 1, Len(all))

LEMMA CutIsLinked ==
  ASSUME NEW source, NEW device, NEW S, NEW q \in Seq(S), NEW k \in 1 .. Len(q) + 1
  PROVE  CutFrom(LinkFrames(source, device, q), LinkFrames(source, device, SubSeq(q, k, Len(q))))
<1> DEFINE T == LinkFramesIn(device, S)
<1>1. PICK a \in Seq(S), b \in Seq(S) : q = a \o b /\ b = SubSeq(q, k, Len(q))
  BY CutInTwo
<1> DEFINE x == LinkFrames(source, device, a)
           y == LinkFrames(source, device, b)
<1>2. LinkFrames(source, device, a \o b) = x \o y
  BY LinkFramesOfConcat
<1>3. x \in Seq(T) /\ y \in Seq(T)
  BY LinkFramesType
<1>4. LinkFrames(source, device, SubSeq(q, k, Len(q))) = y
  BY <1>1
<1> HIDE DEF x, y, T
<1>5. Len(x) \in 0 .. Len(x \o y) /\ SubSeq(x \o y, Len(x) + 1, Len(x \o y)) = y
  BY <1>3, BehindBeginning
<1>6. CutFrom(x \o y, y)
  <2> DEFINE xy == x \o y
  <2>1. Len(x) \in 0 .. Len(xy) /\ y = SubSeq(xy, Len(x) + 1, Len(xy))
    BY <1>5
  <2> HIDE DEF xy
  <2>2. CutFrom(xy, y)
    BY <2>1 DEF CutFrom
  <2> QED BY <2>2 DEF xy
<1> QED BY <1>1, <1>2, <1>4, <1>6, Zenon

LEMMA RestartIsLinked ==
  ASSUME BusInv, MasterRestarts
  PROVE  Link!MasterRestarts
<1> DEFINE q == rx[Master]
           rest(k) == SubSeq(q, k, Len(q))
           old == ToMasters(rx)
<1>1. PICK k \in 1 .. Len(q) + 1 : rx' = [rx EXCEPT ![Master] = rest(k)]
  BY DEF MasterRestarts
<1>2. q \in Seq(Arrivals(Master))
  BY QueueTypes, Devices DEF BusInv
<1>3. /\ ToClients(rx') = ToClients(rx)
      /\ ToMasters(rx') = [c \in Client |-> LinkFrames(c, Master, rest(k))]
  <2> DEFINE r == rest(k)
  <2> HIDE DEF r
  <2>1. /\ ToClients([rx EXCEPT ![Master] = r]) = ToClients(rx)
        /\ ToMasters([rx EXCEPT ![Master] = r]) = [c \in Client |-> LinkFrames(c, Master, r)]
    <3>1. ProperQueues(rx)
      BY DEF BusInv
    <3> QED BY <3>1, ChangedAtMaster, Zenon
  <2> QED BY <1>1, <2>1 DEF r
<1>4. \A c \in Client : old[c] = LinkFrames(c, Master, q)
  BY DEF ToMasters
<1>5. \A c \in Client : \E lost \in 0 .. Len(old[c]) :
        LinkFrames(c, Master, rest(k)) = SubSeq(old[c], lost + 1, Len(old[c]))
  <2> HIDE DEF q, old
  <2>1. \A c \in Client : CutFrom(LinkFrames(c, Master, q), LinkFrames(c, Master, rest(k)))
    BY <1>2, CutIsLinked
  <2>2. \A c \in Client : CutFrom(old[c], LinkFrames(c, Master, rest(k)))
    BY <1>4, <2>1
  <2> HIDE DEF rest
  <2> QED BY <2>2 DEF CutFrom
<1> DEFINE Cut(c, n) == /\ n \in 0 .. Len(old[c])
                        /\ LinkFrames(c, Master, rest(k)) = SubSeq(old[c], n + 1, Len(old[c]))
           lost == [c \in Client |-> CHOOSE n : Cut(c, n)]
<1>6. \A c \in Client : Cut(c, lost[c])
  <2>1. \A c \in Client : \E n : Cut(c, n)
    BY <1>5
  <2> HIDE DEF Cut
  <2> QED BY <2>1
<1> HIDE DEF lost
<1>7. /\ lost \in [Client -> UNION {0 .. Len(old[c]) : c \in Client}]
      /\ \A c \in Client : lost[c] <= Len(old[c])
  <2>1. \A c \in Client : lost[c] \in 0 .. Len(old[c])
    BY <1>6
  <2>2. lost = [c \in Client |-> lost[c]]
    <3> HIDE DEF Cut
    <3> QED BY DEF lost
  <2> HIDE DEF old
  <2> QED BY <2>1, <2>2
<1>8. ToMasters(rx') = [c \in Client |-> SubSeq(old[c], lost[c] + 1, Len(old[c]))]
  BY <1>3, <1>6
<1>9. /\ restarts < MaxRestarts /\ restarts' = restarts + 1
      /\ clients' = {}
      /\ mState' = [c \in Client |-> "UNINITIALIZED"]
      /\ mEvent' = [c \in Client |-> FALSE]
      /\ mUpdated' = [c \in Client |-> {}]
      /\ UNCHANGED <<cState, cEvent, masterDeviceId, reconnects, sends>>
  BY DEF MasterRestarts, clientVars
<1>10. Link!Fault("master restart")
  BY <1>9 DEF Link!Fault
<1>11. Link!MasterForgets
  BY <1>7, <1>8, <1>9, Zenon DEF Link!MasterForgets, Link!clientVars, Channel, ToMasters
<1> QED
  BY <1>3, <1>9, <1>10, <1>11 DEF Link!MasterRestarts, Channel, ToClients

-----------------------------------------------------------------------------
LEMMA InitIsLinked == Init => Link!Init
<1> SUFFICES ASSUME Init PROVE Link!Init
  OBVIOUS
<1>1. \A d \in Device : rx[d] = << >>
  BY DEF Init
<1>2. \A c \in Client : Channel(Master, c) = << >> /\ Channel(c, Master) = << >>
  BY <1>1, LinkFramesOfOne, Devices DEF Channel
<1>3. [c \in Client |-> masterDeviceId[c] # 255] = [c \in Client |-> FALSE]
  <2> DEFINE P(c) == masterDeviceId[c] # 255
  <2>1. \A c \in Client : P(c) = FALSE
    BY DEF Init
  <2> HIDE DEF P
  <2>2. [c \in Client |-> P(c)] = [c \in Client |-> FALSE]
    BY <2>1
  <2> QED BY <2>2 DEF P
<1>4. /\ [c \in Client |-> Channel(Master, c)] = [c \in Client |-> << >>]
      /\ [c \in Client |-> Channel(c, Master)] = [c \in Client |-> << >>]
  BY <1>2
<1> QED
  BY <1>3, <1>4 DEF Init, Link!Init

LEMMA StepIsLinked ==
  ASSUME SamePrograms, Client # {}, BusInv, [Next]_vars
  PROVE  [Link!FaultNext]_(Link!vars)
<1>1. CASE UNCHANGED vars
  BY <1>1 DEF vars, masterVars, clientVars, budgetVars, Link!vars, Link!masterVars, Link!clientVars,
              Link!budgetVars, Channel
<1>2. ASSUME NEW c \in Client, AddAndConnectToClient(c) \/ ApplicationReconnects(c)
      PROVE  Link!Next
  BY <1>2, ConnectIsLinked, ReconnectIsLinked DEF Link!Next, Link!ApplicationConnects
<1>3. ASSUME NEW c \in Client, ApplicationUses(c)
      PROVE  Link!Next
  <2>1. Link!ApplicationUses(c)
    BY <1>3, MasterValueIsLinked, MasterReadIsLinked, ClientValueIsLinked, EventsAreLinked
       DEF ApplicationUses, Link!ApplicationUses
  <2> QED BY <2>1 DEF Link!Next, Link!LinkStep
<1>4. ASSUME NEW c \in Client, ClientProcessesFrame(c)
      PROVE  Link!Next \/ UNCHANGED Link!vars
  <2>1. Link!ClientProcessesFrame(c) \/ UNCHANGED Link!vars
    BY <1>4, IgnoredIsLinked, AcceptIsLinked, RefuseIsLinked, DisconnectIsLinked,
       WrittenIsLinked, ReadIsLinked
       DEF ClientProcessesFrame, Link!ClientProcessesFrame
  <2> QED BY <2>1 DEF Link!Next, Link!LinkStep
<1>5. CASE MasterProcessesFrame
  <2>1. Sender \in Client
    BY <1>5, HeadAtMaster
       DEF MasterProcessesFrame, MasterGetsAccept, MasterGetsRefusal, MasterIgnoresResponse,
           MasterIsWritten, MasterGets, NextFrame
  <2>2. PICK c \in Client : c = Sender
    BY <2>1
  <2>3. Link!MasterProcessesFrame(c)
    BY <1>5, <2>2, GotAcceptIsLinked, GotRefusalIsLinked, IgnoredResponseIsLinked,
       MasterWrittenIsLinked
       DEF MasterProcessesFrame, Link!MasterProcessesFrame
  <2> QED BY <2>3 DEF Link!Next, Link!LinkStep, Link!FaultNext
<1>6. CASE MasterRestarts
  <2>1. PICK c \in Client : TRUE
    OBVIOUS
  <2>2. Link!FaultStep(c)
    BY <1>6, RestartIsLinked DEF Link!FaultStep
  <2> QED BY <2>2 DEF Link!FaultNext
<1> QED
  BY <1>1, <1>2, <1>3, <1>4, <1>5, <1>6 DEF Next, Link!FaultNext

(* SOTMaster.h and SOTClient.h on CanPackages.h and the drivers' filters,  *)
(* for any clients and any one def file: the shared bus gives every client *)
(* a link of its own, as SOTLink has it, also when the master restarts.    *)
THEOREM BusImplementsLink ==
  ASSUME SamePrograms, Client # {} PROVE Spec => ImplementsLink
<1>1. BusInv /\ [Next]_vars => [Link!FaultNext]_(Link!vars)
  BY StepIsLinked
<1>2. AppendOnly
  BY SameAppends
<1>3. Spec => []BusInv
  BY <1>2, BusIsProper
<1> QED
  BY <1>1, <1>3, InitIsLinked, PTL DEF Spec, ImplementsLink, Link!FaultSpec

-----------------------------------------------------------------------------
(* What is proved of the link then holds on the bus.                       *)
Proved == INSTANCE SOTLink_proofs WITH
  MetaNodes   <- << >>,
  received    <- mUpdated,
  masterKnown <- [c \in Client |-> masterDeviceId[c] # 255],
  toClient    <- [c \in Client |-> Channel(Master, c)],
  toMaster    <- [c \in Client |-> Channel(c, Master)],
  faults      <- restarts,
  attempted   <- clients,
  FaultKinds  <- {"master restart"},
  MaxFaults   <- MaxRestarts

(* The link that the bus implements is the one that the proofs are about.  *)
LEMMA SameInit == Link!Init => Proved!Init
BY DEF Link!Init, Proved!Init

LEMMA SameSteps == [Link!FaultNext]_(Link!vars) => [Proved!FaultNext]_(Proved!vars)
BY DEF Link!FaultNext, Proved!FaultNext, Link!Next, Proved!Next, Link!vars,
         Proved!vars, Link!masterVars, Proved!masterVars, Link!clientVars,
         Proved!clientVars, Link!budgetVars, Proved!budgetVars,
         Link!ApplicationConnects, Proved!ApplicationConnects, Link!LinkStep,
         Proved!LinkStep, Link!FaultStep, Proved!FaultStep, Link!AddAndConnectToClient,
         Proved!AddAndConnectToClient, Link!ApplicationReconnects,
         Proved!ApplicationReconnects, Link!reconnectToClient, Proved!reconnectToClient,
         Link!ApplicationUses, Proved!ApplicationUses, Link!MasterSends,
         Proved!MasterSends, Link!ClientSends, Proved!ClientSends,
         Link!MasterTakesEvent, Proved!MasterTakesEvent, Link!ClientTakesEvent,
         Proved!ClientTakesEvent, Link!ClientProcessesFrame,
         Proved!ClientProcessesFrame, Link!ClientIgnores, Proved!ClientIgnores,
         Link!ClientAccepts, Proved!ClientAccepts, Link!ClientRefuses,
         Proved!ClientRefuses, Link!ClientDisconnects, Proved!ClientDisconnects,
         Link!ClientHandlesValue, Proved!ClientHandlesValue, Link!MasterProcessesFrame,
         Proved!MasterProcessesFrame, Link!MasterGetsAccept, Proved!MasterGetsAccept,
         Link!MasterGetsRefusal, Proved!MasterGetsRefusal, Link!MasterIgnoresResponse,
         Proved!MasterIgnoresResponse, Link!MasterHandlesValue,
         Proved!MasterHandlesValue, Link!NextForClient, Proved!NextForClient,
         Link!NextForMaster, Proved!NextForMaster, Link!ConsumeAtClient,
         Proved!ConsumeAtClient, Link!ConsumeAtMaster, Proved!ConsumeAtMaster,
         Link!EventCleared, Proved!EventCleared, Link!ReadResponse, Proved!ReadResponse,
         Link!Frame, Proved!Frame, Link!InitRequest, Proved!InitRequest,
         Link!Disconnect, Proved!Disconnect, Link!Accept, Proved!Accept, Link!NotAccept,
         Proved!NotAccept, Link!MasterFrameType, Proved!MasterFrameType,
         Link!MetaFrames, Proved!MetaFrames, Link!AcceptanceFrames,
         Proved!AcceptanceFrames, Link!ReconnectFrames, Proved!ReconnectFrames,
         Link!Fault, Proved!Fault, Link!FrameToClientLost, Proved!FrameToClientLost,
         Link!FrameToMasterLost, Proved!FrameToMasterLost, Link!ClientRestarts,
         Proved!ClientRestarts, Link!MasterForgets, Proved!MasterForgets,
         Link!MasterRestarts, Proved!MasterRestarts, Link!MasterDiesReconnecting,
         Proved!MasterDiesReconnecting

LEMMA ProvedSettles == Proved!FaultSpec => []Proved!AttemptSettlesConnected
<1>1. /\ NoNode \notin Node /\ << >> \in Seq(Node)
      /\ MaxReconnect \in Nat /\ MaxSend \in Nat /\ MaxRestarts \in Nat
      /\ {"master restart"} \subseteq {"loss", "client restart", "master restart"}
  BY NodesAssumption, BoundAssumption
<1> QED BY <1>1, Proved!AttemptsSettle

(* A client in the master's map none of whose frames is under way.         *)
BusSettlesConnected ==
  \A c \in clients : Channel(Master, c) = << >> /\ Channel(c, Master) = << >>
    => mState[c] = "INITIALIZED" /\ cState[c] = "INITIALIZED"

(* SOTMaster.h:57, 274-281 against SOTClient.h:76-101, for any clients on  *)
(* one bus and any def file: whatever the clients send each other and      *)
(* whenever the master was restarted, a client that it has added is        *)
(* connected on both sides once nothing of the two is under way.           *)
THEOREM BusSettles ==
  ASSUME SamePrograms, Client # {} PROVE Spec => []BusSettlesConnected
<1>1. Spec => Link!FaultSpec
  BY BusImplementsLink DEF ImplementsLink
<1>2. ASSUME BusInv, Proved!AttemptSettlesConnected
      PROVE  BusSettlesConnected
  BY <1>2 DEF BusInv, Proved!AttemptSettlesConnected, BusSettlesConnected
<1>3. Spec => []BusInv
  BY SameAppends, BusIsProper
<1> QED
  BY <1>1, <1>2, <1>3, SameInit, SameSteps, ProvedSettles, PTL DEF Link!FaultSpec, Proved!FaultSpec
=============================================================================
