---------------------------- MODULE TypedFrames ----------------------------
(***************************************************************************)
(* The typed data of one value node and one remote call between the two    *)
(* programs of a spec file: a master and a connected client, each with the *)
(* code generated for its side, maybe from different versions of the file. *)
(* Values are written to the bytes of frames and read back from the buffer *)
(* that processCanFrames receives all its frames into.                     *)
(*                                                                         *)
(* The connection is SOTLink's subject, the flags' and answers' order      *)
(* that of RemoteCalls; here a frame has its bytes.  The first byte, the   *)
(* number of the node or call, is left out.  `of' is what the sender's     *)
(* application gave, of which the code knows nothing.                      *)
(***************************************************************************)
EXTENDS DataConversion

CONSTANTS
  Versions,      \* pairs of programs: what both sides' spec files say
  FrameBytes,    \* bytes of a frame after the first: 7
  EnumValues,    \* values of the enums
  RestOfError,   \* what a new master has in the upper bytes of an error code
  BeyondRights,  \* whether applications send and request nodes that their
                 \* access right does not name
  MaxInFlight    \* bound: frames to a side

VARIABLES
  version,             \* the pair of programs
  value,               \* ValueNodeTypeAbstract::value
  receivedValueUpdate, \* ValueNodeAbstract::receivedValueUpdate
  origin,              \* what an application wrote to get this value
  unsent,              \* whether an application's write was never sent
  seen,                \* the value when the application last took the flag
  argumentsData,       \* RemoteCallCallable::argumentsData
  remoteCallCalled,    \* RemoteCallCallable::remoteCallCalled
  calledWith,          \* what the caller's application gave
  callReturnData,      \* RemoteCallCaller::callReturnData
  remoteCallReturned,  \* RemoteCallCaller::remoteCallReturned
  returnedWith,        \* what the callee's application gave
  queue                \* frames on their way to a side

nodeVars == <<value, receivedValueUpdate, origin, unsent, seen>>
calleeVars == <<argumentsData, remoteCallCalled, calledWith>>
callerVars == <<callReturnData, remoteCallReturned, returnedWith>>
vars == <<version, nodeVars, calleeVars, callerVars, queue>>

Side == {"master", "client"}
Other(side) == CHOOSE other \in Side : other # side

-----------------------------------------------------------------------------
(* What the generated code says.  A file whose types the generator does    *)
(* not know, or whose access right it does not, yields no program.         *)
TypesIn(v) ==
  {v.type} \cup UNION {Range(types) : types \in Range(v.args) \cup Range(v.returns)}
Generated(v) ==
  /\ \A type \in TypesIn(v) : KnownType(type, v.enums)
  /\ v.access \in {"r", "w", "rw"}

(* The generator takes structs of any size; those of the files are given   *)
(* so that they fit a frame.                                               *)
ASSUME FramesAssumption ==
  \A v \in Versions : \A types \in Range(v.args) \cup Range(v.returns) :
    Generated(v) => getRequiredDataSizeBytes(types) <= FrameBytes

(* Files name their types. *)
ASSUME FilesAssumption ==
  \A v \in Versions : {v.args, v.returns} \subseteq [Side -> Seq(STRING)]

(* The values of all types fit a frame. *)
ASSUME FrameAssumption == FrameBytes \in Nat /\ FrameBytes >= 4

ASSUME BoundAssumption == MaxInFlight \in Nat \ {0} /\ BeyondRights \in BOOLEAN

Type == version.type
Args(side) == version.args[side]
Returns(side) == version.returns[side]
Access(side) == AccessOfSide(version.access, side)

MayWrite(side) == Access(side) \in {"Writable", "ReadWriteable"}
MayRead(side) == Access(side) \in {"Readable", "ReadWriteable"}

(* What the applications of a pair use: the node, the call or both. *)
Uses(part) == part \in version.uses

(* A node of an enum keeps a byte of it. *)
Stored(type, v) == IF type \in CppType THEN v ELSE v % ByteSize

(* What applications give: the ends of a type's range. *)
SomeValues(type) ==
  IF type \in CppType THEN {Lowest(type), Highest(type)} ELSE EnumValues
SomeStructs(types) ==
  {values \in [DOMAIN types -> UNION {SomeValues(t) : t \in Range(types)}] :
     \A i \in DOMAIN types : values[i] \in SomeValues(types[i])}

-----------------------------------------------------------------------------
Init ==
  /\ version \in {v \in Versions : Generated(v)}
  \* The master's tree is zeroed by its map, the client's is not initialised.
  /\ \E v \in SomeValues(Type) :
       /\ origin = [master |-> 0, client |-> v]
       /\ value = [side \in Side |-> Stored(Type, origin[side])]
  /\ receivedValueUpdate = [side \in Side |-> FALSE]
  /\ unsent = [side \in Side |-> TRUE]
  /\ seen = value
  /\ argumentsData = [i \in DOMAIN Args("client") |-> 0]
  /\ remoteCallCalled = FALSE
  /\ calledWith = << >>
  /\ \E rest \in RestOfError :
       callReturnData = [isError     |-> FALSE,
                         returnData  |-> [i \in DOMAIN Returns("master") |-> 0],
                         returnError |-> rest * ByteSize]
  /\ remoteCallReturned = FALSE
  /\ returnedWith = << >>
  /\ queue = [side \in Side |-> << >>]

-----------------------------------------------------------------------------
(* Sending and receiving. *)
Frame(type, bytes, of) == [type |-> type, data |-> bytes, of |-> of]

Send(to, frame) ==
  /\ Len(queue[to]) < MaxInFlight
  /\ queue' = [queue EXCEPT ![to] = Append(@, frame)]

IsNext(side, type) == queue[side] # << >> /\ Head(queue[side]).type = type

(* getNextCanFrameReceived copies the bytes there are into the buffer that *)
(* processCanFrames uses for all its frames.  What is behind them is 0 or  *)
(* from earlier frames, here the same byte at every place.                 *)
Buffer(side, stale) ==
  LET bytes == Head(queue[side]).data
  IN  [i \in 1 .. FrameBytes |-> IF i <= Len(bytes) THEN bytes[i] ELSE stale]

Byte == 0 .. ByteSize - 1
Stale == {0, ByteSize - 1}

Receive(side) == queue' = [queue EXCEPT ![side] = Tail(@)]

(* checkPackageDataSizeForNodeValue, checkPackageDataSizeForRemoteCall and *)
(* checkPackageDataSizeForRemoteCallReturn: the data after the first byte  *)
(* may be longer.  (A bug's form: the first byte is not counted.)          *)
FitsWithFirstByte(side, size) == Len(Head(queue[side]).data) + 1 >= size
Fits(side, size) == Len(Head(queue[side]).data) >= size

-----------------------------------------------------------------------------
(* The value node. *)
Writes(side) ==
  /\ Uses("node") /\ MayWrite(side)
  /\ \E v \in SomeValues(Type) :
       /\ value' = [value EXCEPT ![side] = Stored(Type, v)]
       /\ origin' = [origin EXCEPT ![side] = v]
  /\ unsent' = [unsent EXCEPT ![side] = TRUE]
  /\ UNCHANGED <<version, receivedValueUpdate, seen, calleeVars, callerVars, queue>>

(* The value in a frame is the node's at the time. *)
SendsOwnValue(side, type) ==
  /\ Send(Other(side), Frame(type, WriteToData(Type, value[side]), origin[side]))
  /\ unsent' = [unsent EXCEPT ![side] = FALSE]
  /\ UNCHANGED <<version, value, receivedValueUpdate, origin, seen, calleeVars, callerVars>>

sendValue(side) ==
  /\ Uses("node")
  /\ MayWrite(side) \/ BeyondRights
  /\ SendsOwnValue(side, "WRITE_NODE_VALUE_REQEUST")

(* Only the master's communication class has what a node needs for this. *)
sendReadValueReq ==
  /\ Uses("node")
  /\ MayRead("master") \/ BeyondRights
  /\ Send("client", Frame("READ_NODE_VALUE_REQEUST", << >>, 0))
  /\ UNCHANGED <<version, nodeVars, calleeVars, callerVars>>

ClientAnswers ==
  /\ IsNext("client", "READ_NODE_VALUE_REQEUST")
  /\ Len(queue["master"]) < MaxInFlight
  /\ queue' = [client |-> Tail(queue["client"]),
               master |-> Append(queue["master"],
                            Frame("READ_NODE_VALUE_RESPONSE",
                                  WriteToData(Type, value["client"]), origin["client"]))]
  /\ unsent' = [unsent EXCEPT !["client"] = FALSE]
  /\ UNCHANGED <<version, value, receivedValueUpdate, origin, seen, calleeVars, callerVars>>

(* readFromData triggers the event.  (A bug's form: only when the frame    *)
(* answers a read.)                                                        *)
FlagAfterAnswer(side) ==
  receivedValueUpdate[side] \/ IsNext(side, "READ_NODE_VALUE_RESPONSE")
FlagAfterRead(side) == TRUE

(* A request to write and an answer to a read are handled alike. *)
GetsValue(side) ==
  /\ IsNext(side, "WRITE_NODE_VALUE_REQEUST") \/ IsNext(side, "READ_NODE_VALUE_RESPONSE")
  /\ Receive(side)
  /\ IF Fits(side, Width(Type))
     THEN /\ \E stale \in Stale :
               value' = [value EXCEPT ![side] = ReadFromData(Type, Buffer(side, stale))]
          /\ origin' = [origin EXCEPT ![side] = Head(queue[side]).of]
          /\ receivedValueUpdate' = [receivedValueUpdate EXCEPT ![side] = FlagAfterRead(side)]
     ELSE UNCHANGED <<value, origin, receivedValueUpdate>>
  /\ UNCHANGED <<version, unsent, seen, calleeVars, callerVars>>

(* An application that reads a node when it was updated. *)
TakesUpdate(side) ==
  /\ receivedValueUpdate[side] /\ MayRead(side)
  /\ receivedValueUpdate' = [receivedValueUpdate EXCEPT ![side] = FALSE]
  /\ seen' = [seen EXCEPT ![side] = value[side]]
  /\ UNCHANGED <<version, value, origin, unsent, calleeVars, callerVars, queue>>

-----------------------------------------------------------------------------
(* The remote call. *)
sendCall ==
  /\ Uses("call")
  /\ \E values \in SomeStructs(Args("master")) :
       Send("client", Frame("REMOTE_CALL_REQUEST",
                            WriteStruct(Args("master"), values), values))
  /\ UNCHANGED <<version, nodeVars, calleeVars, callerVars>>

ClientGetsCall ==
  /\ IsNext("client", "REMOTE_CALL_REQUEST")
  /\ Receive("client")
  /\ IF Fits("client", getRequiredDataSizeBytes(Args("client")))
     THEN /\ \E stale \in Stale :
               argumentsData' = ReadStruct(Args("client"), Buffer("client", stale))
          /\ remoteCallCalled' = TRUE
          /\ calledWith' = Head(queue["client"]).of
     ELSE UNCHANGED calleeVars
  /\ UNCHANGED <<version, nodeVars, callerVars>>

(* handleCallCalled: the handler returns values or an error of its enum. *)
Returned(frame) ==
  /\ remoteCallCalled
  /\ remoteCallCalled' = FALSE
  /\ Send("master", frame)
  /\ UNCHANGED <<version, nodeVars, argumentsData, calledWith, callerVars>>

sendReturnOk ==
  \E values \in SomeStructs(Returns("client")) :
    Returned(Frame("REMOTE_CALL_RETURN ok",
                   WriteStruct(Returns("client"), values), values))

(* genRemoteCallsDef: a call without an error type gets an empty enum. *)
ReturnsErrors == version.error # "VOID_ENUM"

sendReturnError ==
  /\ ReturnsErrors
  /\ \E code \in EnumValues :
       Returned(Frame("REMOTE_CALL_RETURN error", <<code % ByteSize>>, code))

(* *__returnError is the first byte of the enum. *)
FirstByteSet(old, byte) == (old - (old % ByteSize)) + byte

MasterGetsReturn ==
  /\ IsNext("master", "REMOTE_CALL_RETURN ok")
  /\ Receive("master")
  /\ IF Fits("master", getRequiredDataSizeBytes(Returns("master")))
     THEN /\ \E stale \in Stale :
               callReturnData' = [callReturnData EXCEPT
                 !.isError = FALSE,
                 !.returnData = ReadStruct(Returns("master"), Buffer("master", stale))]
          /\ remoteCallReturned' = TRUE
          /\ returnedWith' = Head(queue["master"]).of
     ELSE UNCHANGED callerVars
  /\ UNCHANGED <<version, nodeVars, calleeVars>>

MasterGetsError ==
  /\ IsNext("master", "REMOTE_CALL_RETURN error")
  /\ Receive("master")
  /\ IF Fits("master", 1)
     THEN /\ \E stale \in Stale :
               callReturnData' = [callReturnData EXCEPT
                 !.isError = TRUE, !.returnError = FirstByteSet(@, Buffer("master", stale)[1])]
          /\ remoteCallReturned' = TRUE
          /\ returnedWith' = <<Head(queue["master"]).of>>
     ELSE UNCHANGED callerVars
  /\ UNCHANGED <<version, nodeVars, calleeVars>>

MasterTakesReturn ==
  /\ remoteCallReturned
  /\ remoteCallReturned' = FALSE
  /\ UNCHANGED <<version, nodeVars, calleeVars, callReturnData, returnedWith, queue>>

Next ==
  \/ \E side \in Side :
       Writes(side) \/ sendValue(side) \/ GetsValue(side) \/ TakesUpdate(side)
  \/ sendReadValueReq \/ ClientAnswers
  \/ sendCall \/ ClientGetsCall \/ sendReturnOk \/ sendReturnError
  \/ MasterGetsReturn \/ MasterGetsError \/ MasterTakesReturn

Spec == Init /\ [][Next]_vars

-----------------------------------------------------------------------------
(* A node's value is what an application wrote, on this side or the other, *)
(* sign and all: nothing of it is lost in the bytes of a frame, and no     *)
(* byte of an earlier frame gets into it.                                  *)
ValueArrives == \A side \in Side : value[side] = origin[side]

NoValueOnItsWay(side) ==
  \A i \in DOMAIN queue[side] :
    queue[side][i].type \notin {"WRITE_NODE_VALUE_REQEUST", "READ_NODE_VALUE_RESPONSE"}

(* When the side that may write a node sent what it last wrote and nothing *)
(* is on its way, the side that may read it has the same value, and its    *)
(* application, which reads only when receivedValueUpdate says so, read    *)
(* it or will.                                                             *)
UpdatesSeen ==
  \A side \in Side :
    (Access(side) = "Readable" /\ ~ unsent[Other(side)] /\ NoValueOnItsWay(side))
      => /\ value[side] = value[Other(side)]
         /\ receivedValueUpdate[side] \/ seen[side] = value[side]

(* A node that one side alone may write changes there only when its        *)
(* application writes it: the code generated for the other side never      *)
(* sends it a value, and there is no read whose answer could.              *)
WriterKeepsValue ==
  [][\A side \in Side :
       (version.access = (IF side = "master" THEN "w" ELSE "r")
          /\ value'[side] # value[side]) => (unsent'[side] /\ queue' = queue)]_vars

(* A handler finds the arguments its caller gave, all it has members for:  *)
(* a call from a program whose struct is shorter is not taken, the further *)
(* arguments of one whose struct is longer are left aside.                 *)
ArgumentsArrive ==
  remoteCallCalled =>
    \A i \in DOMAIN argumentsData :
      i \in DOMAIN calledWith /\ argumentsData[i] = calledWith[i]

(* The caller finds the results or the error code that the callee's        *)
(* handler returned.                                                       *)
ReturnArrives ==
  remoteCallReturned =>
    IF callReturnData.isError THEN callReturnData.returnError = returnedWith[1]
    ELSE \A i \in DOMAIN callReturnData.returnData :
           /\ i \in DOMAIN returnedWith
           /\ callReturnData.returnData[i] = returnedWith[i]
=============================================================================
