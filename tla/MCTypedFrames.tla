---------------------------- MODULE MCTypedFrames ----------------------------
(* Spec files with every type and access right, enums among other members, *)
(* and programs of different versions: the master's struct has a member    *)
(* more than the client's, one less, or the same.                          *)
EXTENDS TypedFrames

Pair(uses, type, access, args, returns) ==
  [uses |-> uses, type |-> type, access |-> access, args |-> args,
   returns |-> returns, enums |-> {"DIRECTION", "ERROR"}, error |-> "ERROR"]

Same(types) == [master |-> types, client |-> types]
MasterNewer(types) == [master |-> types, client |-> Front(types)]
ClientNewer(types) == [master |-> Front(types), client |-> types]
NoData == Same(<< >>)

NodePair(type, access) == Pair({"node"}, type, access, NoData, NoData)
NodePairs ==
  {NodePair("int16", "rw"), NodePair("DIRECTION", "w"), NodePair("int32", "r"),
   NodePair("float32", "w"), NodePair("int64", "r")}

CallPair(args, returns) == Pair({"call"}, "uint8", "r", args, returns)
CallPairs ==
  {CallPair(Same(<<"DIRECTION", "int16", "int8">>), NoData),
   CallPair(MasterNewer(<<"int8", "uint16">>), NoData),
   CallPair(NoData, Same(<<"ERROR", "int32">>)),
   CallPair(NoData, MasterNewer(<<"int16", "uint8">>)),
   CallPair(ClientNewer(<<"float32", "DIRECTION">>), NoData),
   CallPair(NoData, ClientNewer(<<"uint8", "float32">>))}

MCVersions == NodePairs \cup CallPairs
=============================================================================
