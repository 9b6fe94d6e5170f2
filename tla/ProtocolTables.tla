--------------------------- MODULE ProtocolTables ---------------------------
(***************************************************************************)
(* The numbers that stand for value nodes and remote calls in a frame: how *)
(* the code generator gives them out (cliTool/src/GenDefFile.h), the       *)
(* tables it generates from them (GenCode.h, ProtocolDef.h), and how a     *)
(* device looks a number of a frame up (SOTClient.h, SOTMaster.h).         *)
(*                                                                         *)
(* A name is the path of a value node or the name of a remote call.        *)
(***************************************************************************)
EXTENDS Naturals, Sequences, FiniteSets

CONSTANTS
  ByteSize,     \* values of a byte: 256 in the code
  NotFound,     \* a look-up that returns an error
  BehindTable   \* a look-up that reads what is not an entry of the table

ASSUME ByteAssumption ==
  ByteSize \in Nat /\ ByteSize >= 4 /\ ByteSize % 2 = 0

ASSUME OutcomeAssumption == NotFound # BehindTable

-----------------------------------------------------------------------------
(* The def file.  Numbers are given in the order of the visit, from 0.     *)
Numbered(names) == [i \in 0 .. Len(names) - 1 |-> names[i + 1]]

(* A def file is written for fewer nodes than 255 and fewer calls than     *)
(* 127, whose number shares its byte with a bit.                           *)
NodeLimit == ByteSize - 1
CallLimit == ByteSize \div 2 - 1

-----------------------------------------------------------------------------
(* The generated code.  Reading the def file turns the numbering into a    *)
(* map from names; of two numbers of a name the map keeps the last.        *)
IdsByName(numbered) ==
  [name \in {numbered[i] : i \in DOMAIN numbered} |->
     CHOOSE i \in DOMAIN numbered :
       /\ numbered[i] = name
       /\ \A j \in DOMAIN numbered : numbered[j] = name => j <= i]

NamesWithId(byName, id) == {name \in DOMAIN byName : byName[name] = id}

(* The entries of a table in the order of their numbers.  A number that no *)
(* name has any more is looked for in vain, and the search's end is used.  *)
EntryWithId(byName, id) ==
  IF NamesWithId(byName, id) = {} THEN BehindTable
  ELSE CHOOSE name \in DOMAIN byName : byName[name] = id

(* (A bug's form: the entries in the order of the map.) *)
TableInMapOrder(byName) ==
  LET entries == CHOOSE s \in [1 .. Cardinality(DOMAIN byName) -> DOMAIN byName] :
                   \A name \in DOMAIN byName : \E i \in DOMAIN s : s[i] = name
  IN  Numbered(entries)
Table(byName) ==
  [id \in 0 .. Cardinality(DOMAIN byName) - 1 |-> EntryWithId(byName, id)]

(* otTableSize and the sizes of the call tables are bytes. *)
TableSize(table) == Cardinality(DOMAIN table) % ByteSize

-----------------------------------------------------------------------------
(* getValueNodeById, getRemoteCallCallableById, getRemoteCallCallerById.   *)
(* The number equal to the table's size is not refused.                    *)
LookUp(table, id) ==
  IF id > TableSize(table) THEN NotFound
  ELSE IF id \in DOMAIN table THEN table[id]
  ELSE BehindTable

(* The first byte of a remote call's frame: the call's number above the    *)
(* bit that says whether the call returned well.                           *)
remoteCallPackIdAndReturn(id, returnOk) ==
  ((id * 2) % ByteSize) + (IF returnOk THEN 1 ELSE 0)
getRemoteCallIdFromPackage(byte) == byte \div 2
getRemoteCallReturnOkFromPackage(byte) == byte % 2 = 1
=============================================================================
