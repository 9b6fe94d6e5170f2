--------------------------- MODULE DataConversion ---------------------------
(***************************************************************************)
(* What values are in a frame: the data types of the spec file, the bytes  *)
(* they are written to and read from (DataConversion.h,                    *)
(* OTNodeValueNodeAbstractImpl.h), and the structs that the code generator *)
(* writes for the arguments and results of remote calls (GenCode.h,        *)
(* GenCodeTemplate.h).                                                     *)
(*                                                                         *)
(* A type is its name in the spec file; every name but those below is an   *)
(* enum's.  A float is its bit pattern.  The processors are little-endian  *)
(* (the code has a @todo for others), so a byte's weight grows with its    *)
(* position.                                                               *)
(***************************************************************************)
EXTENDS Integers, Sequences, SequencesExt

CONSTANT ByteSize   \* values of a byte: 256 in the code

ASSUME ByteSizeAssumption == ByteSize \in Nat /\ ByteSize >= 2 /\ ByteSize % 2 = 0

-----------------------------------------------------------------------------
(* Types. *)
getRequiredDataSizeInBytes ==
  [uint8 |-> 1, int8 |-> 1, uint16 |-> 2, int16 |-> 2, int32 |-> 4, float32 |-> 4]

CppType == DOMAIN getRequiredDataSizeInBytes
SignedType == {"int8", "int16", "int32"}

(* A name is a C++ type or a defined enum; the generator knows no others. *)
KnownType(type, enums) == type \in CppType \cup enums

(* An enum takes the byte it is cut to.  (A bug's form: it takes what the  *)
(* enum class takes in C++.)                                               *)
WidthOfEnumClass(type) ==
  IF type \in CppType THEN getRequiredDataSizeInBytes[type] ELSE 4
Width(type) ==
  IF type \in CppType THEN getRequiredDataSizeInBytes[type] ELSE 1

(* What a 1 in each byte stands for; behind the last byte of a type, how   *)
(* many words it has.                                                      *)
Weight == <<1, ByteSize, ByteSize * ByteSize, ByteSize * ByteSize * ByteSize,
            ByteSize * ByteSize * ByteSize * ByteSize>>
Words(type) == Weight[Width(type) + 1]
Lowest(type) == IF type \in SignedType THEN -(Words(type) \div 2) ELSE 0
Highest(type) == Lowest(type) + Words(type) - 1

-----------------------------------------------------------------------------
(* Bytes.  Writing cuts an enum's value to a byte.                         *)
WriteToData(type, value) ==
  [i \in 1 .. Width(type) |->
     ((value % Words(type)) \div Weight[i]) % ByteSize]

Word(type, data) ==
  LET part(i) == IF i <= Width(type) THEN data[i] * Weight[i] ELSE 0
  IN  part(1) + part(2) + part(3) + part(4)

(* (A bug's form: the bytes of a signed type read as an unsigned one.) *)
ReadUnsigned(type, data) == Word(type, data)
ReadFromData(type, data) ==
  IF Word(type, data) > Highest(type) THEN Word(type, data) - Words(type)
  ELSE Word(type, data)

-----------------------------------------------------------------------------
(* The generated structs: members are chained, each at the sum of the      *)
(* sizes before it.  (A bug's form: at the size of the member before it.)  *)
OffsetOfPrevious(types) ==
  [i \in 1 .. Len(types) + 1 |-> IF i = 1 THEN 0 ELSE Width(types[i - 1])]
Offset(types) ==
  LET offset[i \in 1 .. Len(types) + 1] ==
        IF i = 1 THEN 0 ELSE offset[i - 1] + Width(types[i - 1])
  IN  offset

getRequiredDataSizeBytes(types) == Offset(types)[Len(types) + 1]

WriteStruct(types, values) ==
  FlattenSeq([i \in DOMAIN types |-> WriteToData(types[i], values[i])])

ReadStruct(types, data) ==
  [i \in DOMAIN types |->
     ReadFromData(types[i], SubSeq(data, Offset(types)[i] + 1,
                                   Offset(types)[i] + Width(types[i])))]

-----------------------------------------------------------------------------
(* The access right of a value node is given from the master's side.       *)
(* (A bug's form: it is taken for the side the code is generated for.)     *)
AccessOfEitherSide(access, side) ==
  CASE access = "r"  -> "Readable"
    [] access = "w"  -> "Writable"
    [] access = "rw" -> "ReadWriteable"
AccessOfSide(access, side) ==
  CASE access = "rw" -> "ReadWriteable"
    [] access = "r"  -> IF side = "master" THEN "Readable" ELSE "Writable"
    [] access = "w"  -> IF side = "master" THEN "Writable" ELSE "Readable"
=============================================================================
