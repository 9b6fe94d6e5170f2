---------------------------- MODULE CodeGenerator ----------------------------
(***************************************************************************)
(* The command line tool: the author edits a spec file, generates a def    *)
(* file from it (GenDefFile.h), and generates the code of the master and   *)
(* of the clients from the def file (GenCode.h), each when he likes, so    *)
(* that the two programs may come from different versions.                 *)
(*                                                                         *)
(* An object tree is a sequence of entries; an entry is a value node, a    *)
(* name, or a group, a name with entries of its own.  A path is a sequence *)
(* of names.  Types, access rights and defaults are left out.              *)
(***************************************************************************)
EXTENDS ProtocolTables, SequencesExt

CONSTANTS
  Name,        \* the author's names of value nodes and groups
  CallName,    \* names of remote calls
  MaxDepth,    \* bound: groups within groups
  FirstTree,   \* the object tree of the first spec file
  Nothing,     \* a file that has not been generated
  MaxEdits     \* bound: edits of the spec file

ASSUME EditAssumption == MaxEdits \in Nat

VARIABLES
  spec,      \* the spec file: object tree and remote calls
  defFile,   \* the def file
  program,   \* the code of each side, as compiled
  edits      \* edits so far

toolVars == <<spec, defFile, program, edits>>

Side == {"master", "client"}
Direction == {"master_to_client", "client_to_master"}

-----------------------------------------------------------------------------
(* YamlObjectTreeVisitor.  Object trees by the depth of their groups. *)
ValueNode(name) == [name |-> name]
Group(name, entries) == [name |-> name, entries |-> entries]
IsGroup(entry) == "entries" \in DOMAIN entry

AnyName == Name \cup {"cliTool", "version"}
Trees[depth \in 0 .. MaxDepth] ==
  Seq([name : AnyName] \cup
        IF depth = 0 THEN {} ELSE [name : AnyName, entries : Trees[depth - 1]])

ASSUME TreeAssumption == MaxDepth \in Nat \ {0} /\ FirstTree \in Trees[MaxDepth]

(* The paths of the value nodes, in the order of the file; the path of a   *)
(* node in a group begins with the group's name.                           *)
Below(name, paths) == [i \in DOMAIN paths |-> <<name>> \o paths[i]]
VisitedEach(visitedGroup, entries) ==
  FlattenSeq([i \in DOMAIN entries |->
    IF IsGroup(entries[i]) THEN Below(entries[i].name, visitedGroup[entries[i].entries])
    ELSE <<<<entries[i].name>>>>])
VisitedTo[depth \in 0 .. MaxDepth] ==
  [entries \in Trees[depth] |-> VisitedEach(VisitedTo[depth - 1], entries)]

(* (A bug's form: the tree's value nodes before its groups.) *)
VisitedValuesFirst(tree) ==
  VisitedTo[MaxDepth][SelectSeq(tree, LAMBDA e : ~ IsGroup(e)) \o SelectSeq(tree, IsGroup)]
Visited(tree) == VisitedTo[MaxDepth][tree]

(* Both tools add a group of the tool's own at the end. *)
Predefined == Group("cliTool", <<ValueNode("version")>>)
WithPredefined(tree) == Append(tree, Predefined)
ValueNodePaths(tree) == Visited(WithPredefined(tree))

CallNames(calls) == [i \in DOMAIN calls |-> calls[i].name]

-----------------------------------------------------------------------------
(* The author: an entry is put in anywhere, or a call is added at the end. *)
NewEntry == {ValueNode(n) : n \in Name}
              \cup {Group(g, <<ValueNode(n)>>) : g \in Name, n \in Name}

InsertsEntry ==
  \E i \in 1 .. Len(spec.tree) + 1 : \E entry \in NewEntry :
    spec' = [spec EXCEPT !.tree = InsertAt(@, i, entry)]

InsertsIntoGroup ==
  \E g \in DOMAIN spec.tree :
    /\ IsGroup(spec.tree[g])
    /\ \E i \in 1 .. Len(spec.tree[g].entries) + 1 : \E n \in Name :
         spec' = [spec EXCEPT !.tree[g].entries = InsertAt(@, i, ValueNode(n))]

AddsCall ==
  \E call \in [name : CallName, direction : Direction] :
    spec' = [spec EXCEPT !.calls = Append(@, call)]

EditSpec ==
  /\ edits < MaxEdits
  /\ edits' = edits + 1
  /\ InsertsEntry \/ InsertsIntoGroup \/ AddsCall
  /\ UNCHANGED <<defFile, program>>

-----------------------------------------------------------------------------
(* genDefFile.  A call that is defined twice, too many calls and too many  *)
(* nodes end it before anything is written: an older def file stays.       *)
(* (A bug's form: a call may be defined twice.)                            *)
CallsMayRepeat(calls) == Len(calls) < CallLimit
CallsAccepted(calls) ==
  /\ Len(calls) < CallLimit
  /\ IsInjective(CallNames(calls))

DefFile(tree, calls) ==
  [tree    |-> tree,
   calls   |-> calls,
   nodeIds |-> Numbered(ValueNodePaths(tree)),
   callIds |-> Numbered(CallNames(calls))]

genDefFile ==
  /\ CallsAccepted(spec.calls)
  /\ Len(ValueNodePaths(spec.tree)) < NodeLimit
  /\ defFile' = DefFile(spec.tree, spec.calls)
  /\ UNCHANGED <<spec, program, edits>>

-----------------------------------------------------------------------------
(* genCode. *)

(* remoteCallSortCallerCallable: calls go from the master to the client;   *)
(* a call of the other direction ends the tool.  (A bug's form: it does    *)
(* not.)                                                                   *)
AnyDirection(calls) == TRUE
DirectionsSupported(calls) ==
  \A i \in DOMAIN calls : calls[i].direction = "master_to_client"

CallerNames(side, calls) ==
  {c.name : c \in {k \in ToSet(calls) :
     k.direction = "master_to_client" /\ side = "master"}}
CallableNames(side, calls) ==
  {c.name : c \in {k \in ToSet(calls) :
     k.direction = "master_to_client" /\ side = "client"}}

(* The numbers of the structs of the object tree and of the calls. *)
getIdForValueNode(def) ==
  [path \in ToSet(ValueNodePaths(def.tree)) |-> IdsByName(def.nodeIds)[path]]
getIdForRemoteCalls(def) ==
  [name \in ToSet(CallNames(def.calls)) |-> IdsByName(def.callIds)[name]]

(* rcCallerTable and rcCallableTable hold the calls of one direction; the  *)
(* entries move up where calls of the other are left out.                  *)
CallTable(byName, listed) ==
  Numbered(FlattenSeq([i \in 1 .. Cardinality(DOMAIN byName) |->
    IF EntryWithId(byName, i - 1) \in listed THEN <<EntryWithId(byName, i - 1)>> ELSE << >>]))

(* The header: the structs with their numbers, and the tables. *)
Code(side, def) ==
  LET calls == IdsByName(def.callIds)
  IN  [tree           |-> def.tree,
       calls          |-> def.calls,
       nodeId         |-> getIdForValueNode(def),
       otNodeIDsTable |-> Table(IdsByName(def.nodeIds)),
       callId         |-> getIdForRemoteCalls(def),
       rcCallerTable  |-> CallTable(calls, CallerNames(side, def.calls)),
       rcCallableTable |-> CallTable(calls, CallableNames(side, def.calls))]

(* The C++ compiler refuses a struct that has two members of a name. *)
NamesDistinct(groupDistinct, entries) ==
  /\ IsInjective([i \in DOMAIN entries |-> entries[i].name])
  /\ \A i \in DOMAIN entries : IsGroup(entries[i]) => groupDistinct[entries[i].entries]
DistinctTo[depth \in 0 .. MaxDepth] ==
  [entries \in Trees[depth] |-> NamesDistinct(DistinctTo[depth - 1], entries)]
SiblingsDistinct(tree) == DistinctTo[MaxDepth][tree]

genCode(side) ==
  /\ defFile # Nothing
  /\ DirectionsSupported(defFile.calls)
  /\ SiblingsDistinct(WithPredefined(defFile.tree))
  /\ program' = [program EXCEPT ![side] = Code(side, defFile)]
  /\ UNCHANGED <<spec, defFile, edits>>

-----------------------------------------------------------------------------
ToolInit ==
  /\ spec = [tree |-> FirstTree, calls |-> << >>]
  /\ defFile = Nothing
  /\ program = [side \in Side |-> Nothing]
  /\ edits = 0

ToolNext == EditSpec \/ genDefFile \/ \E side \in Side : genCode(side)

ToolSpec == ToolInit /\ [][ToolNext]_toolVars

-----------------------------------------------------------------------------
Built == {side \in Side : program[side] # Nothing}

(* ProtocolDef.h:35: "the index is the node id belonging to the referenced *)
(* node value": in every program that compiles, each node of the tree is   *)
(* found under the number it puts into its frames, and the table holds     *)
(* nothing else.                                                           *)
TablesComplete ==
  \A side \in Built :
    LET p == program[side]
    IN  /\ \A path \in DOMAIN p.nodeId : LookUp(p.otNodeIDsTable, p.nodeId[path]) = path
        /\ \A id \in DOMAIN p.otNodeIDsTable : p.otNodeIDsTable[id] \in DOMAIN p.nodeId

(* The two programs need not come from one version of the spec file: what  *)
(* is appended at the end of the tree leaves the numbers of the author's   *)
(* nodes before it as they are, so that both sides mean the same node.     *)
AppendKeepsIds ==
  \A old, new \in Built :
    IsPrefix(program[old].tree, program[new].tree) =>
      \A path \in ToSet(Visited(program[old].tree)) :
        program[old].nodeId[path] = program[new].nodeId[path]

(* ProtocolDef.h:46 and 50: "the index is the call id": a call the master  *)
(* packs into a frame is found in the client's table under its number, and *)
(* its return in the master's, as long as calls are only added at the end. *)
CallsFindTheirTable ==
  Built = Side /\ (\/ IsPrefix(program["master"].calls, program["client"].calls)
                   \/ IsPrefix(program["client"].calls, program["master"].calls))
  => \A name \in DOMAIN program["master"].callId \cap DOMAIN program["client"].callId :
       /\ LookUp(program["client"].rcCallableTable,
            getRemoteCallIdFromPackage(
              remoteCallPackIdAndReturn(program["master"].callId[name], FALSE))) = name
       /\ LookUp(program["master"].rcCallerTable,
            getRemoteCallIdFromPackage(
              remoteCallPackIdAndReturn(program["client"].callId[name], TRUE))) = name
=============================================================================
