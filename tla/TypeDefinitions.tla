-------------------------- MODULE TypeDefinitions --------------------------
(***************************************************************************)
(* How the definitions of structured data types get from the server into   *)
(* the trees the serializer works with.  Two readers walk a definition the *)
(* same way, one network read per structure: ClientNodeMgr for the objects *)
(* of a client, which keeps every structure it has read in _db, and the    *)
(* I/O thread, which keeps one tree, SymbolDef, of the cyclic variable.    *)
(* They share nothing, so a behaviour follows one of them, named reader.   *)
(*                                                                         *)
(* The recursion of readStructureDefinition is a stack of frames.  The     *)
(* definitions belong to the program of the PLC, which changes only while  *)
(* no connection exists (a download restarts the server).                  *)
(***************************************************************************)
EXTENDS Integers, Sequences

CONSTANTS
  TypeIds,     \* node ids of structured data types
  FieldNames,  \* names of fields
  Programs,    \* programs the PLC may run
  Definition,  \* Definition[p][t]: the DataTypeDefinition attribute of t under p
  Expansion,   \* Expansion[p][t]: the tree of t with all nested definitions filled in
  VarType,     \* VarType[p]: data type of the cyclic variable under p
  NoType       \* no entry in _types, or a SymbolDef never assigned

VARIABLES
  prog,      \* the program the server runs
  conn,      \* is the reader connected?
  reader,    \* "manager" or "cyclic"
  types,     \* ClientNodeMgr._db._types
  symDef,    \* SymbolDef of the cyclic node
  running,   \* is the I/O thread exchanging (case 30)?
  stack,     \* frames of readStructureDefinition, the innermost last
  call,      \* the type asked for and what the outermost call returned
  source,    \* history: program when the call began
  origin     \* history: program an entry of types, or symDef, was read under

typeVars == <<prog, conn, reader, types, symDef, running, stack, call, source, origin>>

-----------------------------------------------------------------------------
(* Definitions and trees                                                   *)

(* The numeric ids of namespace 0, and Siemens' in namespace 3, a field may have. *)
PrimType ==
  [Boolean |-> "Bool8", SByte |-> "SInt8", Byte |-> "UInt8", Int16 |-> "SInt16",
   UInt16 |-> "UInt16", Int32 |-> "SInt32", UInt32 |-> "UInt32", Int64 |-> "SInt64",
   UInt64 |-> "UInt64", Float |-> "Float", Double |-> "Double", String |-> "StringL4",
   DateTime |-> "DateTime", Guid |-> "Guid", ByteString |-> "ByteString",
   BYTE |-> "UInt8", WORD |-> "UInt16", DWORD |-> "UInt32", LWORD |-> "UInt64",
   STRING |-> "StringL4"]

DataSize ==
  [Undefined |-> 0, StringL4 |-> 0, ByteString |-> 0, DateTime |-> 0,
   Bool8 |-> 1, UInt8 |-> 1, SInt8 |-> 1, UInt16 |-> 2, SInt16 |-> 2,
   UInt32 |-> 4, SInt32 |-> 4, Float |-> 4, UInt64 |-> 8, SInt64 |-> 8, Double |-> 8,
   Guid |-> 16]

(* The TypeInfo of a field before its type is known: its name and the array flag. *)
FieldInfo(f) ==
  [name |-> f.name, isArray |-> f.rank > 0, dims |-> IF f.rank > 0 THEN f.dims ELSE <<>>,
   isStruct |-> FALSE, type |-> "Undefined", size |-> 0, offset |-> 0]

PrimInfo(f) ==
  LET t == IF f.type \in DOMAIN PrimType THEN PrimType[f.type] ELSE "Undefined"
  IN [FieldInfo(f) EXCEPT !.type = t, !.size = DataSize[t]]

(* The TypeInfo of a structure replaces that of the field it is the type of, array
   flag included; of a union nothing is filled in. *)
StructInfo(d, name) ==
  [name |-> name, isArray |-> FALSE, dims |-> <<>>, isStruct |-> d.kind # "union",
   type |-> CASE d.kind = "structure" -> "StructFixed"
              [] d.kind = "optional"  -> "StructOptFld"
              [] OTHER                -> "Undefined",
   size |-> 0, offset |-> IF d.kind = "optional" THEN 4 ELSE 0]

Node(info, children) == [item |-> info, children |-> children]
IsValid(node) == node # NoType /\ node.item.type # "Undefined"

(* A tree under another name: the same type met in two places. *)
Called(node, name) == [node EXCEPT !.item.name = name]

Fields(p, t) == Definition[p][t].fields

ChildTree(p, f) ==
  IF f.type \in TypeIds THEN Called(Expansion[p][f.type], f.name)
                        ELSE Node(PrimInfo(f), <<>>)

FieldSet == [name : FieldNames, type : STRING, rank : Int, dims : Seq(Nat), optional : BOOLEAN]

(* Definitions are acyclic: Expansion exists. *)
ASSUME DefinitionsAssumption ==
  /\ TypeIds \subseteq STRING /\ TypeIds \cap DOMAIN PrimType = {}
  /\ FieldNames \subseteq STRING /\ FieldNames \cap TypeIds = {}
  /\ \A p \in Programs, t \in TypeIds :
       /\ Fields(p, t) \in Seq(FieldSet)
       /\ \A i, j \in DOMAIN Fields(p, t) : Fields(p, t)[i].name = Fields(p, t)[j].name => i = j
       /\ Expansion[p][t] # NoType
       /\ Expansion[p][t] =
            Node(StructInfo(Definition[p][t], t),
                 [i \in DOMAIN Fields(p, t) |-> ChildTree(p, Fields(p, t)[i])])
  /\ VarType \in [Programs -> TypeIds]

-----------------------------------------------------------------------------
(* The type cache and the frames of the recursion                          *)

HasTypeByName(name) == name \in TypeIds /\ types[name] # NoType

NoOrigin == "never"

(* A frame waits for its definition while next = 0, and then stands before field next. *)
Frame(t, name, info) ==
  [type |-> t, name |-> name, node |-> Node(info, <<>>), next |-> 0]

Top == stack[Len(stack)]
Below == SubSeq(stack, 1, Len(stack) - 1)
Reading == stack # <<>>
Field == Fields(source, Top.type)[Top.next]

(* Continue the top frame with its node replaced. *)
Proceed(node) ==
  stack' = Append(Below, [Top EXCEPT !.node = node, !.next = @ + 1])

(* The frame takes a complete child and goes on to its next field. *)
TakeChild(f, child) == [f EXCEPT !.node.children = Append(@, child), !.next = @ + 1]

(* Return GOOD with node: the caller's child is complete and its loop goes on. *)
Return(node) ==
  IF Below = <<>> THEN stack' = <<>> /\ call' = [call EXCEPT !.ret = "good"]
  ELSE /\ stack' = [Below EXCEPT ![Len(Below)] = TakeChild(@, node)]
       /\ UNCHANGED call

(* Mutant: the caller goes on with what it got. *)
ReturnErrorIgnored == Return(Top.node)

(* An error is handed up through all levels, and everything read is dropped. *)
ReturnError ==
  /\ stack' = <<>>
  /\ call' = [call EXCEPT !.ret = "bad"]

-----------------------------------------------------------------------------
Idle == call.ret # "busy"

PlcDownload(p) ==
  /\ ~conn
  /\ prog' = p
  /\ UNCHANGED <<conn, reader, types, symDef, running, stack, call, source, origin>>

(* A client connects between two calls; the I/O thread when it has left case 30. *)
Connect ==
  /\ ~conn /\ Idle /\ ~running
  /\ conn' = TRUE
  /\ call' = [call EXCEPT !.ret = "none"]
  /\ UNCHANGED <<prog, reader, types, symDef, running, stack, source, origin>>

LoseConnection ==
  /\ conn
  /\ conn' = FALSE
  /\ UNCHANGED <<prog, reader, types, symDef, running, stack, call, source, origin>>

(* Mutant: the result of the call before is not reset. *)
BeginReadQuiet(t) ==
  /\ stack' = <<Frame(t, t, FieldInfo([name |-> t, rank |-> 0, dims |-> <<>>]))>>
  /\ call' = [type |-> t, ret |-> "none"]
  /\ source' = prog

BeginRead(t) ==
  /\ stack' = <<Frame(t, t, FieldInfo([name |-> t, rank |-> 0, dims |-> <<>>]))>>
  /\ call' = [type |-> t, ret |-> "busy"]
  /\ source' = prog

(* UA_Node::resolveExtensionObjectType on a variable of type t; reading the data type
   attribute may fail. *)
Resolve(t) ==
  /\ reader = "manager" /\ Idle
  /\ \/ conn /\ BeginRead(t)
     \/ call' = [type |-> t, ret |-> "bad"] /\ UNCHANGED <<stack, source>>
  /\ UNCHANGED <<prog, conn, reader, types, symDef, running, origin>>

(* Mutant: a definition is read only once. *)
InitCyclicOnce ==
  /\ reader = "cyclic" /\ conn /\ ~running /\ call.ret = "none"
  /\ IF symDef = NoType THEN BeginRead(VarType[prog])
     ELSE call' = [call EXCEPT !.ret = "good"] /\ UNCHANGED <<stack, source>>
  /\ UNCHANGED <<prog, conn, reader, types, symDef, running, origin>>

(* initCyclicInfo, once it has read the data type and the value of the variable. *)
InitCyclic ==
  /\ reader = "cyclic" /\ conn /\ ~running /\ call.ret = "none"
  /\ BeginRead(VarType[prog])
  /\ UNCHANGED <<prog, conn, reader, types, symDef, running, origin>>

(* Whether the definition was read or not, the thread goes on to case 30. *)
EnterCyclic ==
  /\ reader = "cyclic" /\ conn /\ ~running /\ call.ret \in {"good", "bad"}
  /\ running' = TRUE
  /\ UNCHANGED <<prog, conn, reader, types, symDef, stack, call, source, origin>>

LeaveCyclic ==
  /\ running /\ ~conn
  /\ running' = FALSE
  /\ UNCHANGED <<prog, conn, reader, types, symDef, stack, call, source, origin>>

(* The manager looks the type up by name before it reads anything. *)
FindKnown ==
  /\ Reading /\ Top.next = 0
  /\ reader = "manager" /\ HasTypeByName(Top.name)
  /\ Return(Top.node)
  /\ UNCHANGED <<prog, conn, reader, types, symDef, running, source, origin>>

(* Mutant: a definition that could not be read is asked for again. *)
ReadDefinitionRetries ==
  /\ Reading /\ Top.next = 0
  /\ ~(reader = "manager" /\ HasTypeByName(Top.name))
  /\ conn /\ Proceed(Node(StructInfo(Definition[prog][Top.type], Top.name), <<>>))
  /\ UNCHANGED <<prog, conn, reader, types, symDef, running, call, source, origin>>

ReadDefinition ==
  /\ Reading /\ Top.next = 0
  /\ ~(reader = "manager" /\ HasTypeByName(Top.name))
  /\ \/ conn /\ Proceed(Node(StructInfo(Definition[prog][Top.type], Top.name), <<>>))
             /\ UNCHANGED call
     \/ ReturnError
  /\ UNCHANGED <<prog, conn, reader, types, symDef, running, source, origin>>

AtField == Reading /\ Top.next \in DOMAIN Fields(source, Top.type)

AddChild ==
  /\ AtField /\ Field.type \in DOMAIN PrimType
  /\ Proceed([Top.node EXCEPT !.children = Append(@, Node(PrimInfo(Field), <<>>))])
  /\ UNCHANGED <<prog, conn, reader, types, symDef, running, call, source, origin>>

(* Mutant: the nested structure goes by the name of its type, under which it may be
   found. *)
RecurseByType ==
  /\ AtField /\ Field.type \in TypeIds
  /\ stack' = Append(stack, Frame(Field.type, Field.type, FieldInfo(Field)))
  /\ UNCHANGED <<prog, conn, reader, types, symDef, running, call, source, origin>>

(* A string id names a structure: recurse into it under the name of the field. *)
Recurse ==
  /\ AtField /\ Field.type \in TypeIds
  /\ stack' = Append(stack, Frame(Field.type, Field.name, FieldInfo(Field)))
  /\ UNCHANGED <<prog, conn, reader, types, symDef, running, call, source, origin>>

RejectField ==
  /\ AtField /\ Field.type \notin TypeIds \cup DOMAIN PrimType
  /\ ReturnError
  /\ UNCHANGED <<prog, conn, reader, types, symDef, running, source, origin>>

AtEnd == Reading /\ Top.next = Len(Fields(source, Top.type)) + 1

(* The manager adds every structure it completes, nested ones too, under its type id. *)
Add ==
  /\ AtEnd /\ reader = "manager"
  /\ types' = [types EXCEPT ![Top.type] = Top.node]
  /\ origin' = [origin EXCEPT ![Top.type] = source]
  /\ Return(Top.node)
  /\ UNCHANGED <<prog, conn, reader, symDef, running, source>>

(* Mutant: every structure that is complete is kept, nested ones too. *)
AssignSymbolDefNested ==
  /\ AtEnd /\ reader = "cyclic"
  /\ symDef' = Top.node
  /\ origin' = [t \in TypeIds |-> IF t = Top.type THEN source ELSE NoOrigin]
  /\ Return(Top.node)
  /\ UNCHANGED <<prog, conn, reader, types, running, source>>

(* The I/O thread keeps the outermost structure, and that only when all went well. *)
AssignSymbolDef ==
  /\ AtEnd /\ reader = "cyclic"
  /\ symDef' = IF Below = <<>> THEN Top.node ELSE symDef
  /\ origin' = IF Below = <<>> THEN [t \in TypeIds |-> IF t = Top.type THEN source ELSE NoOrigin]
               ELSE origin
  /\ Return(Top.node)
  /\ UNCHANGED <<prog, conn, reader, types, running, source>>

ReadStep ==
  \/ FindKnown \/ ReadDefinition \/ AddChild \/ Recurse \/ RejectField
  \/ Add \/ AssignSymbolDef

TypesInit ==
  /\ prog \in Programs /\ source = prog
  /\ reader \in {"manager", "cyclic"}
  /\ conn = FALSE /\ running = FALSE /\ symDef = NoType
  /\ types = [t \in TypeIds |-> NoType]
  /\ origin = [t \in TypeIds |-> NoOrigin]
  /\ stack = <<>>
  /\ call \in [type : TypeIds, ret : {"none"}]

TypesNext ==
  \/ \E p \in Programs : PlcDownload(p)
  \/ \E t \in TypeIds : Resolve(t)
  \/ Connect \/ LoseConnection
  \/ InitCyclic \/ EnterCyclic \/ LeaveCyclic
  \/ ReadStep

TypesSpec == TypesInit /\ [][TypesNext]_typeVars

-----------------------------------------------------------------------------
(* Properties                                                              *)

(* A type in the cache is complete: it is the tree of one program's definitions,
   those in force when it was read, never a partly read structure, never nested types of
   two programs mixed, whatever failed or was reconnected in between
   (ClientNodeMgr::readStructureDefinition adds a type only when all its fields are). *)
CachedTypesAreWhole ==
  \A t \in TypeIds : types[t] # NoType =>
    /\ origin[t] \in Programs
    /\ types[t] = Called(Expansion[origin[t]][t], types[t].item.name)

(* The same for SymbolDef, which a failed read leaves as it was. *)
SymbolDefIsWhole ==
  symDef # NoType =>
    \E t \in TypeIds : /\ origin[t] \in Programs
                       /\ symDef = Expansion[origin[t]][t]

(* A resolve that returned GOOD leaves a type the cache answers for, so that the name
   handed to Lua can be used to decode. *)
ResolvedIsKnown ==
  reader = "manager" /\ call.ret = "good" => HasTypeByName(call.type)

(* While the I/O thread exchanges after a definition was read, SymbolDef is the one
   of the variable it exchanges, as long as this connection lasts. *)
SymbolDefIsCurrent ==
  reader = "cyclic" /\ running /\ conn /\ call.ret = "good" =>
    symDef = Expansion[prog][VarType[prog]]

(* Every call returns: the recursion ends, at an error or at the last field. *)
CallsReturn == Reading ~> ~Reading
=============================================================================
