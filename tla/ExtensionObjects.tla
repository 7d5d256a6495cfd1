-------------------------- MODULE ExtensionObjects --------------------------
(***************************************************************************)
(* Structured values end to end: a body read from the server, decoded with *)
(* the tree of its type into a Lua table, and a table encoded back.  The   *)
(* trees are those of TypeDefinitions, the walks those of Serializer.      *)
(* A client decodes and encodes with the types of its cache; the cyclic    *)
(* I/O object with SymbolDef and the bytes of the process image.           *)
(*                                                                         *)
(* Encoding is what the server sends for a value: the OPC UA binary        *)
(* encoding, from the definition (RefBody) and without a tree.             *)
(*                                                                         *)
(* A value may omit optional fields.  The serializer takes all of them to  *)
(* be there; with which values that is right, Regular tells.               *)
(***************************************************************************)
EXTENDS TypeDefinitions, Serializer, FiniteSets, SequencesExt

CONSTANTS
  Sample,    \* Sample[p][t]: values a variable of type t may have under p
  Tables,    \* Tables[p][t]: tables Lua may encode for one
  Encoding,  \* Encoding[p][t]: the bodies of the tables
  Structured,   \* Structured[p][t]: the tables in which no nested structure is missing
  Regular    \* Regular[op][p][t]: of those, the ones op = "decode" or "encode" is right for

VARIABLE
  last       \* the decode or encode Lua has just made: its input, how it ended, its result

vars == <<typeVars, last>>

-----------------------------------------------------------------------------
(* The encoding the server uses                                            *)

Width == [Boolean |-> 1, SByte |-> 1, Byte |-> 1, BYTE |-> 1, Int16 |-> 2, UInt16 |-> 2,
          WORD |-> 2, Int32 |-> 4, UInt32 |-> 4, DWORD |-> 4, Int64 |-> 8, UInt64 |-> 8,
          LWORD |-> 8, DateTime |-> 8, Guid |-> 16, Duration |-> 8]

RefScalar(type, v) ==
  CASE Is("str", v)     -> Octets(Len(v.str), 4) \o v.str
    [] Is("bool", v)    -> IF v.bool THEN <<1>> ELSE <<0>>
    [] type = "Float"   -> Reals32[v.num]
    [] type = "Double"  -> Reals64[v.num]
    [] OTHER            -> Octets(v.num, Width[type])

Default(f) ==
  IF f.rank > 0 THEN Arr(<<>>)
  ELSE CASE f.type = "Boolean" -> Bool(FALSE)
         [] f.type \in {"String", "ByteString", "STRING"} -> Str(<<>>)
         [] OTHER -> Num(0)

(* What a table says of field f: a default where it says nothing, and of an array no
   more elements than its dimension. *)
Given(v, f) ==
  LET g == IF f.name \in DOMAIN v.tab THEN v.tab[f.name] ELSE Default(f)
  IN IF Is("arr", g) /\ Len(g.arr) > f.dims[1] THEN Arr(SubSeq(g.arr, 1, f.dims[1])) ELSE g

(* A field, and a structure, given the encodings of the structures nested in it. *)
RefField(nested, f, v) ==
  LET One(e) == IF f.type \in TypeIds THEN nested[f.type][e] ELSE RefScalar(f.type, e)
  IN IF f.rank <= 0 THEN One(v)
     ELSE Octets(Len(v.arr), 4) \o FlattenSeq([i \in DOMAIN v.arr |-> One(v.arr[i])])

(* The four octets in which some bits are set, bit 0 the least significant. *)
MaskOf(bits) ==
  [k \in 1..4 |->
     LET Weight(b) == IF 8 * (k - 1) + b \in bits THEN 2^b ELSE 0
     IN Weight(0) + Weight(1) + Weight(2) + Weight(3)
          + Weight(4) + Weight(5) + Weight(6) + Weight(7)]

(* The bit of an optional field: only optional fields have one. *)
BitOf(d, i) == Cardinality({j \in 1..(i - 1) : d.fields[j].optional})

(* Nothing is sent for an optional field, or a structure, that is not there. *)
RefBody(nested, d, v) ==
  LET Absent(f) == f.name \notin DOMAIN v.tab /\ (f.optional \/ f.type \in TypeIds)
      all == [i \in DOMAIN d.fields |->
                IF Absent(d.fields[i]) THEN <<>>
                ELSE RefField(nested, d.fields[i], Given(v, d.fields[i]))]
      sent == {BitOf(d, i) : i \in {i \in DOMAIN d.fields :
                                      d.fields[i].optional /\ ~Absent(d.fields[i])}}
  IN CASE d.kind = "structure" -> FlattenSeq(all)
       [] d.kind = "optional"  -> MaskOf(sent) \o FlattenSeq(all)
       [] OTHER                -> Octets(1, 4) \o all[1]   \* a union: its first member

(* The types the serializer can handle, given those among which it finds the nested
   ones: no unions, no arrays of structures, no structures without fields; if there are
   optional fields, at most 30 and no others; arrays of one dimension whose size is known,
   serializable fields. *)
Handles(p, t, nested) ==
  LET d == Definition[p][t]
  IN /\ d.kind \in {"structure", "optional"} /\ d.fields # <<>>
     /\ d.kind = "optional" => Len(d.fields) <= 30
     /\ \A i \in DOMAIN d.fields :
          LET f == d.fields[i]
          IN /\ f.optional <=> d.kind = "optional"
             /\ IF f.type \in TypeIds THEN f.rank = -1 /\ f.type \in nested
                ELSE /\ f.type \in DOMAIN PrimType /\ PrimType[f.type] \in Serializable
                     /\ f.rank \in {-1, 1}
                     /\ f.rank = 1 => f.dims # <<>> /\ f.dims[1] > 0

Supported(p, t) == \E all \in SUBSET TypeIds : t \in all /\ \A u \in all : Handles(p, u, all)

(* Every nested structure is there, optional or not. *)
HasStructures(p, t, v) ==
  \A i \in DOMAIN Fields(p, t) :
    LET f == Fields(p, t)[i]
    IN f.type \in TypeIds =>
         /\ f.name \in DOMAIN v.tab
         /\ f.rank <= 0 => v.tab[f.name] \in Structured[p][f.type]

(* Lua gets back the number it would have written. *)
Keeps(type, v) == type = "UInt32" => Pushed(v.num) = v.num

(* The serializer is right for v.  No optional field is missing: deserialize skips the
   mask, serialize sets every bit and writes every field.  Reading, Lua can hold the
   numbers; writing, lua_next goes through an array by index. *)
IsRegular(op, p, t, v) ==
  \A i \in DOMAIN Fields(p, t) :
    LET f == Fields(p, t)[i]
    IN /\ f.optional => f.name \in DOMAIN v.tab
       /\ f.type \in TypeIds /\ f.rank <= 0 => v.tab[f.name] \in Regular[op][p][f.type]
       /\ f.type \in DOMAIN PrimType /\ f.name \in DOMAIN v.tab =>
            LET g == v.tab[f.name]
            IN IF op = "encode" THEN f.rank > 0 => g.next = g.arr
               ELSE IF f.rank > 0
                    THEN \A j \in DOMAIN g.arr : Keeps(PrimType[f.type], g.arr[j])
                    ELSE Keeps(PrimType[f.type], g)

-----------------------------------------------------------------------------
(* Values                                                                  *)

(* v is a value of a serializable type; numbers fit into its octets. *)
HasType(type, v) ==
  /\ type = "Bool8" => v \in {Bool(TRUE), Bool(FALSE)}
  /\ type \in TextTypes => v = Str(v.str) /\ v.str \in Seq(Octet) /\ Len(v.str) \div Place[4] < 128
  /\ type \in {"Float", "Double"} => v = Num(v.num) /\ v.num \in DOMAIN Reals32
  /\ type \in SignedTypes =>
       v = Num(v.num) /\ v.num \in Int /\ v.num \div Place[DataSize[type]] \in -128..127
  /\ type \in UnsignedTypes =>
       v = Num(v.num) /\ v.num \in Nat /\ v.num \div Place[DataSize[type]] < 256

(* A serializable field of a table has the Lua type of its field. *)
FieldFits(f, v) ==
  f.type \in DOMAIN PrimType /\ PrimType[f.type] \in Serializable =>
    IF f.rank <= 0 THEN HasType(PrimType[f.type], v)
    ELSE /\ v = [arr |-> v.arr, next |-> v.next]
         /\ v.arr \in Seq(LuaValues) /\ v.next \in Seq(LuaValues)
         /\ Len(v.next) = Len(v.arr) /\ Len(v.arr) \div Place[4] < 128
         /\ \A j \in DOMAIN v.arr :
              HasType(PrimType[f.type], v.arr[j]) /\ HasType(PrimType[f.type], v.next[j])

(* A value of the server has the fields of its type, the optional ones or not, and no
   more elements than its type allows. *)
IsWhole(p, t, v) ==
  /\ DOMAIN v.tab \subseteq {Fields(p, t)[i].name : i \in DOMAIN Fields(p, t)}
  /\ \A i \in DOMAIN Fields(p, t) :
       LET f == Fields(p, t)[i]
       IN IF f.name \notin DOMAIN v.tab THEN f.optional
          ELSE IF f.rank > 0
               THEN v.tab[f.name] = Arr(v.tab[f.name].arr) /\ Len(v.tab[f.name].arr) <= f.dims[1]
               ELSE f.type \in TypeIds => v.tab[f.name] \in Sample[p][f.type]

(* Nesting of structures ends. *)
ASSUME NestingAssumption ==
  /\ IsFiniteSet(TypeIds)
  /\ \A p \in Programs : \E depth \in [TypeIds -> 0..Cardinality(TypeIds)] :
       \A t \in TypeIds : \A i \in DOMAIN Fields(p, t) :
         Fields(p, t)[i].type \in TypeIds => depth[Fields(p, t)[i].type] < depth[t]

ASSUME ValuesAssumption ==
  /\ Nil \in LuaValues /\ Unreadable \in LuaValues
  /\ \A p \in Programs, t \in TypeIds :
       /\ Tables[p][t] \subseteq LuaValues
       /\ \A v \in Tables[p][t] :
            /\ v = Tab(v.tab) /\ v.tab \in [DOMAIN v.tab -> LuaValues]
            /\ \A i \in DOMAIN Fields(p, t) :
                 LET f == Fields(p, t)[i]
                 IN f.name \in DOMAIN v.tab =>
                      /\ FieldFits(f, v.tab[f.name])
                      /\ f.type \in TypeIds /\ f.rank <= 0 => v.tab[f.name] \in Tables[p][f.type]
       /\ Sample[p][t] \subseteq Tables[p][t]
       /\ Definition[p][t].kind # "union" => \A v \in Sample[p][t] : IsWhole(p, t, v)

ASSUME EncodingAssumption ==
  \A p \in Programs, t \in TypeIds :
    /\ DOMAIN Encoding[p][t] = Tables[p][t]
    /\ \A v \in Tables[p][t] : Encoding[p][t][v] = RefBody(Encoding[p], Definition[p][t], v)

ASSUME RegularAssumption ==
  \A p \in Programs, t \in TypeIds :
    /\ Structured[p][t] = {v \in Tables[p][t] : HasStructures(p, t, v)}
    /\ \A op \in {"decode", "encode"} :
         Regular[op][p][t] = {v \in Structured[p][t] : IsRegular(op, p, t, v)}

(* The default TypeNode stands for a SymbolDef that was never assigned. *)
NeverAssigned == Node(FieldInfo([name |-> "", rank |-> 0, dims |-> <<>>]), <<>>)

ASSUME TreesAssumption ==
  Trees = {Unnamed(Expansion[p][t]) : p \in Programs, t \in TypeIds} \cup {Unnamed(NeverAssigned)}

(* The mask written for n optional fields is the one with the n lowest bits, up to 30. *)
ASSUME MaskAssumption ==
  \A n \in 0..30 : GetBits(n) = MaskOf(0..(n - 1)) /\ GetBits(n) \in [1..4 -> Octet]

-----------------------------------------------------------------------------
(* Decoding and encoding                                                   *)

Fits(tree, p) ==
  tree # NoType /\ tree = Called(Expansion[p][VarType[p]], tree.item.name)

Result(op, ret, p, fits, in, out) ==
  [op |-> op, ret |-> ret, prog |-> p, fits |-> fits, in |-> in, out |-> out]

NoResult == Result("none", "none", "none", FALSE, Nil, Nil)

(* Decode the body of value v of the variable under program p. *)
DecodeWith(tree, p, v) ==
  LET d == Deserialize(tree, Encoding[p][VarType[p]][v], 0)
  IN last' = Result("decode", IF d.addr # Over THEN "ok" ELSE "undefined", p, Fits(tree, p), v, d.val)

(* Encode table v, which is pushed on an empty stack and popped again. *)
EncodeWith(tree, v) ==
  LET s == Serialize(tree, State(<<v>>, <<>>))
      ret == IF s.raised THEN "raised" ELSE IF s.out = <<>> THEN "empty" ELSE "ok"
  IN last' = Result("encode", ret, prog, Fits(tree, prog), v,
                    [body |-> s.out, left |-> IF s.raised THEN <<>> ELSE Pop(s).lua])

Refuse(op, why) == last' = Result(op, why, "none", FALSE, Nil, Nil)

(* Decode a body that getExtensionObject returned under the program of the server or
   when the type was read. *)
DecodeExtensionObject(t, p, v) ==
  /\ reader = "manager" /\ Idle
  /\ IF HasTypeByName(t) THEN DecodeWith(types[t], p, v) ELSE Refuse("decode", "type not found")

EncodeExtensionObject(t, v) ==
  /\ reader = "manager" /\ Idle
  /\ IF ~HasTypeByName(t) THEN Refuse("encode", "type not found")
     ELSE IF ~IsValid(types[t]) THEN Refuse("encode", "not valid")
     ELSE EncodeWith(types[t], v)

SymDef == IF symDef = NoType THEN NeverAssigned ELSE symDef

(* getInputs and getOutputs decode with any SymbolDef, setOutputs asks for a valid one.
   While the thread exchanges, the image holds a value of the program it found when it
   prepared the node. *)
GetInputs(v) ==
  /\ reader = "cyclic"
  /\ IF running THEN DecodeWith(SymDef, source, v) ELSE Refuse("decode", "not running")

SetOutputs(v) ==
  /\ reader = "cyclic"
  /\ IF IsValid(symDef) THEN EncodeWith(SymDef, v) ELSE Refuse("encode", "not valid")

Init == TypesInit /\ last = NoResult

(* Lua calls again only when it has taken the result of the call before; last is
   forgotten when anything else happens. *)
LuaStep ==
  /\ last = NoResult
  /\ \/ \E t \in TypeIds : \E p \in {prog, origin[t]} \cap Programs : \E v \in Sample[p][VarType[p]] :
          DecodeExtensionObject(t, p, v)
     \/ \E t \in TypeIds : \E v \in Tables[prog][VarType[prog]] : EncodeExtensionObject(t, v)
     \/ \E v \in Sample[source][VarType[source]] : GetInputs(v)
     \/ \E v \in Tables[prog][VarType[prog]] : SetOutputs(v)
  /\ UNCHANGED typeVars

TakeResult == last # NoResult /\ last' = NoResult /\ UNCHANGED typeVars

TypesStep == TypesNext /\ last' = NoResult

Next == TypesStep \/ LuaStep \/ TakeResult

Spec == Init /\ [][Next]_vars

(* A definition is walked by one synchronous call, which nothing but the server keeps. *)
FairSpec == Spec /\ WF_vars(ReadStep /\ last' = NoResult)

-----------------------------------------------------------------------------
(* Properties                                                              *)

TypeOK ==
  /\ prog \in Programs /\ source \in Programs
  /\ conn \in BOOLEAN /\ running \in BOOLEAN
  /\ reader \in {"manager", "cyclic"}
  /\ call.type \in TypeIds /\ call.ret \in {"none", "busy", "good", "bad"}
  /\ Reading <=> call.ret = "busy"
  /\ origin \in [TypeIds -> Programs \cup {NoOrigin}]
  /\ last.op \in {"none", "decode", "encode"} /\ last.fits \in BOOLEAN

(* Decoding gives back the value the server sent, and stays inside its body, for every
   type the serializer supports whose tree was read under the same program, unless the
   value omits an optional field, whose bit in the mask deserialize does not look at, or
   has a number that does not fit a lua_Integer (deserialize against the encoding of the
   server). *)
DecodedIsSent ==
  (/\ last.op = "decode" /\ last.fits
   /\ Supported(last.prog, VarType[last.prog])
   /\ last.in \in Regular["decode"][last.prog][VarType[last.prog]]) =>
    last.ret = "ok" /\ last.out = last.in

(* Encoding writes what the server would for the table, with defaults for missing
   mandatory fields, without additional fields and with arrays cut to their dimension,
   and leaves the Lua stack as it was (serialize, "nice about additional and missing
   fields"), unless the table omits an optional field, which serialize writes nevertheless,
   or has an array lua_next does not go through by index. *)
EncodedIsReference ==
  (/\ last.op = "encode" /\ last.fits
   /\ Supported(last.prog, VarType[last.prog])
   /\ last.in \in Regular["encode"][last.prog][VarType[last.prog]]) =>
    /\ last.ret = "ok"
    /\ last.out.body = Encoding[last.prog][VarType[last.prog]][last.in]
    /\ last.out.left = <<>>

(* A missing nested structure ends in a Lua error, never in a body that is sent. *)
NoBodyWithoutStructures ==
  (/\ last.op = "encode" /\ last.fits
   /\ Supported(last.prog, VarType[last.prog])
   /\ last.in \notin Structured[last.prog][VarType[last.prog]]) => last.ret = "raised"
=============================================================================
