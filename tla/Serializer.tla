----------------------------- MODULE Serializer -----------------------------
(***************************************************************************)
(* The serializer between Lua tables and the bodies of extension objects.  *)
(* A body is a sequence of octets.  A Lua value is a record named after    *)
(* its Lua type; a table with string keys maps names to values, one used   *)
(* as an array has its elements by index, and in the order of lua_next,    *)
(* which Lua leaves open.                                                  *)
(*                                                                         *)
(* deserialize and serialize walk a tree of type nodes.  Serialising works *)
(* on the Lua stack, which is part of its state.  Reading past the end of  *)
(* a body is undefined in C++: here it ends the walk at the address Over.  *)
(*                                                                         *)
(* The recursion over nested structures is a function on trees, a loop the *)
(* sequence of its rounds, each a function of what the round before left.  *)
(***************************************************************************)
EXTENDS TypeDefinitions

CONSTANTS
  Trees,      \* trees of structures, without their names, nested ones included
  LuaValues,  \* values Lua may have on its stack
  WideIntegers   \* has a lua_Integer more than 32 bits?

Nil     == [nil |-> TRUE]
Num(n)  == [num |-> n]
Bool(b) == [bool |-> b]
Str(s)  == [str |-> s]
Tab(f)  == [tab |-> f]
Arr(s)  == [arr |-> s, next |-> s]

Is(kind, v) == kind \in DOMAIN v

(* What x becomes in the first i of some rounds. *)
After(rounds, x) ==
  LET after[i \in 0..Len(rounds)] == IF i = 0 THEN x ELSE rounds[i][after[i - 1]]
  IN after

(* The walk over a structure does not depend on the name it goes by. *)
Unnamed(node) == Called(node, "")

-----------------------------------------------------------------------------
(* Memory                                                                  *)

Octet == 0..255
Place == <<1, 256, 65536, 16777216>>

(* Little-endian two's complement of n in k octets; of values of 32 bits at most. *)
Octets(n, k) ==
  [i \in 1..k |-> IF i <= 4 THEN (n \div Place[i]) % 256
                  ELSE IF n < 0 THEN 255 ELSE 0]

(* The value of the first k octets, of at most 4. *)
Low(b, k) ==
  LET Part(i) == IF i <= k THEN b[i] * Place[i] ELSE 0
  IN Part(1) + Part(2) + Part(3) + Part(4)

Unsigned(b) == Low(b, Len(b))

Signed(b) ==
  LET k == Len(b)
      high == IF b[k] >= 128 THEN b[k] - 256 ELSE b[k]
  IN high * Place[k] + Low(b, k - 1)

(* IEEE 754 patterns of the numbers used in the instances. *)
Reals32 ==
  [n \in {-2, 0, 1} |-> CASE n = 0 -> <<0, 0, 0, 0>>
                          [] n = 1 -> <<0, 0, 128, 63>>
                          [] OTHER -> <<0, 0, 0, 192>>]
Reals64 == [n \in {-2, 0, 1} |-> IF n = 1 THEN <<0, 0, 0, 0, 0, 0, 240, 63>>
                                          ELSE <<0, 0, 0, 0>> \o Reals32[n]]
RealOf(table, b) ==
  IF \E n \in DOMAIN table : table[n] = b THEN CHOOSE n \in DOMAIN table : table[n] = b
  ELSE b   \* some other number

-----------------------------------------------------------------------------
(* Deserialisation                                                         *)

SignedTypes   == {"SInt8", "SInt16", "SInt32"}
UnsignedTypes == {"UInt8", "UInt16", "UInt32"}
TextTypes     == {"StringL4", "ByteString"}
Serializable  == SignedTypes \cup UnsignedTypes \cup TextTypes \cup {"Bool8", "Float", "Double"}

Over == -1
Addresses(buf) == Over..Len(buf)

Done(addr, v) == [addr |-> addr, val |-> v]
Overread == Done(Over, Nil)

Bytes(buf, addr, k) == SubSeq(buf, addr + 1, addr + k)
InBounds(buf, addr, k) == addr # Over /\ k >= 0 /\ addr + k <= Len(buf)

Unreadable == Str(<<33, 33, 33>>)   \* "!!!ERROR: cannot deserialize this type!!!"

(* lua_pushinteger of an unsigned number of 32 bits. *)
Pushed(n) == IF WideIntegers \/ n \div Place[4] < 128 THEN n ELSE n - 256 * Place[4]

(* _deserialize: the value of a plain item at addr, and the address behind it. *)
DeserPrim(item, buf, addr) ==
  LET k == item.size
      b == Bytes(buf, addr, k)
      n == Signed(Bytes(buf, addr, 4))
  IN CASE item.type \notin Serializable -> Done(addr, Unreadable)
       [] item.type \in TextTypes ->
            IF ~InBounds(buf, addr, 4) \/ ~InBounds(buf, addr + 4, n) THEN Overread
            ELSE Done(addr + 4 + n, Str(Bytes(buf, addr + 4, n)))
       [] OTHER ->
            IF ~InBounds(buf, addr, k) THEN Overread
            ELSE Done(addr + k,
                   CASE item.type = "Bool8"       -> Bool(b[1] # 0)
                     [] item.type \in SignedTypes -> Num(Signed(b))
                     [] item.type = "Float"       -> Num(RealOf(Reals32, b))
                     [] item.type = "Double"      -> Num(RealOf(Reals64, b))
                     [] item.type = "UInt32"      -> Num(Pushed(Unsigned(b)))
                     [] OTHER                     -> Num(Unsigned(b)))

(* The readers of successive items, each a function from the address of its item: where
   the items lie, from addr on. *)
Stations(buf, readers, addr) ==
  After([i \in DOMAIN readers |-> [a \in Addresses(buf) |-> readers[i][a].addr]], addr)

(* An array of plain items.  Its elements take an octet or more, so that one with more
   elements than octets runs past the end. *)
DeserArray(item, buf, addr) ==
  LET count == Signed(Bytes(buf, addr, 4))
      readers == [j \in 1..count |-> [a \in Addresses(buf) |-> DeserPrim(item, buf, a)]]
      at == Stations(buf, readers, addr + 4)
      end == at[Len(readers)]
  IN IF \/ ~InBounds(buf, addr, 4)
        \/ item.type \in Serializable /\ count > Len(buf)
        \/ end = Over
     THEN Overread
     ELSE Done(end, Arr([j \in DOMAIN readers |-> readers[j][at[j - 1]].val]))

(* No node is both an array and a structure. *)
DeserChild(walk, tn, buf, addr) ==
  IF tn.item.isArray THEN DeserArray(tn.item, buf, addr)
  ELSE IF tn.item.isStruct THEN walk[Unnamed(tn)][addr]
  ELSE DeserPrim(tn.item, buf, addr)

(* Mutant: the header is taken for the first field. *)
KeepHeader(node, buf, addr) == addr

(* The header of a structure with optional fields is skipped: all are taken to be there. *)
SkipHeader(node, buf, addr) ==
  IF InBounds(buf, addr, node.item.offset) THEN addr + node.item.offset ELSE Over

DeserStruct(walk, node, buf, addr) ==
  LET children == node.children
      readers == [i \in DOMAIN children |->
                    [a \in Addresses(buf) |-> DeserChild(walk, children[i], buf, a)]]
      at == Stations(buf, readers, SkipHeader(node, buf, addr))
      end == at[Len(children)]
      Named(n) == CHOOSE i \in DOMAIN children : children[i].item.name = n
      Value(i) == readers[i][at[i - 1]].val
  IN IF end = Over THEN Overread
     ELSE Done(end, Tab([n \in {children[i].item.name : i \in DOMAIN children} |->
                           Value(Named(n))]))

(* deserialize, for every structure and address.  The name of the outermost structure
   stays on the Lua stack, below the table that is returned, and goes with its caller. *)
DeserWalk(buf) ==
  LET walk[node \in Trees] == [addr \in Addresses(buf) |-> DeserStruct(walk, node, buf, addr)]
  IN walk

Deserialize(node, buf, addr) == DeserWalk(buf)[Unnamed(node)][addr]

-----------------------------------------------------------------------------
(* Serialisation                                                           *)

(* The Lua stack, its top last, the octets written, and whether Lua raised an error. *)
State(lua, out) == [lua |-> lua, out |-> out, raised |-> FALSE]
States == [lua : Seq(LuaValues), out : Seq(Octet), raised : BOOLEAN]
Raise(s) == [s EXCEPT !.raised = TRUE]

TopOf(s) == s.lua[Len(s.lua)]
Push(s, v) == [s EXCEPT !.lua = Append(@, v)]
Pop(s) == [s EXCEPT !.lua = SubSeq(@, 1, Len(@) - 1)]
Write(s, b) == [s EXCEPT !.out = @ \o b]

(* Mutant: an additional look for fields that must be there. *)
GetFieldStrict(s, name) ==
  IF s.raised THEN s
  ELSE IF Is("tab", TopOf(s)) /\ name \in DOMAIN TopOf(s).tab THEN Push(s, TopOf(s).tab[name])
  ELSE Raise(s)

(* Mutant: what is not a table has no fields. *)
GetFieldLenient(s, name) ==
  IF s.raised THEN s
  ELSE IF Is("tab", TopOf(s)) /\ name \in DOMAIN TopOf(s).tab THEN Push(s, TopOf(s).tab[name])
  ELSE Push(s, Nil)

(* lua_getfield: of a string it finds nothing, of anything but a table it raises. *)
GetField(s, name) ==
  IF s.raised THEN s
  ELSE CASE Is("tab", TopOf(s)) ->
              Push(s, IF name \in DOMAIN TopOf(s).tab THEN TopOf(s).tab[name] ELSE Nil)
         [] Is("arr", TopOf(s)) \/ Is("str", TopOf(s)) -> Push(s, Nil)
         [] OTHER -> Raise(s)

(* getbits: one bit for each of count fields. *)
GetBits(count) ==
  IF count >= 31 THEN <<255, 255, 255, 255>> ELSE Octets(2^count - 1, 4)

(* Texts of integers.  Bounds: numbers are written in decimal, without spaces. *)
Digits[n \in Nat] == IF n < 10 THEN <<48 + n>> ELSE Digits[n \div 10] \o <<48 + (n % 10)>>
TextOfNumber(n) == IF n < 0 THEN <<45>> \o Digits[-n] ELSE Digits[n]

IsDigits(t) == t # <<>> /\ \A i \in DOMAIN t : t[i] \in 48..57
Negative(t) == t # <<>> /\ t[1] = 45
Magnitude(t) == IF Negative(t) THEN Tail(t) ELSE t
NumberOfText(t) ==
  LET m == Magnitude(t)
      value[i \in 0..Len(m)] == IF i = 0 THEN 0 ELSE 10 * value[i - 1] + m[i] - 48
  IN IF Negative(t) THEN -value[Len(m)] ELSE value[Len(m)]

(* luaL_optinteger, luaL_optnumber and lua_tolstring convert between numbers and texts. *)
IsNumeric(v) == Is("num", v) \/ Is("nil", v) \/ (Is("str", v) /\ IsDigits(Magnitude(v.str)))
OptNumber(v) == IF Is("num", v) THEN v.num ELSE IF Is("str", v) THEN NumberOfText(v.str) ELSE 0
TextGiven(v) == IF Is("str", v) THEN v.str ELSE IF Is("num", v) THEN TextOfNumber(v.num) ELSE <<>>

(* _serialize: the top of the stack as a plain item.  A field that is not there is
   written as zero or as the empty string; so is anything but a Boolean for a Boolean. *)
SerPrim(item, s) ==
  LET v == TopOf(s)
      n == OptNumber(v)
      Number == CASE item.type = "Float"  -> Reals32[n]
                  [] item.type = "Double" -> Reals64[n]
                  [] OTHER                -> Octets(n, item.size)
  IN IF s.raised THEN s
     ELSE CASE item.type \notin Serializable -> Push(s, Unreadable)
            [] item.type \in TextTypes ->
                 Write(s, Octets(Len(TextGiven(v)), 4) \o TextGiven(v))
            [] item.type = "Bool8" -> Write(s, IF v = Bool(TRUE) THEN <<1>> ELSE <<0>>)
            [] OTHER -> IF IsNumeric(v) THEN Write(s, Number) ELSE Raise(s)

(* The elements of an array of plain items, in the order of lua_next; its table, or nil,
   is on top.  As many as the dimension are written, the rest is left out.  Bounds: no
   text is given for an array, an array has neither holes nor other keys, and the
   elements are of a serializable type. *)
SerArray(item, s) ==
  LET elems == IF Is("arr", TopOf(s)) THEN TopOf(s).next ELSE <<>>
      count == IF Len(elems) < item.dims[1] THEN Len(elems) ELSE item.dims[1]
      rounds == [j \in 1..count |-> [t \in States |-> Pop(SerPrim(item, Push(t, elems[j])))]]
  IN IF s.raised THEN s ELSE After(rounds, Write(s, Octets(count, 4)))[count]

SerChild(walk, tn, s) ==
  LET found == GetField(s, tn.item.name)
      after == IF tn.item.isArray THEN SerArray(tn.item, found)
               ELSE IF tn.item.isStruct THEN walk[Unnamed(tn)][found]
               ELSE SerPrim(tn.item, found)
  IN IF found.raised THEN found ELSE IF after.raised THEN after ELSE Pop(after)

(* Every child counts, whether it is optional or there at all. *)
WriteHeader(node, s) ==
  IF node.item.offset = 0 THEN s ELSE Write(s, GetBits(Len(node.children)))

SerStruct(walk, node, s) ==
  LET rounds == [i \in DOMAIN node.children |-> [t \in States |-> SerChild(walk, node.children[i], t)]]
  IN After(rounds, WriteHeader(node, s))[Len(rounds)]

(* serialize, for every structure, of the table on top of the stack. *)
SerWalk[node \in Trees] == [s \in States |-> SerStruct(SerWalk, node, s)]

Serialize(node, s) == SerWalk[Unnamed(node)][s]
=============================================================================
