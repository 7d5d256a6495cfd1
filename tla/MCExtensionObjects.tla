------------------------- MODULE MCExtensionObjects -------------------------
(* Two types, Motor with a Point inside, under four programs: every serializable type;
   optional fields, nine for a second octet of the mask, present and omitted, and a nested
   type met twice; an unknown field behind a union; mandatory fields beside an optional
   one, an array of structures, a field without a serializer. *)
EXTENDS ExtensionObjects

MCTypeIds == {"Point", "Motor"}
MCPrograms == {"plain", "optional", "broken", "other"}

F(name, type) == [name |-> name, type |-> type, rank |-> -1, dims |-> <<>>, optional |-> FALSE]
A(name, type, n) == [F(name, type) EXCEPT !.rank = 1, !.dims = <<n>>]
O(name, type) == [F(name, type) EXCEPT !.optional = TRUE]
Def(kind, fields) == [kind |-> kind, fields |-> fields]

Bytes6 == <<"b1", "b2", "b3", "b4", "b5", "b6">>
PointXY == Def("structure", <<F("x", "Int16"), F("on", "Boolean")>>)

MCDefinition ==
  [plain |->
     [Point |-> PointXY,
      Motor |-> Def("structure",
        <<F("id", "UInt32"), F("pos", "Point"), F("name", "String"), A("temps", "Float", 2),
          F("w", "WORD"), F("b", "Byte"), F("s", "SByte"), F("d", "Double"), F("n", "Int32")>>)],
   optional |->
     [Point |-> Def("optional", <<O("x", "Int32")>>),
      Motor |-> Def("optional", <<O("pos", "Point"), O("set", "Point"), O("raw", "ByteString")>>
                             \o [i \in 1..6 |-> O(Bytes6[i], "Byte")])],
   broken |->
     [Point |-> Def("union", <<F("x", "Int16"), F("on", "Boolean")>>),
      Motor |-> Def("structure", <<F("pos", "Point"), F("bad", "Duration")>>)],
   other |->
     [Point |-> PointXY,
      Motor |-> Def("optional", <<F("big", "Int64"), A("pts", "Point", 2), O("id", "Byte")>>)]]

MCVarType == [p \in MCPrograms |-> "Motor"]

MCFieldNames == {"", "id", "pos", "name", "temps", "w", "b", "s", "d", "n", "x", "on", "set",
                 "raw", "bad", "big", "pts"} \cup ToSet(Bytes6)

RECURSIVE Expand(_, _)
Expand(p, t) ==
  LET d == MCDefinition[p][t]
      Child(f) == IF f.type \in MCTypeIds THEN Called(Expand(p, f.type), f.name)
                                          ELSE Node(PrimInfo(f), <<>>)
  IN Node(StructInfo(d, t), [i \in DOMAIN d.fields |-> Child(d.fields[i])])

MCExpansion == [p \in MCPrograms |-> [t \in MCTypeIds |-> Expand(p, t)]]

-----------------------------------------------------------------------------
Without(f, names) == Tab([n \in DOMAIN f \ names |-> f[n]])
Point(x, on) == Tab([x |-> Num(x), on |-> Bool(on)])
X(n) == Tab([x |-> Num(n)])

Plain == [id |-> Num(70000), pos |-> Point(-2, TRUE), name |-> Str(<<65, 0>>),
          temps |-> Arr(<<Num(1), Num(-2)>>), w |-> Num(65535), b |-> Num(255),
          s |-> Num(-128), d |-> Num(-2), n |-> Num(-1)]
PlainZero == [id |-> Num(0), pos |-> Point(32767, FALSE), name |-> Str(<<>>),
              temps |-> Arr(<<>>), w |-> Num(256), b |-> Num(128), s |-> Num(127),
              d |-> Num(1), n |-> Num(2147483647)]
Optional == [pos |-> X(256), set |-> X(-129), raw |-> Str(<<0, 255>>), b1 |-> Num(1),
             b2 |-> Num(2), b3 |-> Num(3), b4 |-> Num(4), b5 |-> Num(5), b6 |-> Num(6)]

MCSample ==
  [plain    |-> [Point |-> {Plain.pos, PlainZero.pos}, Motor |-> {Tab(Plain), Tab(PlainZero)}],
   optional |-> [Point |-> {X(256), X(-129), Tab(<<>>)},
                 Motor |-> {Tab(Optional), Without(Optional, {"pos"}),
                            Without([Optional EXCEPT !.pos = Tab(<<>>)], {"raw", "b6"})}],
   broken   |-> [Point |-> {X(5)}, Motor |-> {Tab([pos |-> X(5), bad |-> Num(1)])}],
   other    |-> [Point |-> {Point(3, TRUE)},
                 Motor |-> {Tab([big |-> Num(9), pts |-> Arr(<<Point(3, TRUE)>>), id |-> Num(4)])}]]

More == Tab([more |-> Num(1)])

MCTables ==
  [MCSample EXCEPT
     !.plain.Point = @ \cup {More},
     !.plain.Motor = @ \cup
       {Without([Plain EXCEPT !.pos = More], {"id", "name", "temps"}), Without(Plain, {"pos"}),
        Tab([Plain EXCEPT !.temps = [arr |-> <<Num(1), Num(-2)>>, next |-> <<Num(-2), Num(1)>>]]),
        Tab([n \in DOMAIN Plain \cup {"more"} |->
               CASE n = "more"  -> Str(<<1>>)
                 [] n = "temps" -> Arr(<<Num(0), Num(1), Num(1)>>)
                 [] OTHER       -> Plain[n]])},
     !.optional.Motor = @ \cup {Without(Optional, {"b6"})}]

(* Nothing nests deeper than a Point in a Motor. *)
MCEncoding ==
  [p \in MCPrograms |->
     LET def == MCDefinition[p]
         points == [v \in MCTables[p].Point |-> RefBody(<<>>, def.Point, v)]
     IN [Point |-> points,
         Motor |-> [v \in MCTables[p].Motor |-> RefBody([Point |-> points], def.Motor, v)]]]

PointFields(p) ==
  LET fields == MCDefinition[p].Motor.fields
  IN {fields[i].name : i \in {i \in DOMAIN fields : fields[i].type = "Point"}}

MCStructured ==
  [p \in MCPrograms |->
     [Point |-> MCTables[p].Point,
      Motor |-> {v \in MCTables[p].Motor : PointFields(p) \subseteq DOMAIN v.tab}]]

MCRegular ==
  [op \in {"decode", "encode"} |->
     [p \in MCPrograms |->
        [Point |-> MCTables[p].Point \ (IF p = "optional" THEN {Tab(<<>>)} ELSE {}),
         Motor |->
           {v \in MCStructured[p].Motor :
              CASE p = "plain" -> op = "encode" /\ "temps" \in DOMAIN v.tab => v.tab.temps.arr = v.tab.temps.next
                [] p = "optional" -> DOMAIN Optional \subseteq DOMAIN v.tab /\ Tab(<<>>) \notin {v.tab.pos, v.tab.set}
                [] OTHER -> TRUE}]]]

MCTrees == {Unnamed(MCExpansion[p][t]) : p \in MCPrograms, t \in MCTypeIds} \cup {Unnamed(NeverAssigned)}

MCLuaValues ==
  LET tables == UNION {MCTables[p][t] : p \in MCPrograms, t \in MCTypeIds}
      parts == UNION {{v.tab[n] : n \in DOMAIN v.tab} : v \in tables}
      elements == UNION {ToSet(v.arr) : v \in {v \in parts : Is("arr", v)}}
  IN {Nil, Unreadable} \cup tables \cup parts \cup elements
=============================================================================
