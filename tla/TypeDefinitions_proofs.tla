----------------------- MODULE TypeDefinitions_proofs -----------------------
(***************************************************************************)
(* The definitions read from the server, for all programs of the PLC.      *)
(*                                                                         *)
(* A frame of the recursion that stands before field k holds the first     *)
(* k - 1 children of the tree of its type; the frame above it is for the   *)
(* type of field k.  While the connection of a read lasts, the program is  *)
(* the one the read began under, so that all frames agree on it.           *)
(***************************************************************************)
EXTENDS TypeDefinitions, SequenceTheorems, TLAPS

Prefix(g, k) == [i \in 1..k |-> g[i]]

(* The children of the tree of t, and the node of a frame that has read k - 1. *)
Children(p, t) == [i \in DOMAIN Fields(p, t) |-> ChildTree(p, Fields(p, t)[i])]
NodeAt(p, t, name, k) == Node(StructInfo(Definition[p][t], name), Prefix(Children(p, t), k - 1))

Infos == {FieldInfo(f) : f \in FieldSet} \cup
         {FieldInfo([name |-> t, rank |-> 0, dims |-> <<>>]) : t \in TypeIds}

NodeSet ==
  {Node(info, <<>>) : info \in Infos} \cup
  {NodeAt(p, t, name, k) : p \in Programs, t \in TypeIds, name \in STRING, k \in Nat}

FrameSet == [type : TypeIds, name : STRING, node : NodeSet, next : Nat]

FrameOK(p, f) ==
  /\ f.next \in 0..(Len(Fields(p, f.type)) + 1)
  /\ f.next # 0 => f.node = NodeAt(p, f.type, f.name, f.next)

Link(p, f, g) ==
  /\ f.next \in DOMAIN Fields(p, f.type)
  /\ g.type = Fields(p, f.type)[f.next].type /\ g.name = Fields(p, f.type)[f.next].name

(* The frames of a read of type t that began under program p. *)
StackOK(st, p, t) ==
  /\ st \in Seq(FrameSet)
  /\ \A i \in 1..Len(st) : FrameOK(p, st[i])
  /\ \A i \in 1..(Len(st) - 1) : Link(p, st[i], st[i + 1])
  /\ st # <<>> => st[1].type = t /\ st[1].name = t

StackInv == StackOK(stack, source, call.type)

Static ==
  /\ prog \in Programs /\ source \in Programs /\ reader \in {"manager", "cyclic"}
  /\ call \in [type : TypeIds, ret : {"none", "busy", "good", "bad"}]
  /\ Reading <=> call.ret = "busy"
  /\ types = [t \in TypeIds |-> types[t]] /\ origin = [t \in TypeIds |-> origin[t]]

SameProgram ==
  Reading /\ conn => prog = source /\ (reader = "cyclic" => call.type = VarType[prog])

OneReader ==
  /\ reader = "manager" => symDef = NoType
  /\ reader = "cyclic" => \A t \in TypeIds : types[t] = NoType

Current ==
  reader = "cyclic" /\ conn /\ call.ret = "good" => symDef = Expansion[prog][VarType[prog]]

KnownInv == CachedTypesAreWhole /\ SymbolDefIsWhole /\ ResolvedIsKnown /\ Current

IInv == Static /\ StackInv /\ SameProgram /\ OneReader /\ KnownInv

-----------------------------------------------------------------------------
(* Sequences and trees                                                     *)

LEMMA PrefixFacts ==
  ASSUME NEW g, NEW k \in Nat
  PROVE  /\ Append(Prefix(g, k), g[k + 1]) = Prefix(g, k + 1)
         /\ Prefix(g, 0) = <<>>
         /\ Prefix(g, k) \in Seq({g[i] : i \in 1..k}) /\ Len(Prefix(g, k)) = k
<1>1. Prefix(g, k) \in Seq({g[i] : i \in 1..k}) /\ Len(Prefix(g, k)) = k
  BY DEF Prefix
<1>2. Prefix(g, 0) = <<>>
  BY DEF Prefix
<1>3. Append(Prefix(g, k), g[k + 1]) = Prefix(g, k + 1)
  <2> DEFINE a == Append(Prefix(g, k), g[k + 1])
             b == Prefix(g, k + 1)
             S == {g[i] : i \in 1..(k + 1)}
  <2>1. b \in Seq(S) /\ Len(b) = k + 1 /\ \A i \in 1..(k + 1) : b[i] = g[i]
    BY DEF Prefix
  <2>2. Prefix(g, k) \in Seq(S) /\ \A i \in 1..k : Prefix(g, k)[i] = g[i]
    BY DEF Prefix
  <2>3. g[k + 1] \in S
    OBVIOUS
  <2> HIDE DEF b, S
  <2>4. a \in Seq(S) /\ Len(a) = k + 1 /\ \A i \in 1..(k + 1) : a[i] = g[i]
    <3> DEFINE q == Prefix(g, k)
               e == g[k + 1]
    <3>1. q \in Seq(S) /\ Len(q) = k /\ e \in S /\ a = Append(q, e)
      BY <1>1, <2>2, <2>3
    <3>2. \A i \in 1..k : q[i] = g[i]
      BY <2>2
    <3> HIDE DEF q, a
    <3>3. a \in Seq(S) /\ Len(a) = k + 1 /\ a[k + 1] = e /\ \A i \in 1..k : a[i] = q[i]
      <4> HIDE DEF e
      <4> QED
        BY <3>1
    <3> QED
      BY <3>2, <3>3
  <2> HIDE DEF a
  <2>5. a = b
    BY <2>1, <2>4
  <2> QED
    BY <2>5 DEF a, b
<1> QED
  BY <1>1, <1>2, <1>3

(* A sequence without its last element. *)
LEMMA PopFacts ==
  ASSUME NEW S, NEW st \in Seq(S), st # <<>>
  PROVE  /\ Len(st) \in Nat \ {0} /\ st[Len(st)] \in S
         /\ SubSeq(st, 1, Len(st) - 1) \in Seq(S)
         /\ Len(SubSeq(st, 1, Len(st) - 1)) = Len(st) - 1
         /\ \A i \in 1..(Len(st) - 1) : SubSeq(st, 1, Len(st) - 1)[i] = st[i]
<1>1. Len(st) \in Nat \ {0} /\ st[Len(st)] \in S
  OBVIOUS
<1> DEFINE n == Len(st) - 1
           b == SubSeq(st, 1, n)
<1>2. n \in Nat /\ \A i \in 1..n : st[i] \in S
  BY <1>1
<1>3. /\ b \in Seq(S)
      /\ Len(b) = IF 1 <= n THEN n - 1 + 1 ELSE 0
      /\ \A i \in 1..(n - 1 + 1) : b[i] = st[1 + i - 1]
  <2> HIDE DEF n
  <2> QED
    BY <1>2, SubSeqProperties
<1> HIDE DEF b, n
<1>4. Len(b) = n /\ \A i \in 1..n : b[i] = st[i]
  BY <1>2, <1>3
<1> QED
  BY <1>1, <1>3, <1>4 DEF n, b

(* A structure and its tree. *)
LEMMA TreeOf ==
  ASSUME NEW p \in Programs, NEW t \in TypeIds
  PROVE  /\ Fields(p, t) \in Seq(FieldSet) /\ Len(Fields(p, t)) \in Nat
         /\ DOMAIN Fields(p, t) = 1..Len(Fields(p, t))
         /\ Expansion[p][t] = Node(StructInfo(Definition[p][t], t), Children(p, t))
         /\ Expansion[p][t] # NoType
<1>1. Fields(p, t) \in Seq(FieldSet)
  BY DefinitionsAssumption
<1>2. Expansion[p][t] = Node(StructInfo(Definition[p][t], t), Children(p, t)) /\ Expansion[p][t] # NoType
  BY DefinitionsAssumption, Zenon DEF Children
<1> QED
  BY <1>1, <1>2

(* A TypeInfo under another name. *)
Rename(info, name) == [info EXCEPT !.name = name]

Info(a, b, c, d, e, f, g) ==
  [name |-> a, isArray |-> b, dims |-> c, isStruct |-> d, type |-> e, size |-> f, offset |-> g]

LEMMA RenameInfo ==
  ASSUME NEW a, NEW name, NEW b, NEW c, NEW d, NEW e, NEW f, NEW g
  PROVE  Rename(Info(a, b, c, d, e, f, g), name) = Info(name, b, c, d, e, f, g)
BY DEF Rename, Info

NoArray == FALSE
Filled(d) == d.kind # "union"

StructType(d) ==
  CASE d.kind = "structure" -> "StructFixed"
    [] d.kind = "optional"  -> "StructOptFld"
    [] OTHER                -> "Undefined"

StructOffset(d) == IF d.kind = "optional" THEN 4 ELSE 0

LEMMA RenameStruct ==
  ASSUME NEW d, NEW t, NEW name
  PROVE  Rename(StructInfo(d, t), name) = StructInfo(d, name)
<1>1. \A x : StructInfo(d, x) =
               Info(x, NoArray, <<>>, Filled(d), StructType(d), 0, StructOffset(d))
  BY Zenon DEF StructInfo, Info, StructType, StructOffset, Filled, NoArray
<1>2. \A a, b, c, e, f, g, o : Rename(Info(a, b, c, e, f, g, o), name) = Info(name, b, c, e, f, g, o)
  BY RenameInfo
<1>3. Rename(Info(t, NoArray, <<>>, Filled(d), StructType(d), 0, StructOffset(d)), name)
        = Info(name, NoArray, <<>>, Filled(d), StructType(d), 0, StructOffset(d))
  BY <1>2
<1> QED
  BY <1>1, <1>3

LEMMA CalledIsRenamed ==
  ASSUME NEW info, NEW name, NEW children
  PROVE  Called(Node(info, children), name) = Node(Rename(info, name), children)
BY DEF Called, Node, Rename

(* A tree under another name. *)
LEMMA CalledNode ==
  ASSUME NEW d, NEW t, NEW name, NEW children
  PROVE  /\ Called(Node(StructInfo(d, t), children), name) = Node(StructInfo(d, name), children)
         /\ Node(StructInfo(d, name), children).item.name = name
         /\ Node(StructInfo(d, name), children).children = children
<1>1. StructInfo(d, name).name = name
  BY Zenon DEF StructInfo
<1>2. \A i : Node(i, children).item = i /\ Node(i, children).children = children
  BY DEF Node
<1> QED
  <2>1. Called(Node(StructInfo(d, t), children), name) = Node(StructInfo(d, name), children)
    BY RenameStruct, CalledIsRenamed
  <2>2. Node(StructInfo(d, name), children).item = StructInfo(d, name)
    BY <1>2
  <2> QED
    BY <1>1, <1>2, <2>1, <2>2

(* A frame at its end holds the tree of its type under its name. *)
LEMMA NodeComplete ==
  ASSUME NEW p \in Programs, NEW t \in TypeIds, NEW name
  PROVE  /\ NodeAt(p, t, name, Len(Fields(p, t)) + 1) = Called(Expansion[p][t], name)
         /\ NodeAt(p, t, name, Len(Fields(p, t)) + 1).item.name = name
         /\ NodeAt(p, t, t, Len(Fields(p, t)) + 1) = Expansion[p][t]
<1> DEFINE n == Len(Fields(p, t))
<1>1. n \in Nat /\ DOMAIN Fields(p, t) = 1..n
  BY TreeOf
<1>2. Prefix(Children(p, t), n + 1 - 1) = Children(p, t)
  BY <1>1 DEF Prefix, Children
<1>3. NodeAt(p, t, name, n + 1) = Node(StructInfo(Definition[p][t], name), Children(p, t))
  BY <1>2 DEF NodeAt
<1>4. NodeAt(p, t, t, n + 1) = Node(StructInfo(Definition[p][t], t), Children(p, t))
  BY <1>2 DEF NodeAt
<1> HIDE DEF n
<1>5. Expansion[p][t] = Node(StructInfo(Definition[p][t], t), Children(p, t))
  BY TreeOf
<1>6. NodeAt(p, t, name, n + 1) = Called(Expansion[p][t], name)
  BY <1>3, <1>5, CalledNode
<1>7. NodeAt(p, t, name, n + 1).item.name = name
  BY <1>3, CalledNode
<1> QED
  BY <1>4, <1>5, <1>6, <1>7 DEF n

WithChild(node, child) == [node EXCEPT !.children = Append(@, child)]

(* A frame that takes its next child advances by one field. *)
LEMMA NodeAdvances ==
  ASSUME NEW p \in Programs, NEW t \in TypeIds, NEW name, NEW k \in DOMAIN Fields(p, t)
  PROVE  WithChild(NodeAt(p, t, name, k), ChildTree(p, Fields(p, t)[k])) = NodeAt(p, t, name, k + 1)
<1> DEFINE g == Children(p, t)
           info == StructInfo(Definition[p][t], name)
<1>1. k \in Nat \ {0} /\ g[k] = ChildTree(p, Fields(p, t)[k])
  BY TreeOf DEF Children
<1>2. NodeAt(p, t, name, k) = Node(info, Prefix(g, k - 1))
  BY Zenon DEF NodeAt
<1>3. NodeAt(p, t, name, k + 1) = Node(info, Prefix(g, (k + 1) - 1))
  BY Zenon DEF NodeAt
<1> HIDE DEF g, info
<1>4. k - 1 \in Nat /\ (k - 1) + 1 = k /\ (k + 1) - 1 = k
  BY <1>1
<1>5. Append(Prefix(g, k - 1), g[k]) = Prefix(g, k)
  BY <1>4, PrefixFacts
<1>6. \A i, c, e : WithChild(Node(i, c), e) = Node(i, Append(c, e))
  BY DEF Node, WithChild
<1>7. NodeAt(p, t, name, k + 1) = Node(info, Append(Prefix(g, k - 1), g[k]))
  BY <1>3, <1>4, <1>5, Zenon
<1>8. WithChild(NodeAt(p, t, name, k), g[k]) = NodeAt(p, t, name, k + 1)
  BY <1>2, <1>6, <1>7
<1> QED
  BY <1>1, <1>8

-----------------------------------------------------------------------------
(* Stacks of frames                                                        *)

LEMMA PushFrame ==
  ASSUME NEW p, NEW st, NEW t, StackOK(st, p, t), NEW f \in FrameSet, FrameOK(p, f),
         st # <<>> => Link(p, st[Len(st)], f), st = <<>> => f.type = t /\ f.name = t
  PROVE  StackOK(Append(st, f), p, t)
<1> DEFINE new == Append(st, f)
<1>1. st \in Seq(FrameSet) /\ Len(st) \in Nat
  BY DEF StackOK
<1>2. /\ new \in Seq(FrameSet) /\ Len(new) = Len(st) + 1 /\ new[Len(st) + 1] = f
      /\ \A i \in 1..Len(st) : new[i] = st[i]
  <2> HIDE DEF FrameSet
  <2> QED
    BY <1>1
<1> HIDE DEF new
<1>3. \A i \in 1..Len(new) : FrameOK(p, new[i])
  <2> TAKE i \in 1..Len(new)
  <2>1. CASE i \in 1..Len(st)
    BY <1>2, <2>1 DEF StackOK
  <2>2. CASE i = Len(st) + 1
    BY <1>2, <2>2
  <2> QED
    BY <1>1, <1>2, <2>1, <2>2
<1>4. \A i \in 1..(Len(new) - 1) : Link(p, new[i], new[i + 1])
  <2> TAKE i \in 1..(Len(new) - 1)
  <2>1. CASE i \in 1..(Len(st) - 1)
    <3>1. i \in 1..Len(st) /\ i + 1 \in 1..Len(st)
      BY <1>1, <2>1
    <3> QED
      BY <1>2, <2>1, <3>1 DEF StackOK
  <2>2. CASE i = Len(st)
    <3>1. st # <<>> /\ i \in 1..Len(st)
      BY <1>1, <1>2, <2>2
    <3> QED
      BY <1>2, <2>2, <3>1
  <2> QED
    BY <1>1, <1>2, <2>1, <2>2
<1>5. new[1].type = t /\ new[1].name = t
  <2>1. CASE st = <<>>
    BY <1>1, <1>2, <2>1
  <2>2. CASE st # <<>>
    BY <1>1, <1>2, <2>2 DEF StackOK
  <2> QED
    BY <2>1, <2>2
<1> QED
  BY <1>2, <1>3, <1>4, <1>5 DEF StackOK, new

LEMMA PopFrame ==
  ASSUME NEW p, NEW st, NEW t, StackOK(st, p, t), st # <<>>
  PROVE  StackOK(SubSeq(st, 1, Len(st) - 1), p, t)
<1> DEFINE new == SubSeq(st, 1, Len(st) - 1)
<1>1. st \in Seq(FrameSet) /\ Len(st) \in Nat
  BY DEF StackOK
<1>2. /\ new \in Seq(FrameSet) /\ Len(new) = Len(st) - 1 /\ Len(st) # 0
      /\ \A i \in 1..(Len(st) - 1) : new[i] = st[i]
  BY <1>1, PopFacts
<1> HIDE DEF new
<1>3. \A i \in 1..Len(new) : i \in 1..Len(st) /\ new[i] = st[i]
  BY <1>1, <1>2
<1>4. \A i \in 1..(Len(new) - 1) : /\ i \in 1..Len(new) /\ i + 1 \in 1..Len(new)
                                   /\ i \in 1..(Len(st) - 1)
  BY <1>1, <1>2
<1>5. new # <<>> => 1 \in 1..Len(new)
  BY <1>2
<1> QED
  BY <1>2, <1>3, <1>4, <1>5 DEF StackOK, new

(* The last frame replaced by one for the same field. *)
LEMMA ReplaceFrame ==
  ASSUME NEW p, NEW st, NEW t, StackOK(st, p, t), st # <<>>, NEW f \in FrameSet, FrameOK(p, f),
         f.type = st[Len(st)].type, f.name = st[Len(st)].name
  PROVE  /\ StackOK(Append(SubSeq(st, 1, Len(st) - 1), f), p, t)
         /\ StackOK([st EXCEPT ![Len(st)] = f], p, t)
         /\ [st EXCEPT ![Len(st)] = f] # <<>>
<1> DEFINE b == SubSeq(st, 1, Len(st) - 1)
<1>1. st \in Seq(FrameSet) /\ Len(st) \in Nat \ {0}
  BY PopFacts DEF StackOK
<1>2. b \in Seq(FrameSet) /\ Len(b) = Len(st) - 1 /\ \A i \in 1..Len(b) : b[i] = st[i]
  BY <1>1, PopFacts
<1>3. StackOK(b, p, t)
  BY PopFrame
<1> HIDE DEF b
<1>4. b # <<>> => Link(p, b[Len(b)], f)
  <2> SUFFICES ASSUME b # <<>> PROVE Link(p, b[Len(b)], f)
    OBVIOUS
  <2>1. Len(b) \in 1..(Len(st) - 1) /\ Len(b) + 1 = Len(st)
    BY <1>1, <1>2
  <2>2. Link(p, st[Len(b)], st[Len(st)]) /\ b[Len(b)] = st[Len(b)]
    BY <1>2, <2>1 DEF StackOK
  <2> QED
    BY <2>2 DEF Link
<1>5. b = <<>> => f.type = t /\ f.name = t
  <2> SUFFICES ASSUME b = <<>> PROVE f.type = t /\ f.name = t
    OBVIOUS
  <2>1. Len(b) = 0
    OBVIOUS
  <2>2. Len(st) = 1
    BY <1>1, <1>2, <2>1
  <2>3. st[1].type = t /\ st[1].name = t
    BY DEF StackOK
  <2> QED
    BY <2>2, <2>3
<1>6. StackOK(Append(b, f), p, t)
  BY <1>3, <1>4, <1>5, PushFrame
<1>7. [st EXCEPT ![Len(st)] = f] = Append(b, f)
  <2> HIDE DEF FrameSet
  <2> DEFINE x == [st EXCEPT ![Len(st)] = f]
             y == Append(b, f)
  <2>1. /\ x \in Seq(FrameSet) /\ Len(x) = Len(st) /\ x[Len(st)] = f
        /\ \A i \in 1..(Len(st) - 1) : x[i] = st[i]
    BY <1>1
  <2>2. /\ y \in Seq(FrameSet) /\ Len(y) = Len(st) /\ y[Len(st)] = f
        /\ \A i \in 1..(Len(st) - 1) : y[i] = st[i]
    BY <1>1, <1>2
  <2> HIDE DEF x, y
  <2>3. \A i \in 1..Len(st) : x[i] = y[i]
    <3> TAKE i \in 1..Len(st)
    <3>1. i = Len(st) \/ i \in 1..(Len(st) - 1)
      BY <1>1
    <3> QED
      BY <2>1, <2>2, <3>1
  <2>4. x = y
    BY <2>1, <2>2, <2>3
  <2> QED
    BY <2>4 DEF x, y
<1>8. Append(b, f) # <<>>
  <2> HIDE DEF FrameSet
  <2> QED
    BY <1>2
<1> QED
  BY <1>6, <1>7, <1>8 DEF b

(* A frame that takes a node and goes on to its next field. *)
LEMMA RecordAdvances ==
  ASSUME NEW A, NEW B, NEW C, NEW D, NEW f \in [type : A, name : B, node : C, next : D],
         NEW node, NEW next
  PROVE  /\ [f EXCEPT !.node = node, !.next = next] \in
              [type : A, name : B, node : {node}, next : {next}]
         /\ [f EXCEPT !.node = node, !.next = next].type = f.type
         /\ [f EXCEPT !.node = node, !.next = next].name = f.name
         /\ [f EXCEPT !.node = node, !.next = next].node = node
         /\ [f EXCEPT !.node = node, !.next = next].next = next
OBVIOUS

LEMMA FrameAdvances ==
  ASSUME NEW f \in FrameSet, NEW node \in NodeSet
  PROVE  \E g \in FrameSet : /\ g = [f EXCEPT !.node = node, !.next = @ + 1]
                             /\ g.type = f.type /\ g.name = f.name
                             /\ g.node = node /\ g.next = f.next + 1
<1> DEFINE n == f.next + 1
           g == [f EXCEPT !.node = node, !.next = n]
<1>1. n \in Nat
  BY DEF FrameSet
<1>2. g = [f EXCEPT !.node = node, !.next = @ + 1]
  OBVIOUS
<1> HIDE DEF n
<1>3. /\ g \in [type : TypeIds, name : STRING, node : {node}, next : {n}]
      /\ g.type = f.type /\ g.name = f.name /\ g.node = node /\ g.next = n
  <2>1. f \in [type : TypeIds, name : STRING, node : NodeSet, next : Nat]
    BY DEF FrameSet
  <2> HIDE DEF NodeSet
  <2> QED
    BY <2>1, RecordAdvances
<1> HIDE DEF g
<1>4. g \in FrameSet
  <2> HIDE DEF NodeSet
  <2> QED
    BY <1>1, <1>3 DEF FrameSet
<1> QED
  BY <1>2, <1>3, <1>4 DEF n

(* The same for a frame that gets a child. *)
LEMMA FrameGetsChild ==
  ASSUME NEW f \in FrameSet, NEW child, WithChild(f.node, child) \in NodeSet
  PROVE  /\ TakeChild(f, child) \in FrameSet
         /\ TakeChild(f, child).type = f.type /\ TakeChild(f, child).name = f.name
         /\ TakeChild(f, child).node = WithChild(f.node, child)
         /\ TakeChild(f, child).next = f.next + 1
<1> DEFINE new == WithChild(f.node, child)
<1>1. \E g \in FrameSet : /\ g = [f EXCEPT !.node = new, !.next = @ + 1]
                          /\ g.type = f.type /\ g.name = f.name
                          /\ g.node = new /\ g.next = f.next + 1
  <2> HIDE DEF new
  <2> QED
    BY FrameAdvances DEF new
<1>2. TakeChild(f, child) = [f EXCEPT !.node = new, !.next = @ + 1]
  BY DEF TakeChild, WithChild
<1> QED
  BY <1>1, <1>2

(* The innermost frame. *)
LEMMA TopFacts ==
  ASSUME Static, StackInv, Reading
  PROVE  /\ Len(stack) \in Nat \ {0} /\ Top = stack[Len(stack)] /\ Top \in FrameSet
         /\ Top.type \in TypeIds /\ Top.name \in STRING /\ Top.next \in Nat
         /\ FrameOK(source, Top)
         /\ Below = <<>> <=> Len(stack) = 1
         /\ Len(stack) = 1 => Top.type = call.type /\ Top.name = call.type
<1>1. stack \in Seq(FrameSet) /\ stack # <<>>
  BY DEF StackInv, StackOK, Reading
<1>2. Len(stack) \in Nat \ {0} /\ Top = stack[Len(stack)] /\ Top \in FrameSet
  BY <1>1, PopFacts DEF Top
<1>3. Top.type \in TypeIds /\ Top.name \in STRING /\ Top.next \in Nat
  BY <1>2 DEF FrameSet
<1>4. FrameOK(source, Top)
  BY <1>2 DEF StackInv, StackOK
<1>5. Below \in Seq(FrameSet) /\ Len(Below) = Len(stack) - 1
  BY <1>1, PopFacts DEF Below
<1>6. Below = <<>> <=> Len(stack) = 1
  BY <1>2, <1>5
<1>7. Len(stack) = 1 => Top.type = call.type /\ Top.name = call.type
  BY <1>1, <1>2 DEF StackInv, StackOK
<1> QED
  BY <1>2, <1>3, <1>4, <1>6, <1>7

(* The frame that waits for the innermost one stands before its field. *)
LEMMA BelowTop ==
  ASSUME Static, StackInv, Reading, Below # <<>>
  PROVE  /\ Below[Len(Below)] \in FrameSet /\ Below[Len(Below)].type \in TypeIds
         /\ FrameOK(source, Below[Len(Below)]) /\ Link(source, Below[Len(Below)], Top)
         /\ StackOK(Below, source, call.type)
<1>1. stack \in Seq(FrameSet) /\ stack # <<>>
  BY DEF StackInv, StackOK, Reading
<1>2. /\ Below \in Seq(FrameSet) /\ Len(Below) = Len(stack) - 1
      /\ \A i \in 1..(Len(stack) - 1) : Below[i] = stack[i]
      /\ Len(stack) \in Nat \ {0}
  BY <1>1, PopFacts DEF Below
<1>3. StackOK(Below, source, call.type)
  BY <1>1, PopFrame DEF Below, StackInv
<1>4. Len(Below) \in 1..(Len(stack) - 1) /\ Len(Below) + 1 = Len(stack)
  BY <1>2
<1>5. Below[Len(Below)] \in FrameSet /\ FrameOK(source, Below[Len(Below)])
  BY <1>2, <1>3, <1>4 DEF StackOK
<1>6. Link(source, Below[Len(Below)], Top)
  BY <1>2, <1>4, TopFacts DEF StackInv, StackOK
<1>7. Below[Len(Below)].type \in TypeIds
  BY <1>5 DEF FrameSet
<1> QED
  BY <1>3, <1>5, <1>6, <1>7

LEMMA NodeAtType ==
  ASSUME NEW p \in Programs, NEW t \in TypeIds, NEW name \in STRING, NEW k \in Nat
  PROVE  NodeAt(p, t, name, k) \in NodeSet
BY DEF NodeSet

(* The innermost frame goes on to its next field. *)
LEMMA ProceedStep ==
  ASSUME Static, StackInv, Reading, Top.next \in 0..Len(Fields(source, Top.type)),
         Proceed(NodeAt(source, Top.type, Top.name, Top.next + 1)),
         UNCHANGED <<source, call>>
  PROVE  StackInv' /\ stack' # <<>>
<1> DEFINE node == NodeAt(source, Top.type, Top.name, Top.next + 1)
<1>1. Top \in FrameSet /\ Top.type \in TypeIds /\ Top.name \in STRING /\ Top.next \in Nat
  BY TopFacts
<1>2. node \in NodeSet
  BY <1>1, NodeAtType DEF Static
<1>3. PICK g \in FrameSet : /\ g = [Top EXCEPT !.node = node, !.next = @ + 1]
                            /\ g.type = Top.type /\ g.name = Top.name
                            /\ g.node = node /\ g.next = Top.next + 1
  <2> HIDE DEF node
  <2> QED
    BY <1>1, <1>2, FrameAdvances
<1>4. Len(Fields(source, Top.type)) \in Nat
  BY <1>1, TreeOf DEF Static
<1>5. FrameOK(source, g)
  BY <1>1, <1>3, <1>4 DEF FrameOK
<1>6. stack' = Append(SubSeq(stack, 1, Len(stack) - 1), g)
  BY <1>3 DEF Proceed, Below
<1>7. StackOK(stack', source, call.type)
  <2>1. stack # <<>> /\ g.type = stack[Len(stack)].type /\ g.name = stack[Len(stack)].name
    BY <1>3 DEF Reading, Top
  <2> QED
    BY <1>5, <1>6, <2>1, ReplaceFrame DEF StackInv
<1>8. stack' # <<>>
  <2>1. SubSeq(stack, 1, Len(stack) - 1) \in Seq(FrameSet)
    BY PopFacts DEF StackInv, StackOK, Reading
  <2> QED
    BY <1>6, <2>1
<1> QED
  BY <1>7, <1>8 DEF StackInv

Rets == {"none", "busy", "good", "bad"}

LEMMA CallGets ==
  ASSUME Static, NEW r \in Rets, call' = [call EXCEPT !.ret = r]
  PROVE  call' \in [type : TypeIds, ret : Rets] /\ call'.type = call.type /\ call'.ret = r
BY DEF Static, Rets

(* The innermost frame is complete: the read ends, or the frame below gets its child. *)
LEMMA ReturnStep ==
  ASSUME Static, StackInv, Reading, Top.next = Len(Fields(source, Top.type)) + 1,
         Return(Top.node), source' = source
  PROVE  /\ StackInv'
         /\ Below = <<>> => stack' = <<>> /\ call' = [call EXCEPT !.ret = "good"]
         /\ Below # <<>> => stack' # <<>> /\ call' = call
<1>1. CASE Below = <<>>
  <2>1. stack' = <<>> /\ call' = [call EXCEPT !.ret = "good"]
    BY <1>1 DEF Return
  <2>2. StackOK(stack', source', call'.type)
    BY <2>1 DEF StackOK
  <2> QED
    BY <1>1, <2>1, <2>2 DEF StackInv
<1>2. CASE Below # <<>>
  <2> DEFINE f == Below[Len(Below)]
             n == Top.node
  <2>1. stack' = [Below EXCEPT ![Len(Below)] = TakeChild(f, n)] /\ call' = call
    BY <1>2 DEF Return
  <2>2. /\ f \in FrameSet /\ f.type \in TypeIds /\ FrameOK(source, f) /\ Link(source, f, Top)
        /\ StackOK(Below, source, call.type)
    BY <1>2, BelowTop
  <2>3. f.next \in DOMAIN Fields(source, f.type) /\ f.next \in Nat /\ f.next # 0
    <3>1. DOMAIN Fields(source, f.type) = 1..Len(Fields(source, f.type))
          /\ Len(Fields(source, f.type)) \in Nat
      BY <2>2, TreeOf DEF Static
    <3> HIDE DEF f
    <3> QED
      BY <2>2, <3>1 DEF Link
  <2>4. f.node = NodeAt(source, f.type, f.name, f.next)
    <3> HIDE DEF f
    <3> QED
      BY <2>2, <2>3 DEF FrameOK
  <2>5. Top.node = ChildTree(source, Fields(source, f.type)[f.next])
    <3>1. /\ Top.type = Fields(source, f.type)[f.next].type
          /\ Top.name = Fields(source, f.type)[f.next].name
      BY <2>2 DEF Link
    <3>2. Top.type \in TypeIds /\ source \in Programs /\ Len(Fields(source, Top.type)) \in Nat
          /\ FrameOK(source, Top)
      BY TopFacts, TreeOf DEF Static
    <3>3. Top.node = NodeAt(source, Top.type, Top.name, Len(Fields(source, Top.type)) + 1)
      BY <3>2 DEF FrameOK
    <3>4. Top.node = Called(Expansion[source][Top.type], Top.name)
      BY <3>2, <3>3, NodeComplete
    <3> HIDE DEF f
    <3> QED
      BY <3>1, <3>2, <3>4 DEF ChildTree
  <2>6. WithChild(f.node, n) = NodeAt(source, f.type, f.name, f.next + 1)
    <3> DEFINE c == ChildTree(source, Fields(source, f.type)[f.next])
               m == NodeAt(source, f.type, f.name, f.next)
    <3>1. WithChild(m, c) = NodeAt(source, f.type, f.name, f.next + 1)
      <4> HIDE DEF f
      <4> QED
        BY <2>2, <2>3, NodeAdvances DEF Static
    <3>2. f.node = m /\ n = c
      BY <2>4, <2>5
    <3> HIDE DEF m, c, n, f
    <3> QED
      BY <3>1, <3>2
  <2>7. f.name \in STRING
    <3> HIDE DEF f
    <3> QED
      BY <2>2 DEF FrameSet
  <2>8. WithChild(f.node, n) \in NodeSet
    <3> HIDE DEF f, n
    <3> QED
      BY <2>2, <2>3, <2>6, <2>7, NodeAtType DEF Static
  <2> DEFINE g == TakeChild(f, n)
  <2>9. /\ g \in FrameSet /\ g.type = f.type /\ g.name = f.name
        /\ g.node = WithChild(f.node, n) /\ g.next = f.next + 1
    <3> HIDE DEF f, n
    <3> QED
      BY <2>2, <2>8, FrameGetsChild
  <2>10. FrameOK(source, g)
    <3>1. Len(Fields(source, f.type)) \in Nat
          /\ DOMAIN Fields(source, f.type) = 1..Len(Fields(source, f.type))
      BY <2>2, TreeOf DEF Static
    <3> HIDE DEF f, n, g
    <3> QED
      BY <2>3, <2>6, <2>9, <3>1 DEF FrameOK
  <2>12. StackOK(stack', source, call.type) /\ stack' # <<>>
    <3>1. g.type = Below[Len(Below)].type /\ g.name = Below[Len(Below)].name
      BY <2>9
    <3>2. stack' = [Below EXCEPT ![Len(Below)] = g]
      BY <2>1
    <3> HIDE DEF f, n, g
    <3> QED
      BY <1>2, <2>2, <2>9, <2>10, <3>1, <3>2, ReplaceFrame
  <2> QED
    BY <1>2, <2>1, <2>12 DEF StackInv
<1> QED
  BY <1>1, <1>2

-----------------------------------------------------------------------------
(* The parts of the invariant                                              *)

(* What is known of types and symDef does not depend on a read that is under way. *)
LEMMA KnownKept ==
  ASSUME KnownInv, UNCHANGED <<prog, reader, types, symDef, origin>>,
         call'.ret = "good" => call' = call /\ (conn' => conn)
  PROVE  KnownInv'
<1>1. CachedTypesAreWhole'
  BY DEF KnownInv, CachedTypesAreWhole
<1>2. SymbolDefIsWhole'
  BY DEF KnownInv, SymbolDefIsWhole
<1>3. ResolvedIsKnown'
  BY DEF KnownInv, ResolvedIsKnown, HasTypeByName
<1>4. Current'
  BY DEF KnownInv, Current
<1> QED
  BY <1>1, <1>2, <1>3, <1>4 DEF KnownInv

(* A step in the middle of a read. *)
LEMMA ReadGoesOn ==
  ASSUME IInv, Reading, StackInv', stack' # <<>>,
         UNCHANGED <<prog, conn, reader, types, symDef, call, source, origin>>
  PROVE  IInv'
<1>1. call'.ret # "good"
  BY DEF IInv, Static
<1>2. KnownInv'
  BY <1>1, KnownKept DEF IInv
<1>3. Static' /\ OneReader'
  BY DEF IInv, Static, OneReader, Reading
<1>4. SameProgram'
  BY DEF IInv, SameProgram, Reading
<1> QED
  BY <1>2, <1>3, <1>4 DEF IInv

(* A read that fails. *)
LEMMA ReadFails ==
  ASSUME IInv, Reading, ReturnError,
         UNCHANGED <<prog, conn, reader, types, symDef, source, origin>>
  PROVE  IInv'
<1>1. call' \in [type : TypeIds, ret : Rets] /\ call'.ret = "bad"
  BY CallGets DEF IInv, ReturnError, Rets
<1>2. KnownInv'
  BY <1>1, KnownKept DEF IInv
<1>3. stack' = <<>>
  BY DEF ReturnError
<1>4. Static'
  BY <1>1, <1>3 DEF IInv, Static, Reading, Rets
<1>5. OneReader' /\ SameProgram'
  BY <1>3 DEF IInv, OneReader, SameProgram, Reading
<1>6. StackInv'
  BY <1>3 DEF StackInv, StackOK
<1> QED
  BY <1>2, <1>4, <1>5, <1>6 DEF IInv

(* A read that begins. *)
LEMMA ReadBegins ==
  ASSUME IInv, NEW t \in TypeIds, BeginRead(t), reader = "cyclic" => t = VarType[prog],
         UNCHANGED <<prog, conn, reader, types, symDef, origin>>
  PROVE  IInv'
<1> DEFINE info == FieldInfo([name |-> t, rank |-> 0, dims |-> <<>>])
           f == Frame(t, t, info)
<1>1. call' = [type |-> t, ret |-> "busy"] /\ source' = prog /\ stack' = <<f>>
  BY DEF BeginRead
<1>2. info \in Infos
  BY DEF Infos
<1>3. f \in FrameSet /\ f.type = t /\ f.name = t /\ f.next = 0
  <2>1. Node(info, <<>>) \in NodeSet
    BY <1>2 DEF NodeSet
  <2>2. t \in STRING
    BY DefinitionsAssumption
  <2> HIDE DEF info, NodeSet
  <2> QED
    BY <2>1, <2>2 DEF Frame, FrameSet
<1>4. FrameOK(prog, f)
  <2>1. Len(Fields(prog, t)) \in Nat
    BY TreeOf DEF IInv, Static
  <2> HIDE DEF f
  <2> QED
    BY <1>3, <2>1 DEF FrameOK
<1> HIDE DEF f, info
<1>5. StackOK(<<>>, prog, t)
  BY DEF StackOK
<1>6. StackOK(Append(<<>>, f), prog, t)
  BY <1>3, <1>4, <1>5, PushFrame
<1>7. Append(<<>>, f) = <<f>>
  OBVIOUS
<1>8. StackInv'
  BY <1>1, <1>6, <1>7 DEF StackInv
<1>9. KnownInv'
  BY <1>1, KnownKept DEF IInv
<1>10. stack' # <<>>
  BY <1>1
<1>11. Static'
  BY <1>1, <1>10 DEF IInv, Static, Reading
<1>12. OneReader' /\ SameProgram'
  BY <1>1 DEF IInv, OneReader, SameProgram, Reading
<1> QED
  BY <1>8, <1>9, <1>11, <1>12 DEF IInv

-----------------------------------------------------------------------------
(* The steps                                                               *)

LEMMA InitStep == TypesInit => IInv
<1> SUFFICES ASSUME TypesInit PROVE IInv
  OBVIOUS
<1>1. Static
  BY DEF TypesInit, Static, Reading
<1>2. StackInv
  BY DEF TypesInit, StackInv, StackOK
<1>3. SameProgram /\ OneReader
  BY DEF TypesInit, SameProgram, OneReader, Reading
<1>4. KnownInv
  BY DEF TypesInit, KnownInv, CachedTypesAreWhole, SymbolDefIsWhole, ResolvedIsKnown, Current
<1> QED
  BY <1>1, <1>2, <1>3, <1>4 DEF IInv

LEMMA DownloadStep ==
  ASSUME IInv, NEW p \in Programs, PlcDownload(p)
  PROVE  IInv'
<1>1. /\ prog' = p /\ ~conn /\ ~conn'
      /\ UNCHANGED <<reader, types, symDef, stack, call, source, origin>>
  BY DEF PlcDownload
<1>2. Static' /\ OneReader'
  BY <1>1 DEF IInv, Static, OneReader, Reading
<1>3. StackInv' /\ SameProgram'
  BY <1>1 DEF IInv, StackInv, SameProgram
<1>4. KnownInv'
  BY <1>1 DEF IInv, KnownInv, CachedTypesAreWhole, SymbolDefIsWhole, ResolvedIsKnown,
              HasTypeByName, Current
<1> QED
  BY <1>2, <1>3, <1>4 DEF IInv

LEMMA ConnectStep ==
  ASSUME IInv, Connect
  PROVE  IInv'
<1>1. /\ call' = [call EXCEPT !.ret = "none"] /\ Idle
      /\ UNCHANGED <<prog, reader, types, symDef, stack, source, origin>>
  BY DEF Connect
<1>2. call' \in [type : TypeIds, ret : Rets] /\ call'.ret = "none" /\ call'.type = call.type
  BY <1>1, CallGets DEF IInv, Rets
<1>3. ~Reading /\ ~Reading'
  BY <1>1 DEF IInv, Static, Idle, Reading
<1>4. Static'
  BY <1>1, <1>2, <1>3 DEF IInv, Static, Rets
<1>5. OneReader' /\ SameProgram'
  BY <1>1, <1>3 DEF IInv, OneReader, SameProgram
<1>6. StackInv'
  BY <1>1, <1>2 DEF IInv, StackInv
<1>7. KnownInv'
  BY <1>1, <1>2, KnownKept DEF IInv
<1> QED
  BY <1>4, <1>5, <1>6, <1>7 DEF IInv

(* Actions that only lose the connection, or enter or leave the cycles. *)
LEMMA QuietStep ==
  ASSUME IInv, conn' => conn,
         UNCHANGED <<prog, reader, types, symDef, stack, call, source, origin>>
  PROVE  IInv'
<1>1. Static' /\ OneReader'
  BY DEF IInv, Static, OneReader, Reading
<1>2. StackInv' /\ SameProgram'
  BY DEF IInv, StackInv, SameProgram, Reading
<1>3. KnownInv'
  BY KnownKept DEF IInv
<1> QED
  BY <1>1, <1>2, <1>3 DEF IInv

LEMMA ResolveStep ==
  ASSUME IInv, NEW t \in TypeIds, Resolve(t)
  PROVE  IInv'
<1>1. reader = "manager" /\ Idle /\ UNCHANGED <<prog, conn, reader, types, symDef, origin>>
  BY DEF Resolve
<1>2. CASE BeginRead(t)
  BY <1>1, <1>2, ReadBegins
<1>3. CASE call' = [type |-> t, ret |-> "bad"] /\ UNCHANGED <<stack, source>>
  <2>1. ~Reading /\ ~Reading' /\ stack = <<>> /\ stack' = <<>>
    BY <1>1, <1>3 DEF IInv, Static, Idle, Reading
  <2>2. Static'
    BY <1>1, <1>3, <2>1 DEF IInv, Static
  <2>3. OneReader' /\ SameProgram'
    BY <1>1, <2>1 DEF IInv, OneReader, SameProgram
  <2>4. StackInv'
    BY <2>1 DEF StackInv, StackOK
  <2>5. KnownInv'
    BY <1>1, <1>3, KnownKept DEF IInv
  <2> QED
    BY <2>2, <2>3, <2>4, <2>5 DEF IInv
<1> QED
  BY <1>2, <1>3 DEF Resolve

LEMMA InitCyclicStep ==
  ASSUME IInv, InitCyclic
  PROVE  IInv'
<1>1. BeginRead(VarType[prog]) /\ UNCHANGED <<prog, conn, reader, types, symDef, origin>>
  BY DEF InitCyclic
<1>2. VarType[prog] \in TypeIds
  BY DefinitionsAssumption DEF IInv, Static
<1> QED
  BY <1>1, <1>2, ReadBegins

(* The cache answers for the outermost type only: no field is named like a type. *)
LEMMA FindKnownStep ==
  ASSUME IInv, FindKnown
  PROVE  IInv'
<1>1. /\ Reading /\ HasTypeByName(Top.name) /\ Return(Top.node) /\ reader = "manager"
      /\ UNCHANGED <<prog, conn, reader, types, symDef, source, origin>>
  BY DEF FindKnown
<1>2. Below = <<>>
  <2> SUFFICES ASSUME Below # <<>> PROVE FALSE
    OBVIOUS
  <2> DEFINE f == Below[Len(Below)]
  <2>1. f.type \in TypeIds /\ Link(source, f, Top)
    BY <1>1, BelowTop DEF IInv
  <2>2. Fields(source, f.type) \in Seq(FieldSet)
    BY <2>1, TreeOf DEF IInv, Static
  <2> HIDE DEF f
  <2>3. Fields(source, f.type)[f.next] \in FieldSet
    BY <2>1, <2>2 DEF Link
  <2>4. Top.name \in FieldNames
    BY <2>1, <2>3 DEF Link, FieldSet
  <2> QED
    BY <1>1, <2>4, DefinitionsAssumption DEF HasTypeByName
<1>3. stack' = <<>> /\ call' = [call EXCEPT !.ret = "good"]
  BY <1>1, <1>2 DEF Return
<1>4. call' \in [type : TypeIds, ret : Rets] /\ call'.ret = "good" /\ call'.type = call.type
  BY <1>3, CallGets DEF IInv, Rets
<1>5. Static'
  BY <1>1, <1>3, <1>4 DEF IInv, Static, Reading, Rets
<1>6. OneReader' /\ SameProgram'
  BY <1>1, <1>3 DEF IInv, OneReader, SameProgram, Reading
<1>7. StackInv'
  BY <1>3 DEF StackInv, StackOK
<1>8. KnownInv'
  <2>1. CachedTypesAreWhole' /\ SymbolDefIsWhole'
    BY <1>1 DEF IInv, KnownInv, CachedTypesAreWhole, SymbolDefIsWhole
  <2>2. call.type = Top.name
    BY <1>1, <1>2, TopFacts DEF IInv
  <2>3. ResolvedIsKnown'
    BY <1>1, <1>4, <2>2 DEF ResolvedIsKnown, HasTypeByName
  <2>4. Current'
    BY <1>1 DEF Current
  <2> QED
    BY <2>1, <2>3, <2>4 DEF KnownInv
<1> QED
  BY <1>5, <1>6, <1>7, <1>8 DEF IInv

LEMMA ReadDefinitionStep ==
  ASSUME IInv, ReadDefinition
  PROVE  IInv'
<1>1. /\ Reading /\ Top.next = 0
      /\ UNCHANGED <<prog, conn, reader, types, symDef, source, origin>>
  BY DEF ReadDefinition
<1>2. CASE ReturnError
  BY <1>1, <1>2, ReadFails
<1>3. CASE /\ conn /\ Proceed(Node(StructInfo(Definition[prog][Top.type], Top.name), <<>>))
           /\ UNCHANGED call
  <2>1. prog = source
    BY <1>1, <1>3 DEF IInv, SameProgram
  <2>2. Node(StructInfo(Definition[prog][Top.type], Top.name), <<>>)
          = NodeAt(source, Top.type, Top.name, Top.next + 1)
    <3>1. Prefix(Children(source, Top.type), 0) = <<>>
      BY PrefixFacts
    <3>2. NodeAt(source, Top.type, Top.name, 1)
            = Node(StructInfo(Definition[source][Top.type], Top.name),
                   Prefix(Children(source, Top.type), 1 - 1))
      BY Zenon DEF NodeAt
    <3>3. Top.next + 1 = 1 /\ 1 - 1 = 0
      BY <1>1
    <3> QED
      BY <2>1, <3>1, <3>2, <3>3
  <2>3. Top.next \in 0..Len(Fields(source, Top.type))
    BY <1>1, TopFacts, TreeOf DEF IInv, Static
  <2>4. StackInv' /\ stack' # <<>>
    BY <1>1, <1>3, <2>2, <2>3, ProceedStep DEF IInv
  <2> QED
    BY <1>1, <1>3, <2>4, ReadGoesOn
<1> QED
  BY <1>2, <1>3 DEF ReadDefinition

(* At a field of the innermost structure. *)
LEMMA FieldFacts ==
  ASSUME IInv, AtField
  PROVE  /\ Reading /\ Top.type \in TypeIds /\ Top.next \in DOMAIN Fields(source, Top.type)
         /\ Top.next \in 1..Len(Fields(source, Top.type)) /\ Field \in FieldSet
         /\ Top.node = NodeAt(source, Top.type, Top.name, Top.next)
<1>1. Reading /\ Top.next \in DOMAIN Fields(source, Top.type)
  BY DEF AtField
<1>2. Top.type \in TypeIds /\ FrameOK(source, Top)
  BY <1>1, TopFacts DEF IInv
<1>3. /\ Fields(source, Top.type) \in Seq(FieldSet)
      /\ DOMAIN Fields(source, Top.type) = 1..Len(Fields(source, Top.type))
      /\ Len(Fields(source, Top.type)) \in Nat
  BY <1>2, TreeOf DEF IInv, Static
<1>4. Field \in FieldSet
  BY <1>1, <1>3 DEF Field
<1>5. Top.next # 0
  BY <1>1, <1>3
<1> QED
  BY <1>1, <1>2, <1>3, <1>4, <1>5 DEF FrameOK

LEMMA AddChildStep ==
  ASSUME IInv, AddChild
  PROVE  IInv'
<1> DEFINE child == Node(PrimInfo(Field), <<>>)
<1>1. /\ AtField /\ Field.type \in DOMAIN PrimType
      /\ Proceed([Top.node EXCEPT !.children = Append(@, child)])
      /\ UNCHANGED <<prog, conn, reader, types, symDef, call, source, origin>>
  BY DEF AddChild
<1>2. /\ Reading /\ Top.type \in TypeIds /\ Top.next \in DOMAIN Fields(source, Top.type)
      /\ Top.next \in 1..Len(Fields(source, Top.type))
      /\ Top.node = NodeAt(source, Top.type, Top.name, Top.next)
  BY <1>1, FieldFacts
<1>3. ChildTree(source, Field) = child
  BY <1>1, DefinitionsAssumption DEF ChildTree
<1>4. WithChild(Top.node, child) = NodeAt(source, Top.type, Top.name, Top.next + 1)
  <2> DEFINE c == ChildTree(source, Fields(source, Top.type)[Top.next])
             m == NodeAt(source, Top.type, Top.name, Top.next)
  <2>1. WithChild(m, c) = NodeAt(source, Top.type, Top.name, Top.next + 1)
    BY <1>2, NodeAdvances DEF IInv, Static
  <2>2. c = child
    BY <1>3 DEF Field
  <2> HIDE DEF m, c, child
  <2> QED
    BY <1>2, <2>1, <2>2 DEF m
<1>5. Proceed(NodeAt(source, Top.type, Top.name, Top.next + 1))
  BY <1>1, <1>4 DEF WithChild
<1> HIDE DEF child
<1>6. Top.next \in 0..Len(Fields(source, Top.type))
  BY <1>2
<1>7. StackInv' /\ stack' # <<>>
  BY <1>1, <1>2, <1>5, <1>6, ProceedStep DEF IInv
<1> QED
  BY <1>1, <1>2, <1>7, ReadGoesOn

LEMMA RecurseStep ==
  ASSUME IInv, Recurse
  PROVE  IInv'
<1> DEFINE info == FieldInfo(Field)
           f == Frame(Field.type, Field.name, info)
<1>1. /\ AtField /\ Field.type \in TypeIds /\ stack' = Append(stack, f)
      /\ UNCHANGED <<prog, conn, reader, types, symDef, call, source, origin>>
  BY DEF Recurse
<1>2. /\ Reading /\ Top.type \in TypeIds /\ Top.next \in DOMAIN Fields(source, Top.type)
      /\ Field \in FieldSet
  BY <1>1, FieldFacts
<1>3. f \in FrameSet /\ f.type = Field.type /\ f.name = Field.name /\ f.next = 0
  <2>1. Node(info, <<>>) \in NodeSet
    BY <1>2 DEF NodeSet, Infos
  <2>2. Field.name \in STRING
    BY <1>2, DefinitionsAssumption DEF FieldSet
  <2> HIDE DEF info, NodeSet
  <2> QED
    BY <1>1, <2>1, <2>2 DEF Frame, FrameSet
<1>4. FrameOK(source, f)
  <2>1. Len(Fields(source, Field.type)) \in Nat
    BY <1>1, TreeOf DEF IInv, Static
  <2> HIDE DEF f
  <2> QED
    BY <1>3, <2>1 DEF FrameOK
<1>5. Link(source, stack[Len(stack)], f)
  <2> HIDE DEF f
  <2> QED
    BY <1>2, <1>3 DEF Link, Field, Top
<1> HIDE DEF f, info
<1>6. StackOK(Append(stack, f), source, call.type)
  <2>1. stack # <<>>
    BY <1>2 DEF Reading
  <2> QED
    BY <1>3, <1>4, <1>5, <2>1, PushFrame DEF IInv, StackInv
<1>7. StackInv' /\ stack' # <<>>
  <2>1. stack \in Seq(FrameSet)
    BY DEF IInv, StackInv, StackOK
  <2>2. Append(stack, f) # <<>>
    <3>1. Len(Append(stack, f)) = Len(stack) + 1 /\ Len(stack) \in Nat
      <4> HIDE DEF FrameSet
      <4> QED
        BY <1>3, <2>1
    <3> QED
      BY <3>1
  <2> QED
    BY <1>1, <1>6, <2>2 DEF StackInv
<1> QED
  BY <1>1, <1>2, <1>7, ReadGoesOn

LEMMA RejectFieldStep ==
  ASSUME IInv, RejectField
  PROVE  IInv'
BY ReadFails DEF RejectField, AtField

(* A structure whose fields have all been read is the tree of its type. *)
LEMMA EndFacts ==
  ASSUME IInv, AtEnd
  PROVE  /\ Reading /\ Top.type \in TypeIds /\ Top.next = Len(Fields(source, Top.type)) + 1
         /\ Top.node = Called(Expansion[source][Top.type], Top.name)
         /\ Top.node.item.name = Top.name
         /\ Below = <<>> => /\ call.type = Top.type /\ Top.node = Expansion[source][Top.type]
                            /\ Top.node # NoType
<1>1. Reading /\ Top.next = Len(Fields(source, Top.type)) + 1
  BY DEF AtEnd
<1>2. /\ Top.type \in TypeIds /\ FrameOK(source, Top)
      /\ Below = <<>> => Top.type = call.type /\ Top.name = call.type
  BY <1>1, TopFacts DEF IInv
<1>3. Len(Fields(source, Top.type)) \in Nat /\ source \in Programs /\ Expansion[source][Top.type] # NoType
  BY <1>2, TreeOf DEF IInv, Static
<1>4. Top.node = NodeAt(source, Top.type, Top.name, Len(Fields(source, Top.type)) + 1)
  BY <1>1, <1>2, <1>3 DEF FrameOK
<1>5. Top.node = Called(Expansion[source][Top.type], Top.name) /\ Top.node.item.name = Top.name
  BY <1>2, <1>3, <1>4, NodeComplete
<1>6. Below = <<>> => Top.node = Expansion[source][Top.type]
  <2>1. NodeAt(source, Top.type, Top.type, Len(Fields(source, Top.type)) + 1) = Expansion[source][Top.type]
    BY <1>2, <1>3, NodeComplete
  <2> QED
    BY <1>2, <1>4, <2>1
<1> QED
  BY <1>1, <1>2, <1>3, <1>5, <1>6

(* After a return the parts that speak of the stack hold again. *)
LEMMA ReadReturns ==
  ASSUME IInv, AtEnd, Return(Top.node), UNCHANGED <<prog, conn, reader, source>>,
         types' = [t \in TypeIds |-> types'[t]], origin' = [t \in TypeIds |-> origin'[t]]
  PROVE  /\ Static' /\ StackInv' /\ SameProgram'
         /\ call'.ret = "good" => Below = <<>> /\ call'.type = call.type
<1>1. Reading /\ Top.next = Len(Fields(source, Top.type)) + 1
  BY DEF AtEnd
<1>2. /\ StackInv'
      /\ Below = <<>> => stack' = <<>> /\ call' = [call EXCEPT !.ret = "good"]
      /\ Below # <<>> => stack' # <<>> /\ call' = call
  BY <1>1, ReturnStep DEF IInv
<1>3. call.ret = "busy"
  BY <1>1 DEF IInv, Static
<1>4. CASE Below = <<>>
  <2>1. call' \in [type : TypeIds, ret : Rets] /\ call'.ret = "good" /\ call'.type = call.type
    BY <1>2, <1>4, CallGets DEF IInv, Rets
  <2>2. Static'
    BY <1>2, <1>4, <2>1 DEF IInv, Static, Reading, Rets
  <2>3. SameProgram'
    BY <1>2, <1>4 DEF SameProgram, Reading
  <2> QED
    BY <1>2, <1>4, <2>1, <2>2, <2>3
<1>5. CASE Below # <<>>
  <2>1. Static'
    BY <1>2, <1>3, <1>5 DEF IInv, Static, Reading
  <2>2. SameProgram'
    BY <1>1, <1>2, <1>5 DEF IInv, SameProgram, Reading
  <2> QED
    BY <1>2, <1>3, <1>5, <2>1, <2>2
<1> QED
  BY <1>4, <1>5

LEMMA AddStep ==
  ASSUME IInv, Add
  PROVE  IInv'
<1> DEFINE t == Top.type
<1>1. /\ AtEnd /\ reader = "manager" /\ Return(Top.node)
      /\ types' = [types EXCEPT ![Top.type] = Top.node]
      /\ origin' = [origin EXCEPT ![Top.type] = source]
      /\ UNCHANGED <<prog, conn, reader, symDef, source>>
  BY DEF Add
<1>2. /\ t \in TypeIds /\ Top.node = Called(Expansion[source][t], Top.name)
      /\ Top.node.item.name = Top.name
      /\ Below = <<>> => call.type = t /\ Top.node # NoType
  BY <1>1, EndFacts
<1> HIDE DEF t
<1>3. /\ types = [u \in TypeIds |-> types[u]] /\ origin = [u \in TypeIds |-> origin[u]]
      /\ types' = [types EXCEPT ![t] = Top.node] /\ origin' = [origin EXCEPT ![t] = source]
  BY <1>1 DEF IInv, Static, t
<1>4. /\ types' = [u \in TypeIds |-> types'[u]] /\ origin' = [u \in TypeIds |-> origin'[u]]
      /\ types'[t] = Top.node /\ origin'[t] = source
      /\ \A u \in TypeIds \ {t} : types'[u] = types[u] /\ origin'[u] = origin[u]
  BY <1>2, <1>3
<1>5. /\ Static' /\ StackInv' /\ SameProgram'
      /\ call'.ret = "good" => Below = <<>> /\ call'.type = call.type
  BY <1>1, <1>4, ReadReturns
<1>6. OneReader'
  BY <1>1 DEF IInv, OneReader
<1>7. CachedTypesAreWhole'
  <2> SUFFICES ASSUME NEW u \in TypeIds, types'[u] # NoType
               PROVE  /\ origin'[u] \in Programs
                      /\ types'[u] = Called(Expansion[origin'[u]][u], types'[u].item.name)
    BY DEF CachedTypesAreWhole
  <2>1. CASE u = t
    BY <1>2, <1>4, <2>1 DEF IInv, Static
  <2>2. CASE u # t
    BY <1>4, <2>2 DEF IInv, KnownInv, CachedTypesAreWhole
  <2> QED
    BY <2>1, <2>2
<1>8. SymbolDefIsWhole'
  BY <1>1 DEF IInv, OneReader, SymbolDefIsWhole
<1>9. ResolvedIsKnown'
  BY <1>2, <1>4, <1>5 DEF ResolvedIsKnown, HasTypeByName
<1>10. Current'
  BY <1>1 DEF Current
<1> QED
  BY <1>5, <1>6, <1>7, <1>8, <1>9, <1>10 DEF IInv, KnownInv

LEMMA AssignSymbolDefStep ==
  ASSUME IInv, AssignSymbolDef
  PROVE  IInv'
<1> DEFINE t == Top.type
           new == [u \in TypeIds |-> IF u = Top.type THEN source ELSE NoOrigin]
<1>1. /\ AtEnd /\ reader = "cyclic" /\ Return(Top.node)
      /\ Below = <<>> => symDef' = Top.node /\ origin' = new
      /\ Below # <<>> => symDef' = symDef /\ origin' = origin
      /\ UNCHANGED <<prog, conn, reader, types, source>>
  BY DEF AssignSymbolDef
<1>2. /\ Reading /\ t \in TypeIds
      /\ Below = <<>> => call.type = t /\ Top.node = Expansion[source][t] /\ Top.node # NoType
  BY <1>1, EndFacts
<1>3. new = [u \in TypeIds |-> new[u]] /\ new[t] = source
  BY <1>2
<1> HIDE DEF new
<1>4. origin' = [u \in TypeIds |-> origin'[u]] /\ types' = [u \in TypeIds |-> types'[u]]
  <2>1. CASE Below = <<>>
    BY <1>1, <1>3, <2>1 DEF IInv, Static
  <2>2. CASE Below # <<>>
    BY <1>1, <2>2 DEF IInv, Static
  <2> QED
    BY <2>1, <2>2
<1> HIDE DEF t
<1>5. /\ Static' /\ StackInv' /\ SameProgram'
      /\ call'.ret = "good" => Below = <<>> /\ call'.type = call.type
  BY <1>1, <1>4, ReadReturns
<1>6. OneReader'
  BY <1>1 DEF IInv, OneReader
<1>7. CachedTypesAreWhole' /\ ResolvedIsKnown'
  BY <1>1 DEF IInv, OneReader, CachedTypesAreWhole, ResolvedIsKnown
<1>8. SymbolDefIsWhole'
  <2>1. CASE Below = <<>>
    <3>1. origin'[t] \in Programs /\ symDef' = Expansion[origin'[t]][t]
      BY <1>1, <1>2, <1>3, <2>1 DEF IInv, Static
    <3> QED
      BY <1>2, <3>1 DEF SymbolDefIsWhole
  <2>2. CASE Below # <<>>
    BY <1>1, <2>2 DEF IInv, KnownInv, SymbolDefIsWhole
  <2> QED
    BY <2>1, <2>2
<1>9. Current'
  <2> SUFFICES ASSUME conn, call'.ret = "good"
               PROVE  symDef' = Expansion[prog][VarType[prog]]
    BY <1>1 DEF Current
  <2>1. Below = <<>> /\ symDef' = Expansion[source][call.type]
    BY <1>1, <1>2, <1>5
  <2>2. prog = source /\ call.type = VarType[prog]
    BY <1>1, <1>2 DEF IInv, SameProgram
  <2> QED
    BY <2>1, <2>2
<1> QED
  BY <1>5, <1>6, <1>7, <1>8, <1>9 DEF IInv, KnownInv

LEMMA TypesStepKeeps ==
  ASSUME IInv, [TypesNext]_typeVars
  PROVE  IInv'
<1>1. CASE UNCHANGED typeVars
  BY <1>1, QuietStep DEF typeVars
<1>2. ASSUME NEW p \in Programs, PlcDownload(p)
      PROVE  IInv'
  BY <1>2, DownloadStep
<1>3. ASSUME NEW t \in TypeIds, Resolve(t)
      PROVE  IInv'
  BY <1>3, ResolveStep
<1>4. CASE Connect
  BY <1>4, ConnectStep
<1>5. CASE LoseConnection
  BY <1>5, QuietStep DEF LoseConnection
<1>6. CASE InitCyclic
  BY <1>6, InitCyclicStep
<1>7. CASE EnterCyclic \/ LeaveCyclic
  BY <1>7, QuietStep DEF EnterCyclic, LeaveCyclic
<1>8. CASE ReadStep
  BY <1>8, FindKnownStep, ReadDefinitionStep, AddChildStep, RecurseStep, RejectFieldStep,
     AddStep, AssignSymbolDefStep DEF ReadStep
<1> QED
  BY <1>1, <1>2, <1>3, <1>4, <1>5, <1>6, <1>7, <1>8 DEF TypesNext

-----------------------------------------------------------------------------
(* The theorems                                                            *)

(* The inductive invariant: frames hold prefixes of trees of the program the read began
   under, and what is kept of earlier reads is whole. *)
THEOREM Invariance == TypesSpec => []IInv
<1>1. TypesInit => IInv
  BY InitStep
<1>2. IInv /\ [TypesNext]_typeVars => IInv'
  BY TypesStepKeeps
<1> QED
  BY <1>1, <1>2, PTL DEF TypesSpec

(* A type in the cache is the tree of one program (CachedTypesAreWhole). *)
THEOREM CacheWhole == TypesSpec => []CachedTypesAreWhole
<1>1. IInv => CachedTypesAreWhole
  BY DEF IInv, KnownInv
<1> QED
  BY <1>1, Invariance, PTL

(* So is SymbolDef, whatever reads failed (SymbolDefIsWhole). *)
THEOREM SymbolWhole == TypesSpec => []SymbolDefIsWhole
<1>1. IInv => SymbolDefIsWhole
  BY DEF IInv, KnownInv
<1> QED
  BY <1>1, Invariance, PTL

(* A resolve that returned GOOD left a type to decode with (ResolvedIsKnown). *)
THEOREM ResolvedKnown == TypesSpec => []ResolvedIsKnown
<1>1. IInv => ResolvedIsKnown
  BY DEF IInv, KnownInv
<1> QED
  BY <1>1, Invariance, PTL

(* SymbolDef is the one of the variable exchanged, once it was read (SymbolDefIsCurrent). *)
THEOREM SymbolCurrent == TypesSpec => []SymbolDefIsCurrent
<1>1. IInv => SymbolDefIsCurrent
  BY DEF IInv, KnownInv, Current, SymbolDefIsCurrent
<1> QED
  BY <1>1, Invariance, PTL
=============================================================================
