--------------------------- MODULE NodeTree_proofs ---------------------------
(***************************************************************************)
(* The references of an address space come in pairs, and a path of names   *)
(* finds what the walks along it reach, for any number of nodes and names. *)
(***************************************************************************)
EXTENDS NodeTree, FiniteSetTheorems, WellFoundedInduction, TLAPS

Halves == [at : AllIds, other : AllIds, type : {"Organizes", "HasTypeDefinition"},
           inverse : BOOLEAN]
NodeSet == [class : Classes \cup {"type"}, name : Names \cup {"Root", "Type"}]

(* A set of halves closed under the opposite half. *)
Paired(set) == \A h \in set : Opposite(h) \in set

NodesInv ==
  /\ nodes \in [AllIds -> NodeSet \cup {Absent}]
  /\ Known(Root) /\ Known(TypeNode)

RefsInv ==
  /\ refs \subseteq Halves /\ IsFiniteSet(refs)
  /\ Cardinality(refs) <= MaxRefs
  /\ \A h \in refs : Known(h.at)

PairsInv == oneSided \in BOOLEAN /\ (~oneSided => Paired(refs))

IInv == NodesInv /\ RefsInv /\ PairsInv

-----------------------------------------------------------------------------
(* Halves of references                                                    *)

LEMMA OppositeFacts ==
  ASSUME NEW h \in Halves
  PROVE  /\ Opposite(h) \in Halves /\ Opposite(Opposite(h)) = h
         /\ Opposite(h).at = h.other /\ Opposite(h).other = h.at
BY DEF Opposite, Half, Halves

LEMMA ReferenceFacts ==
  ASSUME NEW s \in AllIds, NEW t \in AllIds, NEW type \in {"Organizes", "HasTypeDefinition"}
  PROVE  /\ Reference(s, t, type) \subseteq Halves
         /\ IsFiniteSet(Reference(s, t, type))
         /\ Paired(Reference(s, t, type))
         /\ \A h \in Reference(s, t, type) : h.at \in {s, t}
<1> DEFINE f == Half(s, t, type, FALSE)
           i == Half(t, s, type, TRUE)
<1>1. f \in Halves /\ i \in Halves /\ f.at = s /\ i.at = t
  BY DEF Half, Halves
<1>2. Opposite(f) = i /\ Opposite(i) = f
  BY DEF Half, Opposite
<1>3. Reference(s, t, type) = {f, i}
  BY DEF Reference
<1> HIDE DEF f, i
<1>4. IsFiniteSet({f, i})
  <2>1. IsFiniteSet({f}) /\ IsFiniteSet({i}) /\ {f, i} = {f} \cup {i}
    BY FS_Singleton
  <2> QED
    BY <2>1, FS_Union
<1> QED
  BY <1>1, <1>2, <1>3, <1>4 DEF Paired

(* Removing from a closed set a closed set leaves a closed set. *)
LEMMA PairedDifference ==
  ASSUME NEW R \in SUBSET Halves, NEW D \in SUBSET Halves, Paired(R), Paired(D)
  PROVE  Paired(R \ D)
<1> SUFFICES ASSUME NEW h \in R, h \notin D
             PROVE  Opposite(h) \in R /\ Opposite(h) \notin D
  BY DEF Paired
<1>1. Opposite(h) \in R
  BY DEF Paired
<1>2. Opposite(Opposite(h)) = h
  BY OppositeFacts
<1> QED
  BY <1>1, <1>2 DEF Paired

LEMMA SubsetFinite ==
  ASSUME NEW R, NEW new \in SUBSET R, IsFiniteSet(R), Cardinality(R) <= MaxRefs
  PROVE  IsFiniteSet(new) /\ Cardinality(new) <= MaxRefs
<1>1. IsFiniteSet(new) /\ Cardinality(new) <= Cardinality(R)
  BY FS_Subset
<1>2. Cardinality(new) \in Nat /\ Cardinality(R) \in Nat
  BY <1>1, FS_CardinalityType
<1> QED
  BY <1>1, <1>2, NodeTreeAssumption

-----------------------------------------------------------------------------
(* The steps                                                               *)

LEMMA InitStep == Init => IInv
<1> SUFFICES ASSUME Init PROVE IInv
  OBVIOUS
<1>1. Node("object", "Root") \in NodeSet /\ Node("type", "Type") \in NodeSet /\ Absent \notin NodeSet
  BY NodeTreeAssumption DEF Node, NodeSet, Classes
<1>2. /\ nodes \in [AllIds -> NodeSet \cup {Absent}]
      /\ nodes[Root] = Node("object", "Root") /\ nodes[TypeNode] = Node("type", "Type")
  <2>1. Root \in AllIds /\ TypeNode \in AllIds /\ Root # TypeNode
    BY NodeTreeAssumption DEF AllIds
  <2> HIDE DEF AllIds
  <2> QED
    BY <1>1, <2>1 DEF Init
<1>3. NodesInv
  BY <1>1, <1>2 DEF NodesInv, Known
<1>4. RefsInv
  BY FS_EmptySet, NodeTreeAssumption DEF Init, RefsInv
<1>5. PairsInv
  BY DEF Init, PairsInv, Paired
<1> QED
  BY <1>3, <1>4, <1>5 DEF IInv

(* A change of one node that is not the root or a type. *)
LEMMA NodeChanged ==
  ASSUME NodesInv, NEW n \in Ids, NEW v \in NodeSet \cup {Absent},
         nodes' = [nodes EXCEPT ![n] = v]
  PROVE  NodesInv' /\ nodes'[n] = v /\ \A k \in AllIds \ {n} : nodes'[k] = nodes[k]
<1>1. n \in AllIds /\ n # Root /\ n # TypeNode /\ Root \in AllIds /\ TypeNode \in AllIds
  BY NodeTreeAssumption DEF AllIds
<1> HIDE DEF AllIds
<1>2. nodes'[n] = v /\ \A k \in AllIds \ {n} : nodes'[k] = nodes[k]
  BY <1>1 DEF NodesInv
<1>3. nodes' \in [AllIds -> NodeSet \cup {Absent}]
  BY DEF NodesInv
<1> QED
  BY <1>1, <1>2, <1>3 DEF NodesInv, Known

LEMMA AddNodeStep ==
  ASSUME IInv, NEW parent \in Ids \cup {Root}, NEW n \in Ids, NEW class \in Classes,
         NEW name \in Names, AddNode(parent, n, class, name)
  PROVE  IInv'
<1> DEFINE a == Reference(parent, n, "Organizes")
           b == TypeOf(n, class)
<1>1. parent \in AllIds /\ n \in AllIds /\ TypeNode \in AllIds
  BY DEF AllIds
<1>2. Node(class, name) \in NodeSet /\ Node(class, name) # Absent
  BY NodeTreeAssumption DEF Node, NodeSet
<1>3. /\ NodesInv' /\ nodes'[n] # Absent /\ \A k \in AllIds \ {n} : nodes'[k] = nodes[k]
  BY <1>2, NodeChanged DEF AddNode, IInv
<1>4. \A k \in AllIds : Known(k) => Known(k)'
  BY <1>3 DEF Known
<1>5. refs' = refs \cup a \cup b /\ Cardinality(refs') <= MaxRefs /\ oneSided' = oneSided
  BY DEF AddNode, SetRefs
<1>6. /\ a \subseteq Halves /\ IsFiniteSet(a) /\ Paired(a) /\ \A h \in a : h.at \in {parent, n}
  BY <1>1, ReferenceFacts
<1>7. /\ b \subseteq Halves /\ IsFiniteSet(b) /\ Paired(b) /\ \A h \in b : h.at \in {n, TypeNode}
  BY <1>1, ReferenceFacts, FS_EmptySet DEF Paired, TypeOf
<1> HIDE DEF a, b
<1>8. Known(parent)' /\ Known(n)' /\ Known(TypeNode)'
  <2>1. Known(parent) /\ Known(TypeNode)
    BY DEF AddNode, IInv, NodesInv
  <2> QED
    BY <1>1, <1>3, <1>4, <2>1 DEF Known
<1>9. RefsInv'
  <2>1. IsFiniteSet(refs \cup a \cup b)
    BY <1>6, <1>7, FS_Union DEF IInv, RefsInv
  <2>2. \A h \in refs' : Known(h.at)'
    <3> TAKE h \in refs'
    <3>1. CASE h \in refs
      BY <1>4, <3>1 DEF IInv, RefsInv, Halves
    <3>2. CASE h \in a
      BY <1>6, <1>8, <3>2
    <3>3. CASE h \in b
      BY <1>7, <1>8, <3>3
    <3> QED
      BY <1>5, <3>1, <3>2, <3>3
  <2> QED
    BY <1>5, <1>6, <1>7, <2>1, <2>2 DEF IInv, RefsInv
<1>10. PairsInv'
  BY <1>5, <1>6, <1>7 DEF IInv, PairsInv, Paired
<1> QED
  BY <1>3, <1>9, <1>10 DEF IInv

LEMMA DeleteNodeStep ==
  ASSUME IInv, NEW n \in Ids, NEW deleteReferences \in BOOLEAN, DeleteNode(n, deleteReferences)
  PROVE  IInv'
<1>1. /\ nodes' = [nodes EXCEPT ![n] = Absent]
      /\ refs' = {h \in refs : h.at # n /\ ~(deleteReferences /\ h.other = n)}
      /\ oneSided' = (oneSided \/ ~deleteReferences)
  BY DEF DeleteNode
<1>2. NodesInv' /\ \A k \in AllIds \ {n} : nodes'[k] = nodes[k]
  BY <1>1, NodeChanged DEF IInv
<1>3. RefsInv'
  <2>1. refs' \subseteq refs /\ refs' \subseteq Halves
    BY <1>1 DEF IInv, RefsInv
  <2>2. IsFiniteSet(refs') /\ Cardinality(refs') <= MaxRefs
    BY <2>1, SubsetFinite DEF IInv, RefsInv
  <2>3. \A h \in refs' : Known(h.at)'
    <3> TAKE h \in refs'
    <3>1. h.at \in AllIds \ {n} /\ Known(h.at)
      BY <1>1, <2>1 DEF IInv, RefsInv, Halves
    <3> QED
      BY <1>2, <3>1 DEF Known
  <2> QED
    BY <2>1, <2>2, <2>3 DEF RefsInv
<1>4. PairsInv'
  <2>1. oneSided \in BOOLEAN
    BY DEF IInv, PairsInv
  <2>2. CASE oneSided \/ ~deleteReferences
    <3>1. oneSided' = TRUE
      BY <1>1, <2>2, Zenon
    <3> QED
      BY <3>1 DEF PairsInv
  <2>3. CASE ~oneSided /\ deleteReferences
    <3>1. Paired(refs) /\ refs \subseteq Halves
      BY <2>3 DEF IInv, PairsInv, RefsInv
    <3>2. refs' = {h \in refs : h.at # n /\ h.other # n}
      BY <1>1, <2>3
    <3>3. Paired(refs')
      BY <3>1, <3>2, OppositeFacts DEF Paired
    <3>4. oneSided' \in BOOLEAN
      BY <1>1, Zenon
    <3> QED
      BY <3>3, <3>4, Zenon DEF PairsInv
  <2> QED
    BY <2>1, <2>2, <2>3
<1> QED
  BY <1>2, <1>3, <1>4 DEF IInv

(* Both halves of the references a node organizes, or is organized by. *)
LEMMA OrganizesFacts ==
  ASSUME NEW n \in AllIds, NEW t \in AllIds, NEW isForward \in BOOLEAN
  PROVE  /\ Organizes(n, t, isForward) \subseteq Halves
         /\ IsFiniteSet(Organizes(n, t, isForward))
         /\ Paired(Organizes(n, t, isForward))
         /\ \A h \in Organizes(n, t, isForward) : h.at \in {n, t}
<1>1. CASE isForward
  BY <1>1, ReferenceFacts DEF Organizes
<1>2. CASE ~isForward
  BY <1>2, ReferenceFacts DEF Organizes
<1> QED
  BY <1>1, <1>2

LEMMA AddReferenceStep ==
  ASSUME IInv, NEW n \in Ids, NEW target \in Ids \cup {Root}, NEW isForward \in BOOLEAN,
         AddReference(n, target, isForward)
  PROVE  IInv'
<1> DEFINE a == Organizes(n, target, isForward)
<1>1. n \in AllIds /\ target \in AllIds /\ Known(n) /\ Known(target)
  BY DEF AllIds, AddReference
<1>2. /\ refs' = refs \cup a /\ Cardinality(refs') <= MaxRefs
      /\ nodes' = nodes /\ oneSided' = oneSided
  BY DEF AddReference, SetRefs
<1>3. a \subseteq Halves /\ IsFiniteSet(a) /\ Paired(a) /\ \A h \in a : h.at \in {n, target}
  BY <1>1, OrganizesFacts
<1> HIDE DEF a
<1>4. NodesInv'
  BY <1>2 DEF IInv, NodesInv, Known
<1>5. RefsInv'
  <2>1. IsFiniteSet(refs \cup a)
    BY <1>3, FS_Union DEF IInv, RefsInv
  <2> QED
    BY <1>1, <1>2, <1>3, <2>1 DEF IInv, RefsInv, Known
<1>6. PairsInv'
  BY <1>2, <1>3 DEF IInv, PairsInv, Paired
<1> QED
  BY <1>4, <1>5, <1>6 DEF IInv

LEMMA DeleteReferenceStep ==
  ASSUME IInv, NEW n \in Ids, NEW target \in Ids \cup {Root}, NEW isForward \in BOOLEAN,
         NEW class \in {"unspecified", "object"}, DeleteReference(n, target, isForward, class)
  PROVE  IInv'
<1> DEFINE a == Organizes(n, target, isForward)
           d == {h \in a : class # "unspecified" \/ h.at = n}
<1>1. n \in AllIds /\ target \in AllIds
  BY DEF AllIds
<1>2. /\ refs' = refs \ d /\ nodes' = nodes
      /\ oneSided' = (oneSided \/ class = "unspecified")
  BY DEF DeleteReference
<1>3. a \subseteq Halves /\ Paired(a)
  BY <1>1, OrganizesFacts
<1> HIDE DEF a
<1>4. NodesInv'
  BY <1>2 DEF IInv, NodesInv, Known
<1>5. RefsInv'
  <2>1. refs' \subseteq refs /\ refs' \subseteq Halves
    BY <1>2 DEF IInv, RefsInv
  <2>2. IsFiniteSet(refs') /\ Cardinality(refs') <= MaxRefs
    BY <2>1, SubsetFinite DEF IInv, RefsInv
  <2> QED
    BY <1>2, <2>1, <2>2 DEF IInv, RefsInv, Known
<1>6. PairsInv'
  <2>1. oneSided \in BOOLEAN
    BY DEF IInv, PairsInv
  <2>2. CASE oneSided \/ class = "unspecified"
    <3>1. oneSided' = TRUE
      BY <1>2, <2>2, Zenon
    <3> QED
      BY <3>1 DEF PairsInv
  <2>3. CASE ~oneSided /\ class # "unspecified"
    <3>1. Paired(refs) /\ refs \subseteq Halves
      BY <2>3 DEF IInv, PairsInv, RefsInv
    <3>2. d = a
      BY <2>3
    <3>3. Paired(refs')
      BY <1>2, <1>3, <3>1, <3>2, PairedDifference
    <3>4. oneSided' \in BOOLEAN
      BY <1>2, Zenon
    <3> QED
      BY <3>3, <3>4, Zenon DEF PairsInv
  <2> QED
    BY <2>1, <2>2, <2>3
<1> QED
  BY <1>4, <1>5, <1>6 DEF IInv

-----------------------------------------------------------------------------
(* The theorems                                                            *)

(* The inductive invariant: halves lie at nodes that exist and, until a reference may
   have lost one, come with the opposite half. *)
THEOREM Invariance == Spec => []IInv
<1>1. Init => IInv
  BY InitStep
<1>2. IInv /\ [Next]_vars => IInv'
  <2> SUFFICES ASSUME IInv, [Next]_vars
               PROVE  IInv'
    OBVIOUS
  <2>1. CASE UNCHANGED vars
    BY <2>1 DEF vars, IInv, NodesInv, RefsInv, PairsInv, Known, Paired
  <2>2. ASSUME NEW parent \in Ids \cup {Root}, NEW n \in Ids, NEW class \in Classes,
               NEW name \in Names, AddNode(parent, n, class, name)
        PROVE  IInv'
    BY <2>2, AddNodeStep
  <2>3. ASSUME NEW n \in Ids, NEW deleteReferences \in BOOLEAN, DeleteNode(n, deleteReferences)
        PROVE  IInv'
    BY <2>3, DeleteNodeStep
  <2>4. ASSUME NEW n \in Ids, NEW target \in Ids \cup {Root}, NEW isForward \in BOOLEAN,
               AddReference(n, target, isForward)
        PROVE  IInv'
    BY <2>4, AddReferenceStep
  <2>5. ASSUME NEW n \in Ids, NEW target \in Ids \cup {Root}, NEW isForward \in BOOLEAN,
               NEW class \in {"unspecified", "object"},
               DeleteReference(n, target, isForward, class)
        PROVE  IInv'
    BY <2>5, DeleteReferenceStep
  <2> QED
    BY <2>1, <2>2, <2>3, <2>4, <2>5 DEF Next
<1> QED
  BY <1>1, <1>2, PTL DEF Spec

(* Every half of a reference lies at a node that exists, whatever is deleted. *)
THEOREM TypeCorrect == Spec => []TypeOK
<1>1. IInv => TypeOK
  <2> SUFFICES ASSUME IInv PROVE TypeOK
    OBVIOUS
  <2>1. \A n \in AllIds : Known(n) => nodes[n] \in NodeSet
    BY DEF IInv, NodesInv, Known
  <2>2. refs \subseteq Halves /\ (\A h \in refs : Known(h.at)) /\ Cardinality(refs) <= MaxRefs
    BY DEF IInv, RefsInv
  <2> QED
    BY <2>1, <2>2 DEF TypeOK, NodeSet, Halves
<1> QED
  BY <1>1, Invariance, PTL

(* The two halves of a reference come and go together (ReferencesArePaired). *)
THEOREM Pairing == Spec => []ReferencesArePaired
<1>1. IInv => ReferencesArePaired
  <2> SUFFICES ASSUME IInv, ~oneSided, NEW h \in refs
               PROVE  Known(h.other) /\ Opposite(h) \in refs
    BY DEF ReferencesArePaired
  <2>1. h \in Halves /\ Opposite(h) \in refs
    BY DEF IInv, RefsInv, PairsInv, Paired
  <2>2. Opposite(h).at = h.other /\ Known(Opposite(h).at)
    BY <2>1, OppositeFacts DEF IInv, RefsInv
  <2> QED
    BY <2>1, <2>2
<1> QED
  BY <1>1, Invariance, PTL

-----------------------------------------------------------------------------
(* Paths                                                                   *)

(* Induction over the natural numbers, for the set of those that have a property: the
   least number outside of it would have a predecessor outside of it. *)
LEMMA SetInduction ==
  ASSUME NEW S, 0 \in S, \A n \in Nat : n \in S => n + 1 \in S
  PROVE  Nat \subseteq S
<1> SUFFICES ASSUME NEW T, T = Nat \ S, T # {}
             PROVE  FALSE
  OBVIOUS
<1>1. PICK x \in T : \A y \in T : ~(<<y, x>> \in OpToRel(<, Nat))
  BY NatLessThanWellFounded, WFMin
<1>2. x \in Nat /\ x # 0 /\ x \notin S
  OBVIOUS
<1>3. x - 1 \in Nat /\ x - 1 < x
  BY <1>2
<1>4. <<x - 1, x>> \in OpToRel(<, Nat)
  BY <1>2, <1>3 DEF OpToRel
<1>5. x - 1 \in S
  BY <1>1, <1>3, <1>4
<1> QED
  BY <1>2, <1>3, <1>5

NameSet == [ns : Nat \cup {Unqualified}, name : Names \cup {"Root", "Type"}]

NextLevel(found, name) == UNION {GetChild(k, name) : k \in found}

(* The first m levels of a path. *)
LevelsTo(n, names, m) ==
  {f \in [0..m -> SUBSET AllIds] :
     f[0] = {n} /\ \A i \in 1..m : f[i] = NextLevel(f[i - 1], names[i])}

LEMMA GetChildType ==
  ASSUME RefsInv, NEW n, NEW name
  PROVE  GetChild(n, name) \subseteq AllIds
BY DEF GetChild, ForEachChild, RefsInv, Halves

LEMMA LevelsExist ==
  ASSUME RefsInv, NEW n \in AllIds, NEW names
  PROVE  \A m \in Nat : LevelsTo(n, names, m) # {}
<1> DEFINE S == {m \in Nat : LevelsTo(n, names, m) # {}}
<1>1. 0 \in S
  <2>1. [i \in 0..0 |-> {n}] \in LevelsTo(n, names, 0)
    BY DEF LevelsTo
  <2> QED
    BY <2>1
<1>2. ASSUME NEW m \in Nat, m \in S
      PROVE  m + 1 \in S
  <2>1. PICK f \in LevelsTo(n, names, m) : TRUE
    BY <1>2
  <2> DEFINE last == NextLevel(f[m], names[m + 1])
             g == [i \in 0..(m + 1) |-> IF i = m + 1 THEN last ELSE f[i]]
  <2>2. f \in [0..m -> SUBSET AllIds] /\ f[0] = {n} /\ \A i \in 1..m : f[i] = NextLevel(f[i - 1], names[i])
    BY <2>1 DEF LevelsTo
  <2>3. last \subseteq AllIds
    BY GetChildType DEF NextLevel
  <2>4. g[m + 1] = last /\ \A i \in 0..m : g[i] = f[i]
    BY <1>2
  <2> HIDE DEF last
  <2>5. g \in [0..(m + 1) -> SUBSET AllIds]
    BY <1>2, <2>2, <2>3
  <2> HIDE DEF g
  <2>6. \A i \in 1..(m + 1) : g[i] = NextLevel(g[i - 1], names[i])
    <3> TAKE i \in 1..(m + 1)
    <3>1. CASE i = m + 1
      BY <1>2, <2>4, <3>1 DEF last
    <3>2. CASE i # m + 1
      <4>1. i \in 1..m /\ i - 1 \in 0..m /\ i \in 0..m
        BY <1>2, <3>2
      <4> QED
        BY <2>2, <2>4, <4>1
    <3> QED
      BY <3>1, <3>2
  <2>7. g \in LevelsTo(n, names, m + 1)
    BY <1>2, <2>2, <2>4, <2>5, <2>6 DEF LevelsTo
  <2> QED
    BY <1>2, <2>7
<1>3. Nat \subseteq S
  <2> HIDE DEF S
  <2> QED
    BY <1>1, <1>2, SetInduction
<1> QED
  BY <1>3

(* The recursion of Levels: what it says of the first and of each further level. *)
LEMMA LevelsFacts ==
  ASSUME RefsInv, NEW n \in AllIds, NEW names \in Seq(NameSet)
  PROVE  /\ Levels(n, names)[0] = {n}
         /\ \A i \in 1..Len(names) :
              Levels(n, names)[i] = NextLevel(Levels(n, names)[i - 1], names[i])
<1> DEFINE N == Len(names)
           Body(g) == [i \in 0..N |-> IF i = 0 THEN {n}
                                       ELSE UNION {GetChild(k, names[i]) : k \in g[i - 1]}]
<1>1. N \in Nat
  OBVIOUS
<1>2. PICK f : f \in LevelsTo(n, names, N)
  BY <1>1, LevelsExist
<1>3. f = Body(f)
  <2>1. f \in [0..N -> SUBSET AllIds] /\ f[0] = {n} /\ \A i \in 1..N : f[i] = NextLevel(f[i - 1], names[i])
    BY <1>2 DEF LevelsTo
  <2>2. \A i \in 0..N : f[i] = IF i = 0 THEN {n}
                                ELSE UNION {GetChild(k, names[i]) : k \in f[i - 1]}
    BY <1>1, <2>1 DEF NextLevel
  <2> HIDE DEF N
  <2> QED
    BY <2>1, <2>2
<1>4. Levels(n, names) = CHOOSE g : g = Body(g)
  BY DEF Levels
<1>5. Levels(n, names) = Body(Levels(n, names))
  <2> HIDE DEF Body
  <2> QED
    BY <1>3, <1>4
<1> DEFINE L == Levels(n, names)
<1>6. L = [i \in 0..N |-> IF i = 0 THEN {n} ELSE NextLevel(L[i - 1], names[i])]
  BY <1>5 DEF NextLevel
<1> HIDE DEF L
<1>7. L[0] = {n} /\ \A i \in 1..N : L[i] = NextLevel(L[i - 1], names[i])
  <2> HIDE DEF N
  <2>1. 0 \in 0..N /\ \A i \in 1..N : i \in 0..N /\ i # 0
    BY <1>1
  <2> QED
    BY <1>6, <2>1
<1> QED
  BY <1>7 DEF L

(* A walk along the names of a path, one node more than names. *)
Walk(w, names) ==
  /\ w \in [0..Len(names) -> AllIds]
  /\ \A i \in 1..Len(names) : w[i] \in GetChild(w[i - 1], names[i])

(* Whatever a walk along a path reaches is found by it, at each of its levels. *)
LEMMA WalksAreFound ==
  ASSUME RefsInv, NEW n \in AllIds, NEW names \in Seq(NameSet), NEW w, Walk(w, names), w[0] = n
  PROVE  \A i \in 0..Len(names) : w[i] \in Levels(n, names)[i]
<1> DEFINE S == {m \in Nat : m <= Len(names) => w[m] \in Levels(n, names)[m]}
<1>1. 0 \in S
  BY LevelsFacts
<1>2. ASSUME NEW m \in Nat, m \in S, m + 1 <= Len(names)
      PROVE  w[m + 1] \in Levels(n, names)[m + 1]
  <2>1. m + 1 \in 1..Len(names) /\ (m + 1) - 1 = m /\ m <= Len(names)
    BY <1>2
  <2>2. w[m + 1] \in GetChild(w[m], names[m + 1]) /\ w[m] \in Levels(n, names)[m]
    BY <1>2, <2>1 DEF Walk
  <2>3. Levels(n, names)[m + 1] = NextLevel(Levels(n, names)[m], names[m + 1])
    BY <2>1, LevelsFacts
  <2> QED
    BY <2>2, <2>3 DEF NextLevel
<1>3. Nat \subseteq S
  <2>1. \A m \in Nat : m \in S => m + 1 \in S
    BY <1>2
  <2> HIDE DEF S
  <2> QED
    BY <1>1, <2>1, SetInduction
<1> QED
  BY <1>3

(* What is found at a level of a path is reached by a walk along it up to there. *)
LEMMA FoundByWalks ==
  ASSUME RefsInv, NEW n \in AllIds, NEW names \in Seq(NameSet)
  PROVE  \A m \in 0..Len(names) : \A k \in Levels(n, names)[m] :
           \E w \in [0..m -> AllIds] :
             /\ w[0] = n /\ w[m] = k
             /\ \A i \in 1..m : w[i] \in GetChild(w[i - 1], names[i])
<1> DEFINE Reached(m, k) ==
             \E w \in [0..m -> AllIds] :
               /\ w[0] = n /\ w[m] = k
               /\ \A i \in 1..m : w[i] \in GetChild(w[i - 1], names[i])
           S == {m \in Nat : m <= Len(names) => \A k \in Levels(n, names)[m] : Reached(m, k)}
<1>1. 0 \in S
  <2> SUFFICES ASSUME NEW k \in Levels(n, names)[0]
               PROVE  Reached(0, k)
    OBVIOUS
  <2>1. k = n
    BY LevelsFacts
  <2> DEFINE w == [i \in 0..0 |-> n]
  <2>2. w \in [0..0 -> AllIds] /\ w[0] = n /\ 1..0 = {}
    OBVIOUS
  <2> QED
    BY <2>1, <2>2
<1>2. ASSUME NEW m \in Nat, m \in S, m + 1 <= Len(names), NEW k \in Levels(n, names)[m + 1]
      PROVE  Reached(m + 1, k)
  <2>1. m + 1 \in 1..Len(names) /\ (m + 1) - 1 = m /\ m <= Len(names)
    BY <1>2
  <2>2. Levels(n, names)[m + 1] = NextLevel(Levels(n, names)[m], names[m + 1])
    BY <2>1, LevelsFacts
  <2>3. PICK j \in Levels(n, names)[m] : k \in GetChild(j, names[m + 1])
    BY <1>2, <2>2 DEF NextLevel
  <2>4. PICK w \in [0..m -> AllIds] :
          /\ w[0] = n /\ w[m] = j
          /\ \A i \in 1..m : w[i] \in GetChild(w[i - 1], names[i])
    BY <1>2, <2>1
  <2> DEFINE v == [i \in 0..(m + 1) |-> IF i = m + 1 THEN k ELSE w[i]]
  <2>5. k \in AllIds
    BY <2>3, GetChildType
  <2>6. v \in [0..(m + 1) -> AllIds] /\ v[m + 1] = k /\ \A i \in 0..m : v[i] = w[i]
    BY <1>2, <2>5
  <2> HIDE DEF v
  <2>7. \A i \in 1..(m + 1) : v[i] \in GetChild(v[i - 1], names[i])
    <3> TAKE i \in 1..(m + 1)
    <3>1. CASE i = m + 1
      BY <2>1, <2>3, <2>4, <2>6, <3>1
    <3>2. CASE i # m + 1
      <4>1. i \in 1..m /\ i - 1 \in 0..m /\ i \in 0..m
        BY <1>2, <3>2
      <4> QED
        BY <2>4, <2>6, <4>1
    <3> QED
      BY <3>1, <3>2
  <2>8. v[0] = n
    BY <2>4, <2>6, <1>2
  <2> QED
    BY <2>6, <2>7, <2>8
<1>3. Nat \subseteq S
  <2> HIDE DEF Reached
  <2>1. ASSUME NEW m \in Nat, m \in S
        PROVE  m + 1 \in S
    <3>1. CASE m + 1 <= Len(names)
      <4>1. \A k \in Levels(n, names)[m + 1] : Reached(m + 1, k)
        <5> HIDE DEF S
        <5> QED
          BY <1>2, <2>1, <3>1
      <4> QED
        BY <4>1
    <3>2. CASE ~(m + 1 <= Len(names))
      BY <3>2
    <3> QED
      BY <3>1, <3>2
  <2> HIDE DEF S
  <2> QED
    BY <1>1, <2>1, SetInduction
<1> HIDE DEF Reached
<1>4. \A m \in 0..Len(names) : \A k \in Levels(n, names)[m] : Reached(m, k)
  BY <1>3
<1> QED
  BY <1>4 DEF Reached

(* getChild with a table of any number of names finds a node exactly when a walk, by
   getChild with each name in turn, reaches it. *)
THEOREM PathsAreWalks ==
  ASSUME IInv, NEW n \in AllIds, NEW names \in Seq(NameSet), NEW k
  PROVE  k \in GetPath(n, names) <=>
           \E w : Walk(w, names) /\ w[0] = n /\ w[Len(names)] = k
<1>1. RefsInv /\ Len(names) \in Nat /\ Len(names) \in 0..Len(names)
  BY DEF IInv
<1>2. ASSUME NEW w, Walk(w, names), w[0] = n, w[Len(names)] = k
      PROVE  k \in GetPath(n, names)
  BY <1>1, <1>2, WalksAreFound DEF GetPath
<1>3. ASSUME k \in GetPath(n, names)
      PROVE  \E w : Walk(w, names) /\ w[0] = n /\ w[Len(names)] = k
  <2>1. k \in Levels(n, names)[Len(names)]
    BY <1>3 DEF GetPath
  <2>2. PICK w \in [0..Len(names) -> AllIds] :
             /\ w[0] = n /\ w[Len(names)] = k
             /\ \A i \in 1..Len(names) : w[i] \in GetChild(w[i - 1], names[i])
    BY <1>1, <2>1, FoundByWalks
  <2> QED
    BY <2>2 DEF Walk
<1> QED
  BY <1>2, <1>3

(* A path of two names. *)
LEMMA PathOfTwo ==
  ASSUME IInv, NEW n \in AllIds, NEW x \in NameSet, NEW y \in NameSet
  PROVE  GetPath(n, <<x, y>>) = NextLevel(GetChild(n, x), y)
<1> DEFINE names == <<x, y>>
<1>1. names \in Seq(NameSet) /\ Len(names) = 2 /\ names[1] = x /\ names[2] = y
  OBVIOUS
<1> HIDE DEF names
<1>2. /\ Levels(n, names)[0] = {n}
      /\ Levels(n, names)[1] = NextLevel(Levels(n, names)[0], x)
      /\ Levels(n, names)[2] = NextLevel(Levels(n, names)[1], y)
  <2>1. RefsInv /\ 1 \in 1..Len(names) /\ 2 \in 1..Len(names)
    BY <1>1 DEF IInv
  <2>2. Levels(n, names)[1] = NextLevel(Levels(n, names)[1 - 1], names[1])
    BY <1>1, <2>1, LevelsFacts
  <2>3. Levels(n, names)[2] = NextLevel(Levels(n, names)[2 - 1], names[2])
    BY <1>1, <2>1, LevelsFacts
  <2>4. Levels(n, names)[0] = {n}
    BY <1>1, <2>1, LevelsFacts
  <2>5. 1 - 1 = 0 /\ 2 - 1 = 1
    OBVIOUS
  <2>6. Levels(n, names)[1] = NextLevel(Levels(n, names)[0], x)
    BY <1>1, <2>2, <2>5, Zenon
  <2>7. Levels(n, names)[2] = NextLevel(Levels(n, names)[1], y)
    BY <1>1, <2>3, <2>5, Zenon
  <2> QED
    BY <2>4, <2>6, <2>7
<1>3. NextLevel({n}, x) = GetChild(n, x)
  BY DEF NextLevel
<1>4. GetPath(n, names) = Levels(n, names)[2]
  BY <1>1 DEF GetPath
<1> QED
  BY <1>2, <1>3, <1>4 DEF names

(* A child is found by its qualified name. *)
LEMMA ChildIsFound ==
  ASSUME IInv, NEW n \in AllIds, NEW j \in GetChildren(n), Known(j.id)
  PROVE  /\ j.id \in AllIds /\ Qualified(j.id) \in NameSet
         /\ j.id \in GetChild(n, Qualified(j.id))
<1>1. PICK h \in ForEachChild(n) : j.id = h.other
  BY DEF GetChildren
<1>2. j.id \in AllIds
  BY <1>1 DEF ForEachChild, IInv, RefsInv, Halves
<1>3. NsOf[j.id] \in Nat /\ nodes[j.id] \in NodeSet
  BY <1>2, NodeTreeAssumption DEF IInv, NodesInv, Known
<1>4. Qualified(j.id) \in NameSet
  BY <1>3 DEF Qualified, NameSet, NodeSet
<1>5. NsWanted(n, Qualified(j.id)) = NsOf[j.id] /\ Qualified(j.id).name = nodes[j.id].name
  BY <1>3 DEF NsWanted, Qualified, Unqualified
<1> QED
  BY <1>1, <1>2, <1>4, <1>5 DEF GetChild

(* What getChildren lists, and exists, is found by its path (PathsAreFound). *)
THEOREM PathsFound == Spec => []PathsAreFound
<1>1. IInv => PathsAreFound
  <2> SUFFICES ASSUME IInv, NEW n \in AllIds, NEW j \in GetChildren(n),
                      NEW k \in GetChildren(j.id), k.class # "unspecified"
               PROVE  k.id \in GetPath(n, <<Qualified(j.id), Qualified(k.id)>>)
    BY DEF PathsAreFound
  <2>1. Known(j.id) /\ Known(k.id)
    BY DEF GetChildren, ForEachChild
  <2>2. /\ j.id \in AllIds /\ Qualified(j.id) \in NameSet
        /\ j.id \in GetChild(n, Qualified(j.id))
    BY <2>1, ChildIsFound
  <2>3. Qualified(k.id) \in NameSet /\ k.id \in GetChild(j.id, Qualified(k.id))
    BY <2>1, <2>2, ChildIsFound
  <2> QED
    BY <2>2, <2>3, PathOfTwo DEF NextLevel
<1> QED
  BY <1>1, Invariance, PTL
=============================================================================
