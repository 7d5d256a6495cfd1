------------------------------ MODULE NodeTree ------------------------------
(***************************************************************************)
(* Node objects, UA_Node, over an address space: adding and deleting nodes *)
(* and references through them, and looking for children by name.  The     *)
(* node managers of client and server pass these on to the same services.  *)
(*                                                                         *)
(* An address space keeps at each node one half of every reference the     *)
(* node takes part in: a forward half at the source, an inverse half at    *)
(* the target.  A name is what Lua passes to getChild: "name", with ns =   *)
(* Unqualified, or "ns:name".                                              *)
(***************************************************************************)
EXTENDS Integers, Sequences, FiniteSets

CONSTANTS
  Ids,         \* ids of the nodes Lua may add
  Root,        \* a node that is always there
  TypeNode,    \* the type of objects and variables, always there
  NsOf,        \* NsOf[n]: the namespace index of id n
  Names,       \* browse names
  MaxRefs,     \* bound on the halves of references
  Absent

Unqualified == -1
Classes == {"object", "variable", "view", "method"}
AllIds == Ids \cup {Root, TypeNode}

ASSUME NodeTreeAssumption ==
  /\ NsOf \in [AllIds -> Nat]
  /\ MaxRefs \in Nat /\ Root \notin Ids /\ TypeNode \notin Ids
  /\ Root # TypeNode
  /\ Absent \notin [class : Classes \cup {"type"}, name : Names \cup {"Root", "Type"}]

VARIABLES
  nodes,      \* nodes[n]: class and browse name of a node, or Absent
  refs,       \* the halves of references
  oneSided    \* history: may a reference have lost one of its halves?

vars == <<nodes, refs, oneSided>>

-----------------------------------------------------------------------------
Node(class, name) == [class |-> class, name |-> name]
Known(n) == nodes[n] # Absent

Half(at, other, type, inverse) == [at |-> at, other |-> other, type |-> type, inverse |-> inverse]
Opposite(h) == Half(h.other, h.at, h.type, ~h.inverse)
Reference(source, target, type) ==
  {Half(source, target, type, FALSE), Half(target, source, type, TRUE)}

(* References added and deleted through a node are always of type Organizes. *)
Organizes(n, target, isForward) ==
  IF isForward THEN Reference(n, target, "Organizes") ELSE Reference(target, n, "Organizes")

-----------------------------------------------------------------------------
(* Changing the tree                                                       *)

SetRefs(new) == Cardinality(new) <= MaxRefs /\ refs' = new

(* Objects and variables have a type, views and methods have none. *)
TypeOf(n, class) ==
  IF class \in {"object", "variable"} THEN Reference(n, TypeNode, "HasTypeDefinition") ELSE {}

(* addFolder, addObject, addVariable, addView, addMethod: the id may not be in use, and
   the parent may have been deleted since Lua got its object. *)
AddNode(parent, n, class, name) ==
  /\ Known(parent) /\ ~Known(n)
  /\ nodes' = [nodes EXCEPT ![n] = Node(class, name)]
  /\ SetRefs(refs \cup Reference(parent, n, "Organizes") \cup TypeOf(n, class))
  /\ UNCHANGED oneSided

(* Mutant: the references of the node stay. *)
DeleteNodeKeepsRefs(n, deleteReferences) ==
  /\ Known(n)
  /\ nodes' = [nodes EXCEPT ![n] = Absent]
  /\ refs' = {h \in refs : ~(deleteReferences /\ h.other = n)}
  /\ oneSided' = (oneSided \/ ~deleteReferences)

(* Mutant: references to the node are always left behind. *)
DeleteNodeOnly(n, deleteReferences) ==
  /\ Known(n)
  /\ nodes' = [nodes EXCEPT ![n] = Absent]
  /\ refs' = {h \in refs : h.at # n}
  /\ oneSided' = (oneSided \/ ~deleteReferences)

(* The halves at the node go with it, those at its neighbours only on request. *)
DeleteNode(n, deleteReferences) ==
  /\ Known(n)
  /\ nodes' = [nodes EXCEPT ![n] = Absent]
  /\ refs' = {h \in refs : h.at # n /\ ~(deleteReferences /\ h.other = n)}
  /\ oneSided' = (oneSided \/ ~deleteReferences)

AddReference(n, target, isForward) ==
  /\ Known(n) /\ Known(target)
  /\ SetRefs(refs \cup Organizes(n, target, isForward))
  /\ UNCHANGED <<nodes, oneSided>>

(* The class of the target is passed on as deleteBidirectional: of class Unspecified
   only the half at n goes. *)
DeleteReference(n, target, isForward, class) ==
  /\ Known(n)
  /\ refs' = refs \ {h \in Organizes(n, target, isForward) : class # "unspecified" \/ h.at = n}
  /\ oneSided' = (oneSided \/ class = "unspecified")
  /\ UNCHANGED nodes

-----------------------------------------------------------------------------
(* Browsing                                                                *)

(* forEachChildNodeCall: all halves at a node, in both directions. *)
ForEachChild(n) == IF Known(n) THEN {h \in refs : h.at = n} ELSE {}

(* UA_Node_Iter takes the forward ones; the class is read for each child afterwards. *)
GetChildren(n) ==
  {[id |-> h.other, class |-> IF Known(h.other) THEN nodes[h.other].class ELSE "unspecified"] :
     h \in {h \in ForEachChild(n) : ~h.inverse}}

NsWanted(n, name) == IF name.ns = Unqualified THEN NsOf[n] ELSE name.ns

(* UA_Node_Finder takes both, for it does not test isInverse, so that a parent is found
   like a child. The namespace is that of the id, and the browse name can be read of a
   node that exists. *)
GetChild(n, name) ==
  {h.other : h \in {h \in ForEachChild(n) :
     /\ NsOf[h.other] = NsWanted(n, name)
     /\ Known(h.other) /\ nodes[h.other].name = name.name}}

(* The nodes found at each level of a path. *)
Levels(n, names) ==
  LET found[i \in 0..Len(names)] ==
        IF i = 0 THEN {n} ELSE UNION {GetChild(k, names[i]) : k \in found[i - 1]}
  IN found

(* Mutant: only one of several matches is followed. *)
GetPathOfOne(n, names) ==
  LET found[i \in 0..Len(names)] ==
        CASE i = 0 -> {n}
          [] i > 0 /\ found[i - 1] = {} -> {}
          [] OTHER -> GetChild(CHOOSE k \in found[i - 1] : TRUE, names[i])
  IN found[Len(names)]

(* Level by level, over all matches; "Not found!" at a level ends it with nothing. *)
GetPath(n, names) == Levels(n, names)[Len(names)]

-----------------------------------------------------------------------------
Init ==
  /\ nodes = [n \in AllIds |-> CASE n = Root -> Node("object", "Root")
                                 [] n = TypeNode -> Node("type", "Type")
                                 [] OTHER -> Absent]
  /\ refs = {} /\ oneSided = FALSE

Next ==
  \/ \E parent \in Ids \cup {Root}, n \in Ids, class \in Classes, name \in Names :
       AddNode(parent, n, class, name)
  \/ \E n \in Ids, deleteReferences \in BOOLEAN : DeleteNode(n, deleteReferences)
  \/ \E n \in Ids, target \in Ids \cup {Root}, isForward \in BOOLEAN :
       /\ n # target
       /\ \/ AddReference(n, target, isForward)
          \/ \E class \in {"unspecified", "object"} :
               DeleteReference(n, target, isForward, class)

Spec == Init /\ [][Next]_vars

-----------------------------------------------------------------------------
(* Properties                                                              *)

Qualified(n) == [ns |-> NsOf[n], name |-> nodes[n].name]

TypeOK ==
  /\ \A n \in AllIds :
       Known(n) => nodes[n].class \in Classes \cup {"type"} /\ nodes[n].name \in Names \cup {"Root", "Type"}
  /\ refs \subseteq [at : AllIds, other : AllIds, type : {"Organizes", "HasTypeDefinition"},
                     inverse : BOOLEAN]
  /\ \A h \in refs : Known(h.at)
  /\ Cardinality(refs) <= MaxRefs

(* The two halves of a reference come and go together, whatever nodes are deleted and
   added again under the same id, except where a node was deleted without its references
   or a reference with a target of class Unspecified (deleteReference). *)
ReferencesArePaired ==
  ~oneSided => \A h \in refs : Known(h.other) /\ Opposite(h) \in refs

(* Whatever getChildren lists at two levels, and that exists, is found by the qualified
   names on the way, also where several children have the same name (getChild with a
   table of names). *)
PathsAreFound ==
  \A n \in AllIds : \A j \in GetChildren(n) : \A k \in GetChildren(j.id) :
    k.class # "unspecified" => k.id \in GetPath(n, <<Qualified(j.id), Qualified(k.id)>>)
=============================================================================
