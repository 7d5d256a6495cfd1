--------------------------- MODULE Server_proofs ---------------------------
(***************************************************************************)
(* Safety of Server, for every number of servers, nodes, callbacks and     *)
(* functions.                                                              *)
(*                                                                         *)
(* IInv relates the context pointer of a node to what Lua set last: they   *)
(* agree for a variable whose context is a value callback; a value         *)
(* callback knows the server of every context it is in, unless it was      *)
(* shared; and a context of the wrong kind was left by a call with the     *)
(* wrong node.                                                             *)
(***************************************************************************)
EXTENDS Server, TLAPS

(* f[s][n] is in V for every node of every server. *)
Table(f, V) ==
  f = [s \in Servers |-> f[s]] /\ \A s \in Servers : f[s] \in [Nodes[s] -> V]

(* g is f with one entry, or all entries of one server, replaced. *)
Entry(g, f, s, n, v) ==
  \A t \in Servers : \A m \in Nodes[t] : g[t][m] = IF t = s /\ m = n THEN v ELSE f[t][m]
Row(g, f, s, v) ==
  \A t \in Servers : \A m \in Nodes[t] : g[t][m] = IF t = s THEN v ELSE f[t][m]

Values == ValueCallbacks \cup Functions \cup {None}

TablesOK ==
  /\ Table(class, Classes \cup {None}) /\ Table(ctx, Contexts) /\ Table(set, Values)
  /\ installed = [s \in Servers |-> installed[s]]
  /\ \A s \in Servers : installed[s] \subseteq Nodes[s]

KnowsServer(s, n) ==
  ctx[s][n].kind = "value" => _proxy[ctx[s][n].of] = s \/ ctx[s][n].of \in shared

NodeInv(s, n) ==
  /\ class[s][n] = None => ctx[s][n] = NoCtx /\ n \notin installed[s]
  /\ class[s][n] = "variable" /\ ctx[s][n].kind = "value" => set[s][n] = ctx[s][n].of
  /\ class[s][n] = "variable" /\ n \in installed[s] /\ <<s, n>> \notin crossed =>
       ctx[s][n].kind = "value"
  /\ KnowsServer(s, n)

NodesInv == \A s \in Servers : \A n \in Nodes[s] : NodeInv(s, n)

OutcomeInv ==
  ValueCallbackIsTheOneSet /\ ValueCallbackFailsOnlyWhenMisused

Base ==
  /\ phase \in [Servers -> {"idle", "started", "running", "gone"}]
  /\ _proxy \in [ValueCallbacks -> Servers \cup {None}]
  /\ collected \subseteq ValueCallbacks /\ shared \subseteq ValueCallbacks
  /\ outcome.result \in {"none", "ran", "rejected", "undefined"}

StateInv == TablesOK /\ Base /\ NodesInv
IInv == StateInv /\ OutcomeInv

-----------------------------------------------------------------------------
(* Tables                                                                  *)

(* Replacing one entry. *)
LEMMA EntryReplaced ==
  ASSUME NEW f, NEW V, Table(f, V), NEW s \in Servers, NEW n \in Nodes[s], NEW v \in V,
         NEW g, g = [f EXCEPT ![s][n] = v]
  PROVE  Table(g, V) /\ Entry(g, f, s, n, v)
<1>1. /\ f = [t \in Servers |-> f[t]] /\ \A t \in Servers : f[t] \in [Nodes[t] -> V]
  BY DEF Table
<1>2. g = [t \in Servers |-> IF t = s THEN [f[s] EXCEPT ![n] = v] ELSE f[t]]
  BY <1>1
<1>3. [f[s] EXCEPT ![n] = v] \in [Nodes[s] -> V]
  BY <1>1
<1>4. \A t \in Servers : g[t] \in [Nodes[t] -> V]
  BY <1>1, <1>2, <1>3
<1>5. g = [t \in Servers |-> g[t]]
  BY <1>2
<1>6. Entry(g, f, s, n, v)
  BY <1>1, <1>2 DEF Entry
<1> QED
  BY <1>4, <1>5, <1>6 DEF Table

(* Replacing all entries of one server. *)
LEMMA RowReplaced ==
  ASSUME NEW f, NEW V, Table(f, V), NEW s \in Servers, NEW v \in V,
         NEW g, g = [f EXCEPT ![s] = [n \in Nodes[s] |-> v]]
  PROVE  Table(g, V) /\ Row(g, f, s, v)
<1>1. /\ f = [t \in Servers |-> f[t]] /\ \A t \in Servers : f[t] \in [Nodes[t] -> V]
  BY DEF Table
<1>2. g = [t \in Servers |-> IF t = s THEN [n \in Nodes[s] |-> v] ELSE f[t]]
  BY <1>1
<1>3. \A t \in Servers : g[t] \in [Nodes[t] -> V]
  <2>1. [n \in Nodes[s] |-> v] \in [Nodes[s] -> V]
    OBVIOUS
  <2> QED
    BY <1>1, <1>2, <2>1
<1>4. g = [t \in Servers |-> g[t]]
  BY <1>2
<1>5. Row(g, f, s, v)
  BY <1>1, <1>2 DEF Row
<1> QED
  BY <1>3, <1>4, <1>5 DEF Table

(* The contexts and what they hold. *)
LEMMA ContextFacts ==
  /\ NoCtx \in Contexts /\ NoCtx.kind = "null"
  /\ \A c \in ValueCallbacks :
       ValueCtx(c) \in Contexts /\ ValueCtx(c).kind = "value" /\ ValueCtx(c).of = c
  /\ \A f \in Functions :
       MethodCtx(f) \in Contexts /\ MethodCtx(f).kind = "method" /\ MethodCtx(f).of = f
  /\ \A x \in Contexts : /\ x.kind = "value" => x.of \in ValueCallbacks
                         /\ x.kind = "method" => x = MethodCtx(x.of)
<1>1. NoCtx \in Contexts /\ NoCtx.kind = "null"
  BY DEF Contexts, NoCtx
<1>2. ASSUME NEW c \in ValueCallbacks
      PROVE  ValueCtx(c) \in Contexts /\ ValueCtx(c).kind = "value" /\ ValueCtx(c).of = c
  BY DEF Contexts, ValueCtx
<1>3. ASSUME NEW f \in Functions
      PROVE  MethodCtx(f) \in Contexts /\ MethodCtx(f).kind = "method" /\ MethodCtx(f).of = f
  BY DEF Contexts, MethodCtx
<1>4. ASSUME NEW x \in Contexts
      PROVE  /\ x.kind = "value" => x.of \in ValueCallbacks
             /\ x.kind = "method" => x = MethodCtx(x.of)
  <2>1. CASE x = NoCtx
    BY <2>1, <1>1
  <2>2. ASSUME NEW c \in ValueCallbacks, x = ValueCtx(c)
        PROVE  x.kind = "value" /\ x.of \in ValueCallbacks
    BY <1>2, <2>2
  <2>3. ASSUME NEW f \in Functions, x = MethodCtx(f)
        PROVE  x.kind = "method" /\ x = MethodCtx(x.of)
    BY <1>3, <2>3
  <2> QED
    BY <2>1, <2>2, <2>3 DEF Contexts
<1> QED
  BY <1>1, <1>2, <1>3, <1>4

(* Nothing is said of an outcome that has been looked at. *)
LEMMA QuietOutcome ==
  ASSUME outcome' = Nothing
  PROVE  OutcomeInv' /\ outcome'.result \in {"none", "ran", "rejected", "undefined"}
BY DEF Nothing, Outcome, OutcomeInv, ValueCallbackIsTheOneSet,
       ValueCallbackFailsOnlyWhenMisused

(* A node nothing happens to stays in order while the callback in its context does. *)
Untouched(s, n) ==
  /\ class'[s][n] = class[s][n] /\ ctx'[s][n] = ctx[s][n] /\ set'[s][n] = set[s][n]
  /\ n \in installed'[s] <=> n \in installed[s]
  /\ <<s, n>> \in crossed' <=> <<s, n>> \in crossed

LEMMA NodeKept ==
  ASSUME NEW s, NEW n, NodeInv(s, n), Untouched(s, n), KnowsServer(s, n)'
  PROVE  NodeInv(s, n)'
BY DEF NodeInv, Untouched

(* A node without a context, of any class but a variable with a callback. *)
LEMMA NodeFresh ==
  ASSUME NEW s, NEW n, ctx'[s][n] = NoCtx, n \notin installed'[s]
  PROVE  NodeInv(s, n)'
<1>1. ctx'[s][n].kind = "null"
  BY ContextFacts
<1> QED
  BY <1>1 DEF NodeInv, KnowsServer

(* Steps that leave the nodes and the callbacks alone. *)
LEMMA NodesUnchanged ==
  ASSUME TablesOK, NodesInv, UNCHANGED <<nodeVars, _proxy, shared>>
  PROVE  TablesOK' /\ NodesInv'
BY DEF nodeVars, TablesOK, NodesInv, NodeInv, KnowsServer, Table

-----------------------------------------------------------------------------
(* Every step preserves StateInv                                           *)

LEMMA AddNodeInv ==
  ASSUME NEW s \in Servers, NEW n \in Nodes[s], NEW as \in Classes
  PROVE  StateInv /\ AddNode(s, n, as) => StateInv'
<1> SUFFICES ASSUME StateInv, AddNode(s, n, as) PROVE StateInv'
  OBVIOUS
<1>1. /\ UNCHANGED <<phase, ctx, installed, set, crossed, _proxy, collected, shared, outcome>>
      /\ class' = [class EXCEPT ![s][n] = as] /\ class[s][n] = None
  BY DEF AddNode, Known
<1>2. Table(class', Classes \cup {None}) /\ Entry(class', class, s, n, as)
  <2>1. Table(class, Classes \cup {None}) /\ as \in Classes \cup {None}
    BY DEF StateInv, TablesOK
  <2> QED
    BY <1>1, <2>1, EntryReplaced, Zenon
<1>3. TablesOK'
  BY <1>1, <1>2 DEF StateInv, TablesOK, Table
<1>4. Base'
  BY <1>1 DEF StateInv, Base
<1>5. ASSUME NEW t \in Servers, NEW m \in Nodes[t] PROVE NodeInv(t, m)'
  <2>1. NodeInv(t, m)
    BY DEF StateInv, NodesInv
  <2>2. CASE t = s /\ m = n
    <3>1. ctx'[t][m] = NoCtx /\ m \notin installed'[t]
      BY <1>1, <2>1, <2>2 DEF NodeInv
    <3> QED
      BY <3>1, NodeFresh
  <2>3. CASE ~(t = s /\ m = n)
    <3>1. Untouched(t, m) /\ KnowsServer(t, m)'
      BY <1>1, <1>2, <2>1, <2>3 DEF Entry, Untouched, NodeInv, KnowsServer
    <3> QED
      BY <2>1, <3>1, NodeKept
  <2> QED
    BY <2>2, <2>3
<1> QED
  BY <1>3, <1>4, <1>5 DEF StateInv, NodesInv

LEMMA DeleteNodeInv ==
  ASSUME NEW s \in Servers, NEW n \in Nodes[s]
  PROVE  StateInv /\ DeleteNode(s, n) => StateInv'
<1> SUFFICES ASSUME StateInv, DeleteNode(s, n) PROVE StateInv'
  OBVIOUS
<1>1. /\ UNCHANGED <<phase, _proxy, collected, shared, outcome>>
      /\ class' = [class EXCEPT ![s][n] = None] /\ ctx' = [ctx EXCEPT ![s][n] = NoCtx]
      /\ set' = [set EXCEPT ![s][n] = None] /\ crossed' = crossed \ {<<s, n>>}
      /\ installed' = [installed EXCEPT ![s] = @ \ {n}]
  BY DEF DeleteNode, ForgetNode
<1>2. /\ Table(class', Classes \cup {None}) /\ Entry(class', class, s, n, None)
      /\ Table(ctx', Contexts) /\ Entry(ctx', ctx, s, n, NoCtx)
      /\ Table(set', Values) /\ Entry(set', set, s, n, None)
  <2>1. /\ Table(class, Classes \cup {None}) /\ None \in Classes \cup {None}
        /\ Table(ctx, Contexts) /\ NoCtx \in Contexts /\ Table(set, Values) /\ None \in Values
    BY ContextFacts DEF StateInv, TablesOK, Values
  <2>2. Table(class', Classes \cup {None}) /\ Entry(class', class, s, n, None)
    BY <1>1, <2>1, EntryReplaced, Zenon
  <2>3. Table(ctx', Contexts) /\ Entry(ctx', ctx, s, n, NoCtx)
    BY <1>1, <2>1, EntryReplaced, Zenon
  <2>4. Table(set', Values) /\ Entry(set', set, s, n, None)
    BY <1>1, <2>1, EntryReplaced, Zenon
  <2> QED
    BY <2>2, <2>3, <2>4
<1>3. /\ installed' = [t \in Servers |-> installed'[t]]
      /\ \A t \in Servers : installed'[t] = IF t = s THEN installed[t] \ {n} ELSE installed[t]
  BY <1>1 DEF StateInv, TablesOK
<1>4. TablesOK'
  BY <1>2, <1>3 DEF StateInv, TablesOK
<1>5. Base'
  BY <1>1 DEF StateInv, Base
<1>6. ASSUME NEW t \in Servers, NEW m \in Nodes[t] PROVE NodeInv(t, m)'
  <2>1. NodeInv(t, m)
    BY DEF StateInv, NodesInv
  <2>2. CASE t = s /\ m = n
    <3>1. ctx'[t][m] = NoCtx /\ m \notin installed'[t]
      BY <1>2, <1>3, <2>2 DEF Entry
    <3> QED
      BY <3>1, NodeFresh
  <2>3. CASE ~(t = s /\ m = n)
    <3>1. Untouched(t, m) /\ KnowsServer(t, m)'
      BY <1>1, <1>2, <1>3, <2>1, <2>3 DEF Entry, Untouched, NodeInv, KnowsServer
    <3> QED
      BY <2>1, <3>1, NodeKept
  <2> QED
    BY <2>2, <2>3
<1> QED
  BY <1>4, <1>5, <1>6 DEF StateInv, NodesInv

(* A context that is replaced: what it means for the node depends on whether the node is
   of the class it is meant for. *)
LEMMA SetContextInv ==
  ASSUME StateInv, NEW s \in Servers, NEW n \in Nodes[s], Known(s, n), UNCHANGED class,
         NEW context \in Contexts, NEW needed,
         SetContext(s, n, context, needed),
         \/ context.kind = "value" /\ needed = "variable"
         \/ context.kind = "method" /\ needed = "method",
         context.of \in Values,
         context.kind = "value" => _proxy'[context.of] = s,
         \A t \in Servers : \A m \in Nodes[t] :
           ctx[t][m].kind = "value" =>
             _proxy'[ctx[t][m].of] = t \/ ctx[t][m].of \in shared'
  PROVE  TablesOK' /\ NodesInv'
<1>1. Table(ctx', Contexts) /\ Entry(ctx', ctx, s, n, context)
  <2>1. ctx' = [ctx EXCEPT ![s][n] = context] /\ Table(ctx, Contexts)
    BY DEF SetContext, StateInv, TablesOK
  <2> QED
    BY <2>1, EntryReplaced, Zenon
<1>2. CASE class[s][n] = needed
  <2>1. /\ installed' = [installed EXCEPT ![s] = @ \cup {n}]
        /\ set' = [set EXCEPT ![s][n] = context.of] /\ Table(set, Values)
        /\ crossed' = crossed \ {<<s, n>>}
    BY <1>2 DEF SetContext, StateInv, TablesOK
  <2>2. Table(set', Values) /\ Entry(set', set, s, n, context.of)
    BY <2>1, EntryReplaced, Zenon
  <2>3. /\ installed' = [t \in Servers |-> installed'[t]]
        /\ \A t \in Servers :
             installed'[t] = IF t = s THEN installed[t] \cup {n} ELSE installed[t]
    BY <2>1 DEF StateInv, TablesOK
  <2>4. TablesOK'
    BY <1>1, <2>2, <2>3 DEF StateInv, TablesOK
  <2>5. ASSUME NEW t \in Servers, NEW m \in Nodes[t] PROVE NodeInv(t, m)'
    <3>1. NodeInv(t, m)
      BY DEF StateInv, NodesInv
    <3>2. CASE t = s /\ m = n
      <4>1. /\ class'[t][m] = needed /\ ctx'[t][m] = context /\ set'[t][m] = context.of
            /\ class'[t][m] # None
        BY <1>1, <1>2, <2>2, <3>2 DEF Entry, Known
      <4> QED
        BY <3>2, <4>1 DEF NodeInv, KnowsServer
    <3>3. CASE ~(t = s /\ m = n)
      <4>1. Untouched(t, m) /\ KnowsServer(t, m)'
        BY <1>1, <2>1, <2>2, <2>3, <3>1, <3>3 DEF Entry, Untouched, NodeInv, KnowsServer
      <4> QED
        BY <3>1, <4>1, NodeKept
    <3> QED
      BY <3>2, <3>3
  <2> QED
    BY <2>4, <2>5 DEF NodesInv
<1>3. CASE class[s][n] # needed
  <2>1. UNCHANGED <<installed, set>> /\ crossed' = crossed \cup {<<s, n>>}
    BY <1>3 DEF SetContext
  <2>2. TablesOK'
    BY <1>1, <2>1 DEF StateInv, TablesOK
  <2>3. ASSUME NEW t \in Servers, NEW m \in Nodes[t] PROVE NodeInv(t, m)'
    <3>1. NodeInv(t, m)
      BY DEF StateInv, NodesInv
    <3>2. CASE t = s /\ m = n
      <4>1. /\ class'[t][m] # needed /\ ctx'[t][m] = context /\ class'[t][m] # None
            /\ <<t, m>> \in crossed'
        BY <1>1, <1>3, <2>1, <3>2 DEF Entry, Known
      <4> QED
        BY <3>2, <4>1 DEF NodeInv, KnowsServer
    <3>3. CASE ~(t = s /\ m = n)
      <4>1. Untouched(t, m) /\ KnowsServer(t, m)'
        BY <1>1, <2>1, <3>1, <3>3 DEF Entry, Untouched, NodeInv, KnowsServer
      <4> QED
        BY <3>1, <4>1, NodeKept
    <3> QED
      BY <3>2, <3>3
  <2> QED
    BY <2>2, <2>3 DEF NodesInv
<1> QED
  BY <1>2, <1>3

LEMMA SetVariableNode_valueCallbackInv ==
  ASSUME NEW s \in Servers, NEW n \in Nodes[s], NEW c \in ValueCallbacks
  PROVE  StateInv /\ SetVariableNode_valueCallback(s, n, c) => StateInv'
<1> SUFFICES ASSUME StateInv, SetVariableNode_valueCallback(s, n, c) PROVE StateInv'
  OBVIOUS
<1>1. /\ UNCHANGED <<phase, class, collected, outcome>>
      /\ _proxy' = [_proxy EXCEPT ![c] = s]
      /\ shared' = IF _proxy[c] \in {None, s} THEN shared ELSE shared \cup {c}
  BY DEF SetVariableNode_valueCallback
<1>2. Base'
  BY <1>1 DEF StateInv, Base
<1>3. _proxy'[c] = s /\ \A d \in ValueCallbacks : d # c => _proxy'[d] = _proxy[d]
  BY <1>1 DEF StateInv, Base
<1>4. \A t \in Servers : \A m \in Nodes[t] :
        ctx[t][m].kind = "value" => _proxy'[ctx[t][m].of] = t \/ ctx[t][m].of \in shared'
  <2> SUFFICES ASSUME NEW t \in Servers, NEW m \in Nodes[t], ctx[t][m].kind = "value"
               PROVE  _proxy'[ctx[t][m].of] = t \/ ctx[t][m].of \in shared'
    OBVIOUS
  <2>1. ctx[t][m] \in Contexts
    BY DEF StateInv, TablesOK, Table
  <2>2. ctx[t][m].of \in ValueCallbacks
    BY <2>1, ContextFacts
  <2>3. _proxy[ctx[t][m].of] = t \/ ctx[t][m].of \in shared
    BY DEF StateInv, NodesInv, NodeInv, KnowsServer
  <2>4. t # None
    BY ServerAssumption
  <2> QED
    BY <1>1, <1>3, <2>2, <2>3, <2>4
<1>5. TablesOK' /\ NodesInv'
  <2>1. CASE Known(s, n)
    <3>1. SetContext(s, n, ValueCtx(c), "variable")
      BY <2>1 DEF SetVariableNode_valueCallback
    <3>2. ValueCtx(c) \in Contexts /\ ValueCtx(c).kind = "value" /\ ValueCtx(c).of = c
      BY ContextFacts
    <3>3. ValueCtx(c).of \in Values
      BY <3>2 DEF Values
    <3> QED
      BY <1>1, <1>3, <1>4, <2>1, <3>1, <3>2, <3>3, SetContextInv
  <2>2. CASE ~Known(s, n)
    <3>1. UNCHANGED <<class, ctx, installed, set, crossed>>
      BY <1>1, <2>2 DEF SetVariableNode_valueCallback
    <3>2. TablesOK'
      BY <3>1 DEF StateInv, TablesOK
    <3>3. ASSUME NEW t \in Servers, NEW m \in Nodes[t] PROVE NodeInv(t, m)'
      <4>1. NodeInv(t, m) /\ Untouched(t, m)
        BY <3>1 DEF StateInv, NodesInv, Untouched
      <4>2. KnowsServer(t, m)'
        BY <1>4, <3>1 DEF KnowsServer
      <4> QED
        BY <4>1, <4>2, NodeKept
    <3> QED
      BY <3>2, <3>3 DEF NodesInv
  <2> QED
    BY <2>1, <2>2
<1> QED
  BY <1>2, <1>5 DEF StateInv

LEMMA SetMethodCallbackInv ==
  ASSUME NEW s \in Servers, NEW n \in Nodes[s], NEW f \in Functions
  PROVE  StateInv /\ SetMethodCallback(s, n, f) => StateInv'
<1> SUFFICES ASSUME StateInv, SetMethodCallback(s, n, f) PROVE StateInv'
  OBVIOUS
<1>1. /\ UNCHANGED <<phase, class, _proxy, collected, shared, outcome>> /\ Known(s, n)
      /\ SetContext(s, n, MethodCtx(f), "method")
  BY DEF SetMethodCallback
<1>2. MethodCtx(f) \in Contexts /\ MethodCtx(f).kind = "method" /\ MethodCtx(f).of \in Values
  BY ContextFacts DEF Values
<1>3. \A t \in Servers : \A m \in Nodes[t] :
        ctx[t][m].kind = "value" => _proxy'[ctx[t][m].of] = t \/ ctx[t][m].of \in shared'
  BY <1>1 DEF StateInv, NodesInv, NodeInv, KnowsServer
<1>4. TablesOK' /\ NodesInv'
  BY <1>1, <1>2, <1>3, SetContextInv
<1>5. Base'
  BY <1>1 DEF StateInv, Base
<1> QED
  BY <1>4, <1>5 DEF StateInv

LEMMA CollectServerInv ==
  ASSUME NEW s \in Servers
  PROVE  StateInv /\ CollectServer(s) => StateInv'
<1> SUFFICES ASSUME StateInv, CollectServer(s) PROVE StateInv'
  OBVIOUS
<1>1. /\ phase' = [phase EXCEPT ![s] = "gone"] /\ UNCHANGED <<_proxy, collected, shared, outcome>>
      /\ class' = [class EXCEPT ![s] = [n \in Nodes[s] |-> None]]
      /\ ctx' = [ctx EXCEPT ![s] = [n \in Nodes[s] |-> NoCtx]]
      /\ installed' = [installed EXCEPT ![s] = {}]
      /\ set' = [set EXCEPT ![s] = [n \in Nodes[s] |-> None]]
      /\ crossed' = {x \in crossed : x[1] # s}
  BY DEF CollectServer
<1>2. /\ Table(class', Classes \cup {None}) /\ Row(class', class, s, None)
      /\ Table(ctx', Contexts) /\ Row(ctx', ctx, s, NoCtx)
      /\ Table(set', Values) /\ Row(set', set, s, None)
  <2>1. /\ Table(class, Classes \cup {None}) /\ None \in Classes \cup {None}
        /\ Table(ctx, Contexts) /\ NoCtx \in Contexts /\ Table(set, Values) /\ None \in Values
    BY ContextFacts DEF StateInv, TablesOK, Values
  <2>2. Table(class', Classes \cup {None}) /\ Row(class', class, s, None)
    BY <1>1, <2>1, RowReplaced, Zenon
  <2>3. Table(ctx', Contexts) /\ Row(ctx', ctx, s, NoCtx)
    BY <1>1, <2>1, RowReplaced, Zenon
  <2>4. Table(set', Values) /\ Row(set', set, s, None)
    BY <1>1, <2>1, RowReplaced, Zenon
  <2> QED
    BY <2>2, <2>3, <2>4
<1>3. /\ installed' = [t \in Servers |-> installed'[t]]
      /\ \A t \in Servers : installed'[t] = IF t = s THEN {} ELSE installed[t]
  BY <1>1 DEF StateInv, TablesOK
<1>4. TablesOK'
  BY <1>2, <1>3 DEF StateInv, TablesOK
<1>5. Base'
  BY <1>1 DEF StateInv, Base
<1>6. ASSUME NEW t \in Servers, NEW m \in Nodes[t] PROVE NodeInv(t, m)'
  <2>1. NodeInv(t, m)
    BY DEF StateInv, NodesInv
  <2>2. CASE t = s
    <3>1. ctx'[t][m] = NoCtx /\ m \notin installed'[t]
      BY <1>2, <1>3, <2>2 DEF Row
    <3> QED
      BY <3>1, NodeFresh
  <2>3. CASE t # s
    <3>1. <<t, m>> \in crossed' <=> <<t, m>> \in crossed
      BY <1>1, <2>3
    <3>2. Untouched(t, m) /\ KnowsServer(t, m)'
      BY <1>1, <1>2, <1>3, <2>1, <2>3, <3>1 DEF Row, Untouched, NodeInv, KnowsServer
    <3> QED
      BY <2>1, <3>2, NodeKept
  <2> QED
    BY <2>2, <2>3
<1> QED
  BY <1>4, <1>5, <1>6 DEF StateInv, NodesInv

LEMMA LuaStepInv ==
  ASSUME NEW s \in Servers
  PROVE  StateInv /\ LuaStep(s) => StateInv' /\ outcome' = outcome
<1> SUFFICES ASSUME StateInv, LuaStep(s) PROVE StateInv' /\ outcome' = outcome
  OBVIOUS
<1>1. ASSUME NEW n \in Nodes[s], NEW as \in Classes, AddNode(s, n, as)
      PROVE  StateInv' /\ outcome' = outcome
  BY <1>1, AddNodeInv DEF AddNode
<1>2. ASSUME NEW n \in Nodes[s], DeleteNode(s, n)
      PROVE  StateInv' /\ outcome' = outcome
  BY <1>2, DeleteNodeInv DEF DeleteNode
<1>3. ASSUME NEW n \in Nodes[s], NEW c \in ValueCallbacks, SetVariableNode_valueCallback(s, n, c)
      PROVE  StateInv' /\ outcome' = outcome
  BY <1>3, SetVariableNode_valueCallbackInv DEF SetVariableNode_valueCallback
<1>4. ASSUME NEW n \in Nodes[s], NEW f \in Functions, SetMethodCallback(s, n, f)
      PROVE  StateInv' /\ outcome' = outcome
  BY <1>4, SetMethodCallbackInv DEF SetMethodCallback
<1>5. CASE Startup(s) \/ Shutdown(s) \/ Run(s)
  <2>1. PICK to \in {"idle", "started", "running"} : SetPhase(s, to)
    BY <1>5 DEF Startup, Shutdown, Run
  <2>2. /\ phase' = [phase EXCEPT ![s] = to] /\ UNCHANGED <<collected, outcome>>
        /\ UNCHANGED <<nodeVars, _proxy, shared>>
    BY <2>1 DEF SetPhase
  <2>3. Base'
    BY <2>2 DEF StateInv, Base
  <2> QED
    BY <2>2, <2>3, NodesUnchanged DEF StateInv
<1>6. CASE CollectServer(s)
  BY <1>6, CollectServerInv DEF CollectServer
<1> QED
  BY <1>1, <1>2, <1>3, <1>4, <1>5, <1>6 DEF LuaStep

-----------------------------------------------------------------------------
(* Being called back                                                       *)

LEMMA AccessValueInv ==
  ASSUME NEW s \in Servers, NEW n \in Nodes[s]
  PROVE  StateInv /\ AccessValue(s, n) => StateInv' /\ OutcomeInv'
<1> SUFFICES ASSUME StateInv, AccessValue(s, n) PROVE StateInv' /\ OutcomeInv'
  OBVIOUS
<1>1. /\ UNCHANGED <<phase, nodeVars, _proxy, collected, shared>> /\ Exists(s)
      /\ UNCHANGED <<class, ctx, installed, set, crossed>>
      /\ n \in installed[s] /\ class[s][n] = "variable" /\ outcome' = ValueCallback(s, n)
  BY DEF AccessValue, nodeVars
<1> DEFINE p == ctx[s][n]
<1>2. /\ <<s, n>> \in crossed \/ p.kind = "value"
      /\ p.kind = "value" => set[s][n] = p.of /\ (_proxy[p.of] = s \/ p.of \in shared)
  BY <1>1 DEF StateInv, NodesInv, NodeInv, KnowsServer
<1>3. /\ outcome'.op = "value" /\ outcome'.server = s /\ outcome'.node = n
      /\ outcome'.result \in {"ran", "rejected", "undefined"}
      /\ outcome'.result = "ran" =>
           p.kind = "value" /\ outcome'.ran = p.of /\ _proxy[p.of] = s
      /\ outcome'.result # "ran" =>
           p.kind # "value" \/ p.of \in collected \/ ~Exists(_proxy[p.of]) \/ _proxy[p.of] # s
  BY <1>1 DEF ValueCallback, Outcome
<1>4. Base'
  BY <1>1, <1>3 DEF StateInv, Base
<1>5. ValueCallbackIsTheOneSet'
  BY <1>1, <1>2, <1>3 DEF ValueCallbackIsTheOneSet
<1>6. ValueCallbackFailsOnlyWhenMisused'
  <2> SUFFICES ASSUME outcome'.result # "ran"
               PROVE  set[s][n] \in collected \cup shared \/ <<s, n>> \in crossed
    BY <1>1, <1>3 DEF ValueCallbackFailsOnlyWhenMisused
  <2> QED
    BY <1>1, <1>2, <1>3
<1> QED
  BY <1>1, <1>4, <1>5, <1>6, NodesUnchanged DEF StateInv, OutcomeInv

LEMMA CallMethodInv ==
  ASSUME NEW s \in Servers, NEW object \in Nodes[s], NEW n \in Nodes[s]
  PROVE  StateInv /\ CallMethod(s, object, n) => StateInv' /\ OutcomeInv'
<1> SUFFICES ASSUME StateInv, CallMethod(s, object, n) PROVE StateInv' /\ OutcomeInv'
  OBVIOUS
<1>1. /\ UNCHANGED <<phase, nodeVars, _proxy, collected, shared>>
      /\ UNCHANGED <<class, ctx, installed, set, crossed>>
      /\ outcome' = MethodCallback(s, object, n)
  BY DEF CallMethod, nodeVars
<1>2. outcome'.op = "method" /\ outcome'.result \in {"ran", "undefined"}
  BY <1>1 DEF MethodCallback, Outcome
<1>3. Base'
  BY <1>1, <1>2 DEF StateInv, Base
<1>4. OutcomeInv'
  BY <1>2 DEF OutcomeInv, ValueCallbackIsTheOneSet, ValueCallbackFailsOnlyWhenMisused
<1> QED
  BY <1>1, <1>3, <1>4, NodesUnchanged DEF StateInv

LEMMA NextIInv == IInv /\ [Next]_vars => IInv'
<1> SUFFICES ASSUME IInv, [Next]_vars PROVE IInv'
  OBVIOUS
<1>1. ASSUME NEW s \in Servers, outcome = Nothing, LuaStep(s) PROVE IInv'
  BY <1>1, LuaStepInv, QuietOutcome DEF IInv
<1>2. ASSUME NEW s \in Servers, CallBack(s) PROVE IInv'
  BY <1>2, AccessValueInv, CallMethodInv DEF IInv, CallBack
<1>3. ASSUME NEW c \in ValueCallbacks, outcome = Nothing, Collect(c) PROVE IInv'
  <2>1. /\ UNCHANGED <<nodeVars, _proxy, shared>> /\ UNCHANGED <<phase, outcome>>
        /\ collected' = collected \cup {c}
    BY <1>3 DEF Collect
  <2>2. Base'
    BY <2>1 DEF IInv, StateInv, Base
  <2> QED
    BY <1>3, <2>1, <2>2, NodesUnchanged, QuietOutcome DEF IInv, StateInv
<1>4. CASE Forget
  <2>1. UNCHANGED <<nodeVars, _proxy, shared>> /\ UNCHANGED <<phase, collected>> /\ outcome' = Nothing
    BY <1>4 DEF Forget
  <2>2. Base'
    BY <2>1, QuietOutcome DEF IInv, StateInv, Base
  <2> QED
    BY <2>1, <2>2, NodesUnchanged, QuietOutcome DEF IInv, StateInv
<1>5. CASE UNCHANGED vars
  <2>1. /\ UNCHANGED <<nodeVars, _proxy, shared>>
        /\ UNCHANGED <<phase, class, ctx, installed, set, crossed, collected, outcome>>
    BY <1>5 DEF vars, nodeVars
  <2>2. Base'
    BY <2>1 DEF IInv, StateInv, Base
  <2>3. OutcomeInv'
    BY <2>1 DEF IInv, OutcomeInv, ValueCallbackIsTheOneSet, ValueCallbackFailsOnlyWhenMisused
  <2> QED
    BY <2>1, <2>2, <2>3, NodesUnchanged DEF IInv, StateInv
<1> QED
  BY <1>1, <1>2, <1>3, <1>4, <1>5 DEF Next

LEMMA InitIInv == Init => IInv
<1> SUFFICES ASSUME Init PROVE IInv
  OBVIOUS
<1>1. TablesOK
  BY ContextFacts DEF Init, TablesOK, Table, Values
<1>2. Base
  BY DEF Init, Base, Nothing, Outcome
<1>3. NodesInv
  BY ContextFacts DEF Init, NodesInv, NodeInv, KnowsServer
<1>4. OutcomeInv
  BY DEF Init, Nothing, Outcome, OutcomeInv, ValueCallbackIsTheOneSet,
         ValueCallbackFailsOnlyWhenMisused
<1> QED
  BY <1>1, <1>2, <1>3, <1>4 DEF IInv, StateInv

-----------------------------------------------------------------------------
(* Theorems                                                                *)

(* The inductive invariant. *)
THEOREM Invariance == Spec => []IInv
BY InitIInv, NextIInv, PTL DEF Spec

(* The variables keep their types; a node that is not there has neither context nor
   callback. *)
THEOREM TypeCorrect == Spec => []TypeOK
<1>1. IInv => TypeOK
  BY DEF IInv, StateInv, TablesOK, Table, Base, NodesInv, NodeInv, TypeOK, Known
<1> QED
  BY <1>1, Invariance, PTL

(* The value callback that runs is the one set last, with the server it was set at. *)
THEOREM RightValueCallback == Spec => []ValueCallbackIsTheOneSet
<1>1. IInv => ValueCallbackIsTheOneSet
  BY DEF IInv, OutcomeInv
<1> QED
  BY <1>1, Invariance, PTL

(* Only collected, shared and misplaced callbacks fail. *)
THEOREM ValueCallbackRuns == Spec => []ValueCallbackFailsOnlyWhenMisused
<1>1. IInv => ValueCallbackFailsOnlyWhenMisused
  BY DEF IInv, OutcomeInv
<1> QED
  BY <1>1, Invariance, PTL
=============================================================================
