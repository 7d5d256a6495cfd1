------------------------------- MODULE Server -------------------------------
(***************************************************************************)
(* Server objects, UA_Server_Proxy, and the Lua functions called back for  *)
(* their nodes: value callbacks of variables and functions of methods.     *)
(*                                                                         *)
(* The library keeps one context pointer per node, whatever it is for.  A  *)
(* UA_ValueCallback_Proxy belongs to Lua and knows one server, _proxy; the *)
(* library knows it only by that raw pointer.  A call back runs to its end *)
(* in one step, and outcome is what the last one did.  The tree of the     *)
(* nodes is that of NodeTree; here they have only their class.             *)
(***************************************************************************)
CONSTANTS
  Servers,
  Nodes,           \* Nodes[s]: ids of the nodes Lua may add at server s
  ValueCallbacks,  \* UA_ValueCallback_Proxy objects
  Functions,       \* Lua functions of methods
  None

(* Views take contexts and no callbacks, like objects. *)
Classes == {"object", "variable", "method"}

ASSUME ServerAssumption == None \notin Servers \cup Classes

VARIABLES
  phase,      \* "idle", "started", "running" (in run()), "gone"
  class,      \* class[s][n]: class of a node, or None
  ctx,        \* ctx[s][n]: node context
  installed,  \* installed[s]: nodes whose value or method callback is set
  _proxy,     \* _proxy[c]
  collected,  \* value callbacks the garbage collector has freed
  set,        \* history: set[s][n], what Lua last set for a node with success
  shared,     \* history: value callbacks that were given to several servers
  crossed,    \* history: nodes that were given a context of the other kind
  outcome

nodeVars == <<class, ctx, installed, set, crossed>>
vars == <<phase, nodeVars, _proxy, collected, shared, outcome>>

-----------------------------------------------------------------------------
Outcome(op, s, object, n, ran, result) ==
  [op |-> op, server |-> s, object |-> object, node |-> n, ran |-> ran, result |-> result]
Nothing == Outcome("none", None, None, None, None, "none")

ValueCtx(c) == [kind |-> "value", of |-> c]
MethodCtx(f) == [kind |-> "method", of |-> f]
NoCtx == [kind |-> "null", of |-> None]

Exists(s) == phase[s] # "gone"
Known(s, n) == class[s][n] # None

-----------------------------------------------------------------------------
(* Nodes.  Lua runs outside run(), and in the callbacks of any server.     *)

AddNode(s, n, as) ==
  /\ Exists(s) /\ ~Known(s, n)
  /\ class' = [class EXCEPT ![s][n] = as]
  /\ UNCHANGED <<phase, ctx, installed, set, crossed, _proxy, collected, shared, outcome>>

(* Mutant: the context survives. *)
ForgetNodeKeepsContext(s, n) ==
  /\ installed' = [installed EXCEPT ![s] = @ \ {n}]
  /\ set' = [set EXCEPT ![s][n] = None]
  /\ crossed' = crossed \ {<<s, n>>}
  /\ UNCHANGED ctx

(* The context goes with the node; what it points to is not freed. *)
ForgetNode(s, n) ==
  /\ ctx' = [ctx EXCEPT ![s][n] = NoCtx]
  /\ installed' = [installed EXCEPT ![s] = @ \ {n}]
  /\ set' = [set EXCEPT ![s][n] = None]
  /\ crossed' = crossed \ {<<s, n>>}

DeleteNode(s, n) ==
  /\ Exists(s) /\ Known(s, n)
  /\ class' = [class EXCEPT ![s][n] = None]
  /\ ForgetNode(s, n)
  /\ UNCHANGED <<phase, _proxy, collected, shared, outcome>>

-----------------------------------------------------------------------------
(* Setting callbacks                                                       *)

(* Mutant: a context that is there is kept. *)
SetContextOnce(s, n, context, needed) ==
  /\ ctx' = [ctx EXCEPT ![s][n] = IF @ = NoCtx THEN context ELSE @]
  /\ IF class[s][n] = needed
     THEN /\ installed' = [installed EXCEPT ![s] = @ \cup {n}]
          /\ set' = [set EXCEPT ![s][n] = context.of]
          /\ crossed' = crossed \ {<<s, n>>}
     ELSE /\ crossed' = crossed \cup {<<s, n>>}
          /\ UNCHANGED <<installed, set>>

(* setNodeContext succeeds on any known node; installing the callback does so only on a
   node of the right class, but the context stays replaced. *)
SetContext(s, n, context, needed) ==
  /\ ctx' = [ctx EXCEPT ![s][n] = context]
  /\ IF class[s][n] = needed
     THEN /\ installed' = [installed EXCEPT ![s] = @ \cup {n}]
          /\ set' = [set EXCEPT ![s][n] = context.of]
          /\ crossed' = crossed \ {<<s, n>>}
     ELSE /\ crossed' = crossed \cup {<<s, n>>}
          /\ UNCHANGED <<installed, set>>

SetVariableNode_valueCallback(s, n, c) ==
  /\ Exists(s) /\ c \notin collected
  /\ _proxy' = [_proxy EXCEPT ![c] = s]
  /\ shared' = IF _proxy[c] \in {None, s} THEN shared ELSE shared \cup {c}
  /\ IF Known(s, n) THEN SetContext(s, n, ValueCtx(c), "variable")
     ELSE UNCHANGED <<ctx, installed, set, crossed>>
  /\ UNCHANGED <<phase, class, collected, outcome>>

SetMethodCallback(s, n, f) ==
  /\ Exists(s) /\ Known(s, n)
  /\ SetContext(s, n, MethodCtx(f), "method")
  /\ UNCHANGED <<phase, class, _proxy, collected, shared, outcome>>

(* Lua drops a callback object: nothing tells it that servers still use it. *)
Collect(c) ==
  /\ c \notin collected
  /\ collected' = collected \cup {c}
  /\ UNCHANGED <<phase, nodeVars, _proxy, shared, outcome>>

-----------------------------------------------------------------------------
(* Being called back.  The library passes the context of the node.         *)

(* Mutant: the function runs for whatever server the object knows. *)
ValueCallbackUnchecked(s, n) ==
  LET p == ctx[s][n]
      Ends(result) == Outcome("value", s, n, n, p.of, result)
  IN IF p.kind = "value" /\ p.of \notin collected THEN Ends("ran") ELSE Ends("undefined")

(* Read- and WriteCallback of UA_ValueCallback_Proxy, "Code error here" where the object
   belongs to another server.  Using what no longer exists is undefined. *)
ValueCallback(s, n) ==
  LET p == ctx[s][n]
      Ends(result) == Outcome("value", s, n, n, p.of, result)
  IN CASE p.kind # "value" \/ p.of \in collected -> Ends("undefined")
       [] OTHER -> CASE ~Exists(_proxy[p.of]) -> Ends("undefined")
                     [] _proxy[p.of] # s      -> Ends("rejected")
                     [] OTHER                 -> Ends("ran")

(* MethodCallback takes its data from the context of the object. *)
MethodCallback(s, object, n) ==
  IF ctx[s][object].kind = "method" THEN Outcome("method", s, object, n, ctx[s][object].of, "ran")
  ELSE Outcome("method", s, object, n, None, "undefined")

(* A client, or Lua through a node object, reads or writes the value of a variable. *)
AccessValue(s, n) ==
  /\ Exists(s) /\ n \in installed[s] /\ class[s][n] = "variable"
  /\ outcome' = ValueCallback(s, n)
  /\ UNCHANGED <<phase, nodeVars, _proxy, collected, shared>>

(* Only clients call methods: ServerNodeMgr::callMethod is not supported. *)
CallMethod(s, object, n) ==
  /\ phase[s] \in {"started", "running"}
  /\ n \in installed[s] /\ class[s][n] = "method" /\ class[s][object] = "object"
  /\ outcome' = MethodCallback(s, object, n)
  /\ UNCHANGED <<phase, nodeVars, _proxy, collected, shared>>

Forget ==
  /\ outcome # Nothing /\ outcome' = Nothing
  /\ UNCHANGED <<phase, nodeVars, _proxy, collected, shared>>

-----------------------------------------------------------------------------
(* Life cycle                                                              *)

SetPhase(s, to) ==
  /\ phase' = [phase EXCEPT ![s] = to]
  /\ UNCHANGED <<nodeVars, _proxy, collected, shared, outcome>>

Startup(s) == phase[s] = "idle" /\ SetPhase(s, "started")
Shutdown(s) == phase[s] = "started" /\ SetPhase(s, "idle")

(* run() comes back only when _running is false, and nothing ever makes it so. *)
Run(s) == phase[s] = "idle" /\ SetPhase(s, "running")

(* ~UA_Server_Proxy, when no call of the object is on the stack. *)
CollectServer(s) ==
  /\ phase[s] \in {"idle", "started"}
  /\ phase' = [phase EXCEPT ![s] = "gone"]
  /\ class' = [class EXCEPT ![s] = [n \in Nodes[s] |-> None]]
  /\ ctx' = [ctx EXCEPT ![s] = [n \in Nodes[s] |-> NoCtx]]
  /\ installed' = [installed EXCEPT ![s] = {}]
  /\ set' = [set EXCEPT ![s] = [n \in Nodes[s] |-> None]]
  /\ crossed' = {x \in crossed : x[1] # s}
  /\ UNCHANGED <<_proxy, collected, shared, outcome>>

Init ==
  /\ phase = [s \in Servers |-> "idle"]
  /\ class = [s \in Servers |-> [n \in Nodes[s] |-> None]]
  /\ ctx = [s \in Servers |-> [n \in Nodes[s] |-> NoCtx]]
  /\ installed = [s \in Servers |-> {}]
  /\ set = [s \in Servers |-> [n \in Nodes[s] |-> None]]
  /\ _proxy = [c \in ValueCallbacks |-> None]
  /\ collected = {} /\ shared = {} /\ crossed = {}
  /\ outcome = Nothing

LuaStep(s) ==
  \/ \E n \in Nodes[s] :
       \/ \E as \in Classes : AddNode(s, n, as)
       \/ DeleteNode(s, n)
       \/ \E c \in ValueCallbacks : SetVariableNode_valueCallback(s, n, c)
       \/ \E f \in Functions : SetMethodCallback(s, n, f)
  \/ Startup(s) \/ Shutdown(s) \/ Run(s) \/ CollectServer(s)

CallBack(s) ==
  \E n \in Nodes[s] : AccessValue(s, n) \/ \E object \in Nodes[s] : CallMethod(s, object, n)

(* An outcome is looked at before anything else happens. *)
Next ==
  \/ /\ outcome = Nothing
     /\ \/ \E s \in Servers : LuaStep(s) \/ CallBack(s)
        \/ \E c \in ValueCallbacks : Collect(c)
  \/ Forget

Spec == Init /\ [][Next]_vars

-----------------------------------------------------------------------------
(* Properties                                                              *)

Contexts == {NoCtx} \cup {ValueCtx(c) : c \in ValueCallbacks} \cup {MethodCtx(f) : f \in Functions}

TypeOK ==
  /\ phase \in [Servers -> {"idle", "started", "running", "gone"}]
  /\ \A s \in Servers :
       /\ class[s] \in [Nodes[s] -> Classes \cup {None}]
       /\ ctx[s] \in [Nodes[s] -> Contexts]
       /\ \A n \in Nodes[s] : ~Known(s, n) => ctx[s][n] = NoCtx /\ n \notin installed[s]
  /\ _proxy \in [ValueCallbacks -> Servers \cup {None}]
  /\ collected \subseteq ValueCallbacks /\ shared \subseteq ValueCallbacks
  /\ outcome.result \in {"none", "ran", "rejected", "undefined"}

(* A value callback that runs is the one Lua last set for the variable, and gets the
   server it was set at (the context and _proxy, both replaced by every set). *)
ValueCallbackIsTheOneSet ==
  outcome.op = "value" /\ outcome.result = "ran" =>
    /\ outcome.ran = set[outcome.server][outcome.node]
    /\ _proxy[outcome.ran] = outcome.server

(* A read or write fails to reach Lua in three cases only: the callback object was
   collected, it was given to a second server, or a method callback was set for the
   variable (the check of _proxy, and the cast of the context). *)
ValueCallbackFailsOnlyWhenMisused ==
  outcome.op = "value" /\ outcome.result # "ran" =>
    \/ set[outcome.server][outcome.node] \in collected \cup shared
    \/ <<outcome.server, outcome.node>> \in crossed

(* setMethodCallback(methodNodeId, func) sets the function of a method: a call of the
   method runs it (MethodCallback casts objectContext, setMethodCallback sets the context
   of the method). *)
CallRunsTheFunctionSet ==
  outcome.op = "method" =>
    outcome.result = "ran" /\ outcome.ran = set[outcome.server][outcome.node]
=============================================================================
