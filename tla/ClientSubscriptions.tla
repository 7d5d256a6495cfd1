------------------------ MODULE ClientSubscriptions ------------------------
(***************************************************************************)
(* A client object, UA_Client_Proxy, with its subscriptions and callbacks. *)
(* Everything runs in the thread of Lua.  While the library works on a     *)
(* call it may call back into Lua, which may call the client again, so     *)
(* that calls and callbacks nest: stack holds them, the innermost last.    *)
(* Lua has control when the stack is empty or a callback is on top, the    *)
(* library when a call is.                                                 *)
(*                                                                         *)
(* The library keeps its own list of subscriptions, subs, one for each it  *)
(* created in this session; the object keeps _subCallbackMap, from which   *)
(* nothing is ever erased, and the server may give out an id again after   *)
(* it was restarted.                                                       *)
(***************************************************************************)
EXTENDS Naturals, Sequences

CONSTANTS
  MaxId,         \* bound on the subscriptions one server gives out
  Callbacks,     \* Lua functions given to createSubscription
  StateCallbacks,\* Lua functions given to setStateCallback
  MaxDepth,      \* bound on the nesting of calls and callbacks
  MaxQueue,      \* bound on the notifications on their way
  None

SubIds == 1..MaxId

Calls == {"run_iterate", "connect", "disconnect", "createSubscription", "subscribeNode"}

ASSUME SubscriptionsAssumption ==
  /\ MaxId \in Nat
  /\ None \notin Callbacks \cup StateCallbacks
  /\ MaxDepth \in Nat /\ MaxQueue \in Nat

VARIABLES
  object,          \* "live", "deleting" while the finaliser runs, "gone"
  mgr,             \* does _mgr exist?
  _stateCallback,
  _subCallbackMap,
  stack,           \* calls and callbacks in progress
  session,         \* library: is a session activated?
  subs,            \* library: the callback each of its subscriptions was created with
  items,           \* library: subscriptions with a monitored item
  queue,           \* network: ids of the subscriptions notifications are for
  nextId           \* server: the id its next subscription gets

proxyVars == <<object, mgr, _stateCallback, _subCallbackMap>>
libVars == <<session, subs, items, queue, nextId>>
vars == <<proxyVars, stack, libVars>>

-----------------------------------------------------------------------------
(* Calls and callbacks                                                     *)

Frame(kind, cb, sub) == [kind |-> kind, cb |-> cb, sub |-> sub, failed |-> FALSE]

Top == stack[Len(stack)]
Below == SubSeq(stack, 1, Len(stack) - 1)

IsCallback(f) == f.kind \in {"notification", "stateChange"}
LuaRuns == stack # <<>> => IsCallback(Top)
LibraryRuns == ~LuaRuns
LibraryIn(kind) == stack # <<>> /\ Top.kind = kind

Push(frames, f) == Append(frames, f)
Return == stack' = Below

(* The requests under way in a session that ends all fail. *)
FailPending == [i \in DOMAIN stack |-> [stack[i] EXCEPT !.failed = TRUE]]

(* Mutant: the callback is called without a look whether there is one. *)
StateChangedUnchecked(frames) ==
  stack' = Push(frames, Frame("stateChange", _stateCallback, 0))

(* clientStateChangeCallback: the Lua function, if there is one, gets the object. *)
StateChanged(frames) ==
  stack' = IF _stateCallback = None THEN frames
           ELSE Push(frames, Frame("stateChange", _stateCallback, 0))

-----------------------------------------------------------------------------
(* The library and the server                                              *)

DropSession ==
  /\ session' = FALSE
  /\ subs' = [s \in SubIds |-> None]
  /\ items' = {} /\ queue' = <<>>

(* The library notices that the connection is gone; deleteSubscriptionCallback and
   handler_MonitoredItemDeleted only log. *)
SessionLost ==
  /\ LibraryRuns /\ Top.kind # "delete" /\ session
  /\ DropSession
  /\ StateChanged(FailPending)
  /\ UNCHANGED <<proxyVars, nextId>>

(* connect, or run_iterate which connects again by itself; the server may have been
   restarted since the last session. *)
SessionActivated ==
  /\ LibraryIn("connect") \/ LibraryIn("run_iterate")
  /\ ~session
  /\ session' = TRUE
  /\ nextId' \in {nextId, 1}
  /\ StateChanged(stack)
  /\ UNCHANGED <<proxyVars, subs, items, queue>>

(* Mutant: the entry of the callback goes with its subscription. *)
SubscriptionExpiresErases(s) ==
  /\ LibraryRuns /\ subs[s] # None
  /\ subs' = [subs EXCEPT ![s] = None]
  /\ items' = items \ {s}
  /\ _subCallbackMap' = [_subCallbackMap EXCEPT ![s] = None]
  /\ UNCHANGED <<object, mgr, _stateCallback, stack, session, queue, nextId>>

(* The server deletes a subscription; statusChangeSubscriptionCallback and
   deleteSubscriptionCallback only log. *)
SubscriptionExpires(s) ==
  /\ LibraryRuns /\ subs[s] # None
  /\ subs' = [subs EXCEPT ![s] = None]
  /\ items' = items \ {s}
  /\ UNCHANGED <<proxyVars, stack, session, queue, nextId>>

ValueChanges(s) ==
  /\ s \in items /\ Len(queue) < MaxQueue
  /\ queue' = Append(queue, s)
  /\ UNCHANGED <<proxyVars, stack, session, subs, items, nextId>>

(* handleMonitoredItemChange *)
HandleMonitoredItemChange(s) ==
  stack' = IF _subCallbackMap[s] = None THEN stack
           ELSE Push(stack, Frame("notification", _subCallbackMap[s], s))

(* Any call that waits for the server handles the notifications that arrive meanwhile;
   those for a subscription the library does not know are dropped there. *)
Dispatch ==
  /\ LibraryRuns /\ queue # <<>> /\ Len(stack) < MaxDepth
  /\ queue' = Tail(queue)
  /\ IF subs[Head(queue)] = None THEN UNCHANGED stack
     ELSE HandleMonitoredItemChange(Head(queue))
  /\ UNCHANGED <<proxyVars, session, subs, items, nextId>>

-----------------------------------------------------------------------------
(* The ends of the calls                                                   *)

(* run_iterate returns after its time; connect with a session or without one. *)
EndIterateOrConnect ==
  /\ LibraryIn("run_iterate") \/ LibraryIn("connect")
  /\ Return
  /\ UNCHANGED <<proxyVars, libVars>>

EndDisconnect ==
  /\ LibraryIn("disconnect")
  /\ IF session THEN /\ DropSession
                     /\ StateChanged(FailPending)
     ELSE Return /\ UNCHANGED <<session, subs, items, queue>>
  /\ UNCHANGED <<proxyVars, nextId>>

(* Mutant: an entry that is there already is kept, as std::map::insert does. *)
CreatedKeepsEntry ==
  /\ session /\ ~Top.failed /\ nextId \in SubIds
  /\ subs' = [subs EXCEPT ![nextId] = Top.cb]
  /\ _subCallbackMap' = [_subCallbackMap EXCEPT ![nextId] = IF @ = None THEN Top.cb ELSE @]
  /\ nextId' = nextId + 1

(* Mutant: the callback is not stored. *)
CreatedWithoutCallback ==
  /\ session /\ ~Top.failed /\ nextId \in SubIds
  /\ subs' = [subs EXCEPT ![nextId] = Top.cb]
  /\ nextId' = nextId + 1
  /\ UNCHANGED _subCallbackMap

(* The callback is stored when the server has created the subscription. *)
Created ==
  /\ session /\ ~Top.failed /\ nextId \in SubIds
  /\ subs' = [subs EXCEPT ![nextId] = Top.cb]
  /\ _subCallbackMap' = [_subCallbackMap EXCEPT ![nextId] = Top.cb]
  /\ nextId' = nextId + 1

CreationFailed == UNCHANGED <<subs, _subCallbackMap, nextId>>

EndCreateSubscription ==
  /\ LibraryIn("createSubscription")
  /\ Created \/ CreationFailed
  /\ Return
  /\ UNCHANGED <<object, mgr, _stateCallback, session, items, queue>>

EndSubscribeNode ==
  /\ LibraryIn("subscribeNode")
  /\ \/ /\ session /\ ~Top.failed /\ subs[Top.sub] # None
        /\ items' = items \cup {Top.sub}
     \/ UNCHANGED items
  /\ Return
  /\ UNCHANGED <<proxyVars, session, subs, queue, nextId>>

(* Mutant: the finaliser deletes _mgr first. *)
EndDeleteMgrFirst ==
  /\ LibraryIn("delete")
  /\ mgr' = FALSE
  /\ IF session THEN DropSession /\ StateChanged(FailPending) /\ UNCHANGED object
     ELSE /\ object' = "gone"
          /\ Return
          /\ UNCHANGED <<session, subs, items, queue>>
  /\ UNCHANGED <<_stateCallback, _subCallbackMap, nextId>>

(* ~UA_Client_Proxy: UA_Client_delete closes the session, which calls back once more;
   _mgr and the members follow. *)
EndDelete ==
  /\ LibraryIn("delete")
  /\ IF session THEN DropSession /\ StateChanged(FailPending) /\ UNCHANGED <<object, mgr>>
     ELSE /\ object' = "gone" /\ mgr' = FALSE
          /\ Return
          /\ UNCHANGED <<session, subs, items, queue>>
  /\ UNCHANGED <<_stateCallback, _subCallbackMap, nextId>>

-----------------------------------------------------------------------------
(* Lua                                                                     *)

(* The main program and callbacks may make any call.  Two frames are left for a change
   of state and a notification during the call. *)
MayCall ==
  /\ LuaRuns /\ object = "live"
  /\ stack # <<>> => Len(stack) < MaxDepth - 1

Begin(f) ==
  /\ MayCall
  /\ stack' = Push(stack, f)
  /\ UNCHANGED <<proxyVars, libVars>>

RunIterate == Begin(Frame("run_iterate", None, 0))
Connect == Begin(Frame("connect", None, 0))
Disconnect == Begin(Frame("disconnect", None, 0))
CreateSubscription(cb) == Begin(Frame("createSubscription", cb, 0))
SubscribeNode(s) == Begin(Frame("subscribeNode", None, s))

(* At any time Lua runs, also from the state callback itself. *)
SetStateCallback(cb) ==
  /\ LuaRuns /\ object = "live"
  /\ _stateCallback' = cb
  /\ UNCHANGED <<object, mgr, _subCallbackMap, stack, libVars>>

CallbackReturns ==
  /\ stack # <<>> /\ IsCallback(Top)
  /\ Return
  /\ UNCHANGED <<proxyVars, libVars>>

(* The garbage collector finalises the object, which no call has on its stack. *)
Collect ==
  /\ stack = <<>> /\ object = "live"
  /\ object' = "deleting"
  /\ stack' = <<Frame("delete", None, 0)>>
  /\ UNCHANGED <<mgr, _stateCallback, _subCallbackMap, libVars>>

Init ==
  /\ object = "live" /\ mgr = TRUE
  /\ _stateCallback = None
  /\ _subCallbackMap = [s \in SubIds |-> None]
  /\ stack = <<>>
  /\ session = FALSE /\ nextId = 1
  /\ subs = [s \in SubIds |-> None] /\ items = {} /\ queue = <<>>

LibraryEvent == SessionLost \/ SessionActivated \/ \E s \in SubIds : SubscriptionExpires(s)

End ==
  \/ EndIterateOrConnect \/ EndDisconnect \/ EndCreateSubscription
  \/ EndSubscribeNode \/ EndDelete

LuaCall ==
  \/ RunIterate \/ Connect \/ Disconnect
  \/ \E cb \in Callbacks : CreateSubscription(cb)
  \/ \E s \in SubIds : SubscribeNode(s)
  \/ \E cb \in StateCallbacks \cup {None} : SetStateCallback(cb)

Next ==
  \/ LibraryEvent \/ Dispatch \/ End
  \/ \E s \in SubIds : ValueChanges(s)
  \/ LuaCall \/ CallbackReturns \/ Collect

Spec == Init /\ [][Next]_vars

(* Lua's callbacks return, its main loop comes back to run_iterate as that of
   test/sub_client.lua does, and the library handles what has arrived before
   run_iterate returns for good. *)
FairSpec ==
  /\ Spec
  /\ SF_vars(CallbackReturns) /\ SF_vars(End)
  /\ SF_vars(stack = <<>> /\ RunIterate)
  /\ SF_vars(LibraryIn("run_iterate") /\ Len(stack) = 1 /\ Dispatch)

-----------------------------------------------------------------------------
(* Properties                                                              *)

Kinds == Calls \cup {"delete", "notification", "stateChange"}

Frames == [kind : Kinds, cb : Callbacks \cup StateCallbacks \cup {None},
           sub : SubIds \cup {0}, failed : BOOLEAN]

TypeOK ==
  /\ object \in {"live", "deleting", "gone"} /\ mgr \in BOOLEAN /\ session \in BOOLEAN
  /\ _stateCallback \in StateCallbacks \cup {None}
  /\ _subCallbackMap \in [SubIds -> Callbacks \cup {None}]
  /\ subs \in [SubIds -> Callbacks \cup {None}]
  /\ items \subseteq SubIds /\ nextId \in Nat
  /\ queue \in Seq(SubIds) /\ Len(queue) <= MaxQueue
  /\ stack \in Seq(Frames)
  /\ \A i \in DOMAIN stack : IsCallback(stack[i]) => stack[i].cb # None

(* A notification reaches the function its subscription was created with, never that of
   an earlier subscription with the same id, and none is dropped by the object
   (createSubscription assigns the entry, handleMonitoredItemChange finds it). *)
NotificationsFindTheirCallback ==
  \A s \in SubIds : subs[s] # None => _subCallbackMap[s] = subs[s]

(* The function of a running notification callback stays in its entry, and so is not
   destroyed, as long as the session that called it has not ended, whatever it creates,
   connects or iterates and whatever expires below it (_subCallbackMap[id] = callback
   replaces, and no code erases).  Once the session has ended nothing protects it: a
   restarted server may give its id to the next subscription. *)
RunningCallbackIsKept ==
  \A i \in DOMAIN stack :
    stack[i].kind = "notification" /\ ~stack[i].failed =>
      _subCallbackMap[stack[i].sub] = stack[i].cb

(* A callback gets an object whose members still exist, also the one the finaliser
   causes (~UA_Client_Proxy deletes the client before _mgr). *)
CallbackFindsObject ==
  (\E i \in DOMAIN stack : IsCallback(stack[i])) => object # "gone" /\ mgr

(* A notification on its way is handed to Lua, unless its subscription ends. *)
NotificationsArrive ==
  \A s \in SubIds :
    (\E i \in DOMAIN queue : queue[i] = s) ~>
      \/ \E i \in DOMAIN stack : stack[i].kind = "notification" /\ stack[i].sub = s
      \/ subs[s] = None
=============================================================================
