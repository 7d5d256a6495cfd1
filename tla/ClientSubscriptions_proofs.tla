--------------------- MODULE ClientSubscriptions_proofs ---------------------
(***************************************************************************)
(* Safety of ClientSubscriptions, for every number of ids, every set of    *)
(* callbacks and every bound.                                              *)
(*                                                                         *)
(* Every action changes the stack in one of two ways: it keeps a prefix,   *)
(* or it adds one frame.  IInv says what a frame of each kind holds, that  *)
(* a subscription of the library belongs to the session and is older than  *)
(* the next id, and that nothing runs on an object that is gone.           *)
(* NotifInv adds that a notification whose session has not ended runs in   *)
(* that session, from an entry older than the next id.                     *)
(***************************************************************************)
EXTENDS ClientSubscriptions, SequenceTheorems, TLAPS

(* f is the frame g, whose session may have ended meanwhile. *)
Same(f, g) == f.kind = g.kind /\ f.cb = g.cb /\ f.sub = g.sub /\ (g.failed => f.failed)

Keeps ==
  /\ stack' \in Seq(Frames) /\ Len(stack') <= Len(stack)
  /\ \A i \in 1..Len(stack') : Same(stack'[i], stack[i])

Adds(f) ==
  /\ stack' \in Seq(Frames) /\ Len(stack') = Len(stack) + 1
  /\ \A i \in 1..Len(stack) : Same(stack'[i], stack[i])
  /\ Same(stack'[Len(stack')], f)

AddsStateChange == _stateCallback # None /\ Adds(Frame("stateChange", _stateCallback, 0))

FrameOK(f, i) ==
  /\ f.kind = "createSubscription" => f.cb \in Callbacks
  /\ f.kind = "subscribeNode" => f.sub \in SubIds
  /\ f.kind = "notification" => f.cb \in Callbacks /\ f.sub \in SubIds
  /\ f.kind = "stateChange" => f.cb # None
  /\ f.kind = "delete" => i = 1

FramesInv == \A i \in DOMAIN stack : FrameOK(stack[i], i)

SubsInv ==
  \A s \in SubIds : subs[s] # None => session /\ s < nextId /\ _subCallbackMap[s] = subs[s]

ObjectInv == (object = "gone" => stack = <<>>) /\ (object # "gone" => mgr)

IInv == TypeOK /\ FramesInv /\ SubsInv /\ ObjectInv

-----------------------------------------------------------------------------
(* The stack                                                               *)

(* A frame that Lua or the library makes is a frame. *)
LEMMA FrameType ==
  ASSUME NEW kind \in Kinds, NEW cb \in Callbacks \cup StateCallbacks \cup {None},
         NEW sub \in SubIds \cup {0}
  PROVE  /\ Frame(kind, cb, sub) \in Frames
         /\ Frame(kind, cb, sub).kind = kind /\ Frame(kind, cb, sub).cb = cb
         /\ Frame(kind, cb, sub).sub = sub
BY DEF Frame, Frames

(* Push adds a frame, also to a stack whose requests have all failed. *)
LEMMA PushAdds ==
  ASSUME NEW f \in Frames, NEW frames \in Seq(Frames), TypeOK,
         Len(frames) = Len(stack), \A i \in 1..Len(stack) : Same(frames[i], stack[i]),
         stack' = Push(frames, f)
  PROVE  Adds(f)
BY DEF Push, Adds, Same, TypeOK

(* Return keeps all but the last frame. *)
LEMMA ReturnKeeps ==
  ASSUME TypeOK, stack # <<>>, Return
  PROVE  Keeps /\ Len(stack') = Len(stack) - 1
<1>1. Len(stack) \in Nat \ {0} /\ stack \in Seq(Frames)
  BY DEF TypeOK
<1>2. /\ Below \in Seq(Frames) /\ Len(Below) = Len(stack) - 1
      /\ \A i \in 1..Len(Below) : Below[i] = stack[i]
  <2> DEFINE n == Len(stack) - 1
             b == SubSeq(stack, 1, n)
  <2>1. n \in Nat /\ \A i \in 1..n : stack[i] \in Frames
    BY <1>1
  <2>2. /\ b \in Seq(Frames)
        /\ Len(b) = IF 1 <= n THEN n - 1 + 1 ELSE 0
        /\ \A i \in 1..(n - 1 + 1) : b[i] = stack[1 + i - 1]
    <3> HIDE DEF n
    <3> QED
      BY <2>1, SubSeqProperties
  <2>3. Below = b
    BY DEF Below
  <2> HIDE DEF b, n
  <2>4. Len(b) = n /\ \A i \in 1..n : b[i] = stack[i]
    BY <2>1, <2>2
  <2> QED
    BY <2>2, <2>3, <2>4 DEF n
<1> QED
  BY <1>1, <1>2 DEF Return, Keeps, Same

(* A stack that does not change is kept. *)
LEMMA UnchangedKeeps ==
  ASSUME TypeOK, stack' = stack
  PROVE  Keeps
BY DEF TypeOK, Keeps, Same

(* Failing the requests under way changes no kind, callback or subscription. *)
LEMMA FailPendingSame ==
  ASSUME TypeOK
  PROVE  /\ FailPending \in Seq(Frames) /\ Len(FailPending) = Len(stack)
         /\ \A i \in 1..Len(stack) : Same(FailPending[i], stack[i]) /\ FailPending[i].failed
<1>1. stack \in Seq(Frames) /\ Len(stack) \in Nat /\ DOMAIN stack = 1..Len(stack)
  BY DEF TypeOK
<1>2. \A i \in 1..Len(stack) : /\ [stack[i] EXCEPT !.failed = TRUE] \in Frames
                               /\ Same([stack[i] EXCEPT !.failed = TRUE], stack[i])
                               /\ [stack[i] EXCEPT !.failed = TRUE].failed
  <2> TAKE i \in 1..Len(stack)
  <2>1. stack[i] \in Frames
    BY <1>1
  <2> QED
    BY <2>1 DEF Frames, Same
<1>3. FailPending = [i \in 1..Len(stack) |-> [stack[i] EXCEPT !.failed = TRUE]]
  BY <1>1 DEF FailPending
<1>4. FailPending \in [1..Len(stack) -> Frames]
  BY <1>2, <1>3
<1>5. FailPending \in Seq(Frames) /\ Len(FailPending) = Len(stack)
  BY <1>1, <1>4
<1> QED
  BY <1>2, <1>3, <1>5

(* A change of state adds the frame of the callback if there is one. *)
LEMMA StateChangedShape ==
  ASSUME NEW frames \in Seq(Frames), TypeOK,
         Len(frames) = Len(stack), \A i \in 1..Len(stack) : Same(frames[i], stack[i]),
         StateChanged(frames)
  PROVE  Keeps \/ AddsStateChange
<1>1. CASE _stateCallback = None
  <2>1. stack' = frames
    BY <1>1 DEF StateChanged
  <2>2. Keeps
    BY <2>1 DEF Keeps, TypeOK
  <2> QED
    BY <2>2
<1>2. CASE _stateCallback # None
  <2>1. Frame("stateChange", _stateCallback, 0) \in Frames
    BY FrameType DEF TypeOK, Kinds
  <2>2. stack' = Push(frames, Frame("stateChange", _stateCallback, 0))
    BY <1>2 DEF StateChanged
  <2>3. Adds(Frame("stateChange", _stateCallback, 0))
    BY <2>1, <2>2, PushAdds
  <2> QED
    BY <1>2, <2>3 DEF AddsStateChange
<1> QED
  BY <1>1, <1>2

-----------------------------------------------------------------------------
(* What the shape of a step means for the frames                           *)

StackOK ==
  /\ stack \in Seq(Frames)
  /\ \A i \in DOMAIN stack : IsCallback(stack[i]) => stack[i].cb # None

(* A prefix that is kept keeps its typing and the contents of its frames. *)
LEMMA FramesKept ==
  ASSUME TypeOK, FramesInv, Keeps
  PROVE  StackOK' /\ FramesInv'
<1>1. /\ stack \in Seq(Frames) /\ stack' \in Seq(Frames)
      /\ \A i \in 1..Len(stack') : i \in 1..Len(stack) /\ Same(stack'[i], stack[i])
  BY DEF TypeOK, Keeps
<1>2. \A i \in 1..Len(stack) : FrameOK(stack[i], i) /\ (IsCallback(stack[i]) => stack[i].cb # None)
  BY <1>1 DEF FramesInv, TypeOK
<1>3. ASSUME NEW i \in 1..Len(stack')
      PROVE  FrameOK(stack[i], i)' /\ (IsCallback(stack'[i]) => stack'[i].cb # None)
  BY <1>1, <1>2, <1>3 DEF FrameOK, Same, IsCallback
<1> QED
  BY <1>1, <1>3 DEF StackOK, FramesInv, IsCallback

(* A new frame needs only its own contents. *)
LEMMA FramesAdded ==
  ASSUME TypeOK, FramesInv, NEW f, Adds(f), FrameOK(f, Len(stack) + 1),
         IsCallback(f) => f.cb # None
  PROVE  StackOK' /\ FramesInv'
<1>1. /\ stack \in Seq(Frames) /\ stack' \in Seq(Frames) /\ Len(stack') = Len(stack) + 1
      /\ \A i \in 1..Len(stack) : Same(stack'[i], stack[i])
      /\ Same(stack'[Len(stack) + 1], f)
  BY DEF TypeOK, Adds
<1>2. \A i \in 1..Len(stack) : FrameOK(stack[i], i) /\ (IsCallback(stack[i]) => stack[i].cb # None)
  BY <1>1 DEF FramesInv, TypeOK
<1>3. ASSUME NEW i \in 1..Len(stack')
      PROVE  FrameOK(stack[i], i)' /\ (IsCallback(stack'[i]) => stack'[i].cb # None)
  <2>1. CASE i \in 1..Len(stack)
    BY <2>1, <1>1, <1>2 DEF FrameOK, Same, IsCallback
  <2>2. CASE i = Len(stack) + 1
    BY <2>2, <1>1 DEF FrameOK, Same, IsCallback
  <2> QED
    BY <1>1, <2>1, <2>2
<1> QED
  BY <1>1, <1>3 DEF StackOK, FramesInv, IsCallback

(* The callback of a change of state is a frame like any other. *)
LEMMA StateChangeAdded ==
  ASSUME TypeOK, FramesInv, Keeps \/ AddsStateChange
  PROVE  StackOK' /\ FramesInv'
<1>1. CASE Keeps
  BY <1>1, FramesKept
<1>2. CASE AddsStateChange
  <2> DEFINE f == Frame("stateChange", _stateCallback, 0)
  <2>1. f.kind = "stateChange" /\ f.cb = _stateCallback /\ _stateCallback # None /\ Adds(f)
    BY <1>2 DEF AddsStateChange, Frame
  <2>2. FrameOK(f, Len(stack) + 1) /\ f.cb # None
    BY <2>1 DEF FrameOK
  <2> HIDE DEF f
  <2> QED
    BY <2>1, <2>2, FramesAdded
<1> QED
  BY <1>1, <1>2

-----------------------------------------------------------------------------
(* Every step preserves IInv                                               *)

(* Type correctness but for the stack. *)
RestOK ==
  /\ object \in {"live", "deleting", "gone"} /\ mgr \in BOOLEAN /\ session \in BOOLEAN
  /\ _stateCallback \in StateCallbacks \cup {None}
  /\ _subCallbackMap \in [SubIds -> Callbacks \cup {None}]
  /\ subs \in [SubIds -> Callbacks \cup {None}]
  /\ items \subseteq SubIds /\ nextId \in Nat
  /\ queue \in Seq(SubIds) /\ Len(queue) <= MaxQueue

LEMMA TypeOKSplit == (TypeOK <=> RestOK /\ StackOK) /\ (TypeOK' <=> RestOK' /\ StackOK')
BY DEF TypeOK, RestOK, StackOK

(* A session that ends takes its subscriptions along. *)
LEMMA DropSessionOK ==
  ASSUME DropSession
  PROVE  /\ session' \in BOOLEAN /\ subs' \in [SubIds -> Callbacks \cup {None}]
         /\ items' \subseteq SubIds /\ queue' \in Seq(SubIds) /\ Len(queue') = 0
         /\ \A s \in SubIds : subs'[s] = None
<1>1. session' \in BOOLEAN
  BY Zenon DEF DropSession
<1>2. subs' \in [SubIds -> Callbacks \cup {None}] /\ \A s \in SubIds : subs'[s] = None
  BY Zenon DEF DropSession
<1>3. items' \subseteq SubIds /\ queue' = <<>>
  BY Zenon DEF DropSession
<1> QED
  BY <1>1, <1>2, <1>3

(* What is on top may be assumed to be in order. *)
LEMMA TopFrame ==
  ASSUME TypeOK, FramesInv, stack # <<>>
  PROVE  Top \in Frames /\ FrameOK(Top, Len(stack)) /\ Len(stack) \in Nat \ {0}
BY DEF TypeOK, FramesInv, Top

(* The session ends: by itself, at disconnect, or below the finaliser. *)
LEMMA SessionEnds ==
  ASSUME IInv, stack # <<>>, DropSession, StateChanged(FailPending),
         UNCHANGED <<proxyVars, nextId>>
  PROVE  IInv'
<1>1. Keeps \/ AddsStateChange
  BY FailPendingSame, StateChangedShape DEF IInv
<1>2. UNCHANGED <<object, mgr, _stateCallback, _subCallbackMap>>
  BY DEF proxyVars
<1>3. StackOK' /\ FramesInv'
  BY <1>1, StateChangeAdded DEF IInv
<1>4. RestOK'
  <2>1. RestOK
    BY TypeOKSplit DEF IInv
  <2>2. MaxQueue \in Nat
    BY SubscriptionsAssumption
  <2> QED
    BY <1>2, <2>1, <2>2, DropSessionOK DEF RestOK
<1>5. SubsInv'
  BY DropSessionOK DEF SubsInv
<1>6. ObjectInv'
  BY <1>2 DEF IInv, ObjectInv
<1> QED
  BY <1>3, <1>4, <1>5, <1>6, TypeOKSplit DEF IInv

LEMMA SessionLostIInv == IInv /\ SessionLost => IInv'
<1> SUFFICES ASSUME IInv, SessionLost PROVE IInv'
  OBVIOUS
<1>1. stack # <<>>
  BY DEF SessionLost, LibraryRuns, LuaRuns
<1> QED
  BY <1>1, SessionEnds DEF SessionLost

LEMMA SessionActivatedIInv == IInv /\ SessionActivated => IInv'
<1> SUFFICES ASSUME IInv, SessionActivated PROVE IInv'
  OBVIOUS
<1>1. stack \in Seq(Frames) /\ stack # <<>> /\ ~session
  BY DEF IInv, TypeOK, SessionActivated, LibraryIn
<1>2. Keeps \/ AddsStateChange
  <2>1. StateChanged(stack) /\ \A i \in 1..Len(stack) : Same(stack[i], stack[i])
    BY DEF SessionActivated, Same
  <2> QED
    BY <1>1, <2>1, StateChangedShape DEF IInv
<1>3. UNCHANGED <<object, mgr, _stateCallback, _subCallbackMap, subs, items, queue>>
  BY DEF SessionActivated, proxyVars
<1>4. StackOK' /\ FramesInv'
  BY <1>2, <1>3, StateChangeAdded DEF IInv
<1>5. session' \in BOOLEAN /\ nextId' \in Nat
  BY DEF SessionActivated, IInv, TypeOK
<1>6. RestOK'
  BY <1>3, <1>5, TypeOKSplit DEF IInv, RestOK
<1>7. SubsInv'
  BY <1>1, <1>3 DEF IInv, SubsInv
<1>8. ObjectInv'
  BY <1>1, <1>3 DEF IInv, ObjectInv
<1> QED
  BY <1>4, <1>6, <1>7, <1>8, TypeOKSplit DEF IInv

LEMMA SubscriptionExpiresIInv ==
  ASSUME NEW s \in SubIds
  PROVE  IInv /\ SubscriptionExpires(s) => IInv'
<1> SUFFICES ASSUME IInv, SubscriptionExpires(s) PROVE IInv'
  OBVIOUS
<1>1. UNCHANGED <<object, mgr, _stateCallback, _subCallbackMap, stack, session, queue, nextId>>
  BY DEF SubscriptionExpires, proxyVars
<1>2. /\ subs' \in [SubIds -> Callbacks \cup {None}] /\ items' \subseteq SubIds
      /\ \A x \in SubIds : subs'[x] # None => subs[x] = subs'[x]
  BY DEF SubscriptionExpires, IInv, TypeOK
<1>3. StackOK' /\ FramesInv'
  BY <1>1, UnchangedKeeps, FramesKept DEF IInv
<1>4. RestOK'
  BY <1>1, <1>2, TypeOKSplit DEF IInv, RestOK
<1>5. SubsInv'
  BY <1>1, <1>2 DEF IInv, SubsInv
<1>6. ObjectInv'
  BY <1>1 DEF IInv, ObjectInv
<1> QED
  BY <1>3, <1>4, <1>5, <1>6, TypeOKSplit DEF IInv

LEMMA ValueChangesIInv ==
  ASSUME NEW s \in SubIds
  PROVE  IInv /\ ValueChanges(s) => IInv'
<1> SUFFICES ASSUME IInv, ValueChanges(s) PROVE IInv'
  OBVIOUS
<1>1. UNCHANGED <<object, mgr, _stateCallback, _subCallbackMap, stack, session, subs, items, nextId>>
  BY DEF ValueChanges, proxyVars
<1>2. queue' \in Seq(SubIds) /\ Len(queue') <= MaxQueue
  BY SubscriptionsAssumption DEF ValueChanges, IInv, TypeOK
<1>3. StackOK' /\ FramesInv'
  BY <1>1, UnchangedKeeps, FramesKept DEF IInv
<1>4. RestOK'
  BY <1>1, <1>2, TypeOKSplit DEF IInv, RestOK
<1>5. SubsInv' /\ ObjectInv'
  BY <1>1 DEF IInv, SubsInv, ObjectInv
<1> QED
  BY <1>3, <1>4, <1>5, TypeOKSplit DEF IInv

(* The frame of a notification holds the callback of its subscription. *)
LEMMA NotificationFrame ==
  ASSUME IInv, NEW s \in SubIds, subs[s] # None,
         HandleMonitoredItemChange(s)
  PROVE  \E f \in Frames : /\ f = Frame("notification", _subCallbackMap[s], s)
                           /\ Adds(f) /\ f.kind = "notification"
                           /\ f.sub = s /\ s < nextId
                           /\ f.cb = _subCallbackMap[s] /\ f.cb \in Callbacks
<1>1. _subCallbackMap[s] = subs[s] /\ subs[s] \in Callbacks /\ s < nextId
  BY DEF IInv, TypeOK, SubsInv
<1> DEFINE f == Frame("notification", _subCallbackMap[s], s)
<1>2. f \in Frames /\ f.kind = "notification" /\ f.sub = s /\ f.cb = _subCallbackMap[s]
  BY <1>1, FrameType DEF Kinds
<1>3. stack' = Push(stack, f)
  BY <1>1 DEF HandleMonitoredItemChange
<1>4. Adds(f)
  <2> HIDE DEF f
  <2>1. stack \in Seq(Frames) /\ \A i \in 1..Len(stack) : Same(stack[i], stack[i])
    BY DEF IInv, TypeOK, Same
  <2> QED
    BY <1>2, <1>3, <2>1, PushAdds DEF IInv
<1> QED
  BY <1>1, <1>2, <1>4

LEMMA DispatchIInv == IInv /\ Dispatch => IInv'
<1> SUFFICES ASSUME IInv, Dispatch PROVE IInv'
  OBVIOUS
<1>1. UNCHANGED <<object, mgr, _stateCallback, _subCallbackMap, session, subs, items, nextId>>
  BY DEF Dispatch, proxyVars
<1>2. /\ queue' \in Seq(SubIds) /\ Len(queue') <= MaxQueue
      /\ Head(queue) \in SubIds /\ stack # <<>>
  <2>1. queue \in Seq(SubIds) /\ queue # <<>> /\ queue' = Tail(queue)
    BY DEF IInv, TypeOK, Dispatch
  <2>2. Head(queue) \in SubIds /\ queue' \in Seq(SubIds) /\ Len(queue') = Len(queue) - 1
    BY <2>1, HeadTailProperties
  <2>3. Len(queue) \in Nat /\ Len(queue) <= MaxQueue
    BY <2>1 DEF IInv, TypeOK
  <2> QED
    BY <2>2, <2>3, SubscriptionsAssumption DEF Dispatch, LibraryRuns, LuaRuns
<1>3. StackOK' /\ FramesInv'
  <2>1. CASE subs[Head(queue)] = None
    BY <1>1, <2>1, UnchangedKeeps, FramesKept DEF IInv, Dispatch
  <2>2. CASE subs[Head(queue)] # None
    <3>1. HandleMonitoredItemChange(Head(queue))
      BY <2>2 DEF Dispatch
    <3>2. PICK f \in Frames : Adds(f) /\ f.kind = "notification" /\ f.sub \in SubIds /\ f.cb \in Callbacks
      BY <1>2, <2>2, <3>1, NotificationFrame
    <3>3. FrameOK(f, Len(stack) + 1) /\ f.cb # None
      BY <3>2, SubscriptionsAssumption DEF FrameOK
    <3> QED
      BY <1>1, <3>2, <3>3, FramesAdded DEF IInv
  <2> QED
    BY <2>1, <2>2
<1>4. RestOK'
  BY <1>1, <1>2, TypeOKSplit DEF IInv, RestOK
<1>5. SubsInv'
  BY <1>1 DEF IInv, SubsInv
<1>6. ObjectInv'
  BY <1>1, <1>2 DEF IInv, ObjectInv
<1> QED
  BY <1>3, <1>4, <1>5, <1>6, TypeOKSplit DEF IInv

(* The steps that take the last frame away and change nothing but items. *)
LEMMA ReturnsIInv ==
  ASSUME IInv, stack # <<>>, Return, items' \subseteq SubIds,
         UNCHANGED <<proxyVars, session, subs, queue, nextId>>
  PROVE  IInv'
<1>1. UNCHANGED <<object, mgr, _stateCallback, _subCallbackMap>>
  BY DEF proxyVars
<1>2. StackOK' /\ FramesInv'
  BY <1>1, ReturnKeeps, FramesKept DEF IInv
<1>3. RestOK'
  BY <1>1, TypeOKSplit DEF IInv, RestOK
<1>4. SubsInv'
  BY <1>1 DEF IInv, SubsInv
<1>5. ObjectInv'
  BY <1>1 DEF IInv, ObjectInv
<1> QED
  BY <1>2, <1>3, <1>4, <1>5, TypeOKSplit DEF IInv

LEMMA EndIterateOrConnectIInv == IInv /\ EndIterateOrConnect => IInv'
BY ReturnsIInv DEF EndIterateOrConnect, LibraryIn, libVars, IInv, TypeOK

LEMMA CallbackReturnsIInv == IInv /\ CallbackReturns => IInv'
BY ReturnsIInv DEF CallbackReturns, libVars, IInv, TypeOK

LEMMA EndSubscribeNodeIInv == IInv /\ EndSubscribeNode => IInv'
<1> SUFFICES ASSUME IInv, EndSubscribeNode PROVE IInv'
  OBVIOUS
<1>1. stack # <<>> /\ Top.kind = "subscribeNode"
  BY DEF EndSubscribeNode, LibraryIn
<1>2. Top.sub \in SubIds
  BY <1>1, TopFrame DEF IInv, FrameOK
<1>3. items' \subseteq SubIds
  BY <1>2 DEF EndSubscribeNode, IInv, TypeOK
<1> QED
  BY <1>1, <1>3, ReturnsIInv DEF EndSubscribeNode

LEMMA EndDisconnectIInv == IInv /\ EndDisconnect => IInv'
<1> SUFFICES ASSUME IInv, EndDisconnect PROVE IInv'
  OBVIOUS
<1>1. stack # <<>>
  BY DEF EndDisconnect, LibraryIn
<1>2. CASE session
  BY <1>1, <1>2, SessionEnds DEF EndDisconnect
<1>3. CASE ~session
  BY <1>1, <1>3, ReturnsIInv DEF EndDisconnect, IInv, TypeOK
<1> QED
  BY <1>2, <1>3

LEMMA EndCreateSubscriptionIInv == IInv /\ EndCreateSubscription => IInv'
<1> SUFFICES ASSUME IInv, EndCreateSubscription PROVE IInv'
  OBVIOUS
<1>1. stack # <<>> /\ Top.kind = "createSubscription" /\ Return
  BY DEF EndCreateSubscription, LibraryIn
<1>2. Top.cb \in Callbacks
  BY <1>1, TopFrame DEF IInv, FrameOK
<1>3. UNCHANGED <<object, mgr, _stateCallback, session, items, queue>>
  BY DEF EndCreateSubscription
<1>4. CASE CreationFailed
  BY <1>1, <1>3, <1>4, ReturnsIInv DEF CreationFailed, IInv, TypeOK, proxyVars
<1>5. CASE Created
  <2>1. StackOK' /\ FramesInv'
    BY <1>1, <1>3, ReturnKeeps, FramesKept DEF IInv
  <2>2. /\ subs' \in [SubIds -> Callbacks \cup {None}]
        /\ _subCallbackMap' \in [SubIds -> Callbacks \cup {None}]
        /\ nextId \in Nat /\ nextId' = nextId + 1 /\ session
        /\ \A s \in SubIds : IF s = nextId THEN subs'[s] = _subCallbackMap'[s]
                            ELSE subs'[s] = subs[s] /\ _subCallbackMap'[s] = _subCallbackMap[s]
    BY <1>2, <1>5 DEF Created, IInv, TypeOK
  <2>3. RestOK'
    BY <1>3, <2>2, TypeOKSplit DEF IInv, RestOK
  <2>4. SubsInv'
    BY <1>3, <2>2 DEF IInv, SubsInv, SubIds
  <2>5. ObjectInv'
    BY <1>1, <1>3 DEF IInv, ObjectInv
  <2> QED
    BY <2>1, <2>3, <2>4, <2>5, TypeOKSplit DEF IInv
<1> QED
  BY <1>4, <1>5 DEF EndCreateSubscription

(* The finaliser ends with nothing else on the stack. *)
LEMMA EndDeleteIInv == IInv /\ EndDelete => IInv'
<1> SUFFICES ASSUME IInv, EndDelete PROVE IInv'
  OBVIOUS
<1>1. stack # <<>> /\ Top.kind = "delete"
  BY DEF EndDelete, LibraryIn
<1>2. CASE session
  BY <1>1, <1>2, SessionEnds DEF EndDelete, proxyVars
<1>3. CASE ~session
  <2>1. /\ object' = "gone" /\ mgr' = FALSE /\ Return
        /\ UNCHANGED <<_stateCallback, _subCallbackMap, session, subs, items, queue, nextId>>
    BY <1>3 DEF EndDelete
  <2>2. StackOK' /\ FramesInv'
    BY <1>1, <2>1, ReturnKeeps, FramesKept DEF IInv
  <2>3. stack' = <<>>
    <3>1. Len(stack) = 1
      BY <1>1, TopFrame DEF IInv, FrameOK
    <3>2. Keeps /\ Len(stack') = 0
      BY <1>1, <2>1, <3>1, ReturnKeeps DEF IInv
    <3> QED
      BY <3>2 DEF Keeps
  <2>4. mgr' \in BOOLEAN
    BY <2>1, Zenon
  <2>5. RestOK'
    <3>1. object' \in {"live", "deleting", "gone"}
      BY <2>1
    <3> QED
      BY <2>1, <2>4, <3>1, TypeOKSplit DEF IInv, RestOK
  <2>6. SubsInv'
    BY <2>1 DEF IInv, SubsInv
  <2>7. ObjectInv'
    BY <2>1, <2>3 DEF ObjectInv
  <2> QED
    BY <2>2, <2>5, <2>6, <2>7, TypeOKSplit DEF IInv
<1> QED
  BY <1>2, <1>3

(* A call of Lua adds its frame. *)
LEMMA BeginIInv ==
  ASSUME NEW f \in Frames, f.kind \in Calls, FrameOK(f, Len(stack) + 1)
  PROVE  IInv /\ Begin(f) => IInv' /\ Adds(f)
<1> SUFFICES ASSUME IInv, Begin(f) PROVE IInv' /\ Adds(f)
  OBVIOUS
<1>1. /\ UNCHANGED <<object, mgr, _stateCallback, _subCallbackMap, session, subs, items, queue, nextId>>
      /\ stack' = Push(stack, f) /\ object = "live"
  BY DEF Begin, MayCall, proxyVars, libVars
<1>2. Adds(f)
  <2>1. stack \in Seq(Frames) /\ \A i \in 1..Len(stack) : Same(stack[i], stack[i])
    BY DEF IInv, TypeOK, Same
  <2> QED
    BY <1>1, <2>1, PushAdds DEF IInv
<1>3. StackOK' /\ FramesInv'
  <2>1. ~IsCallback(f)
    BY DEF Calls, IsCallback
  <2> QED
    BY <1>1, <1>2, <2>1, FramesAdded DEF IInv
<1>4. RestOK'
  BY <1>1, TypeOKSplit DEF IInv, RestOK
<1>5. SubsInv' /\ ObjectInv'
  BY <1>1 DEF IInv, SubsInv, ObjectInv
<1> QED
  BY <1>2, <1>3, <1>4, <1>5, TypeOKSplit DEF IInv

(* What the frames of Lua's calls hold. *)
LEMMA LuaFrames ==
  /\ \A kind \in {"run_iterate", "connect", "disconnect"} :
       /\ Frame(kind, None, 0) \in Frames /\ Frame(kind, None, 0).kind = kind
       /\ FrameOK(Frame(kind, None, 0), Len(stack) + 1)
  /\ \A cb \in Callbacks :
       LET f == Frame("createSubscription", cb, 0)
       IN f \in Frames /\ f.kind = "createSubscription" /\ FrameOK(f, Len(stack) + 1)
  /\ \A s \in SubIds :
       LET f == Frame("subscribeNode", None, s)
       IN f \in Frames /\ f.kind = "subscribeNode" /\ FrameOK(f, Len(stack) + 1)
BY DEF Frame, Frames, Kinds, Calls, FrameOK

LEMMA SetStateCallbackIInv ==
  ASSUME NEW cb \in StateCallbacks \cup {None}
  PROVE  IInv /\ SetStateCallback(cb) => IInv'
<1> SUFFICES ASSUME IInv, SetStateCallback(cb) PROVE IInv'
  OBVIOUS
<1>1. /\ UNCHANGED <<object, mgr, _subCallbackMap, stack, session, subs, items, queue, nextId>>
      /\ _stateCallback' = cb
  BY DEF SetStateCallback, libVars
<1>2. StackOK' /\ FramesInv'
  BY <1>1, TypeOKSplit DEF IInv, StackOK, FramesInv, FrameOK, IsCallback
<1>3. RestOK'
  BY <1>1, TypeOKSplit DEF IInv, RestOK
<1>4. SubsInv' /\ ObjectInv'
  BY <1>1 DEF IInv, SubsInv, ObjectInv
<1> QED
  BY <1>2, <1>3, <1>4, TypeOKSplit DEF IInv

LEMMA CollectIInv == IInv /\ Collect => IInv' /\ Len(stack') = 1
<1> SUFFICES ASSUME IInv, Collect PROVE IInv' /\ Len(stack') = 1
  OBVIOUS
<1> DEFINE f == Frame("delete", None, 0)
<1>1. /\ UNCHANGED <<mgr, _stateCallback, _subCallbackMap, session, subs, items, queue, nextId>>
      /\ object = "live" /\ object' = "deleting" /\ stack = <<>> /\ stack' = <<f>>
  BY DEF Collect, libVars
<1>2. f \in Frames /\ f.kind = "delete"
  BY DEF Frame, Frames, Kinds
<1> HIDE DEF f
<1>3. StackOK' /\ FramesInv' /\ Len(stack') = 1
  BY <1>1, <1>2 DEF StackOK, FramesInv, FrameOK, IsCallback
<1>4. RestOK'
  BY <1>1, TypeOKSplit DEF IInv, RestOK
<1>5. SubsInv' /\ ObjectInv'
  BY <1>1 DEF IInv, SubsInv, ObjectInv
<1> QED
  BY <1>3, <1>4, <1>5, TypeOKSplit DEF IInv

LEMMA StutterIInv == IInv /\ UNCHANGED vars => IInv'
<1> SUFFICES ASSUME IInv, UNCHANGED vars PROVE IInv'
  OBVIOUS
<1>1. UNCHANGED <<object, mgr, _stateCallback, _subCallbackMap, stack, session, subs, items, queue, nextId>>
  BY DEF vars, proxyVars, libVars
<1>2. StackOK' /\ FramesInv'
  BY <1>1, UnchangedKeeps, FramesKept DEF IInv
<1>3. RestOK' /\ SubsInv' /\ ObjectInv'
  BY <1>1, TypeOKSplit DEF IInv, RestOK, SubsInv, ObjectInv
<1> QED
  BY <1>2, <1>3, TypeOKSplit DEF IInv

LEMMA LuaCallIInv == IInv /\ LuaCall => IInv'
<1> SUFFICES ASSUME IInv, LuaCall PROVE IInv'
  OBVIOUS
<1>1. CASE RunIterate \/ Connect \/ Disconnect
  BY <1>1, LuaFrames, BeginIInv DEF RunIterate, Connect, Disconnect, Calls
<1>2. ASSUME NEW cb \in Callbacks, CreateSubscription(cb) PROVE IInv'
  BY <1>2, LuaFrames, BeginIInv DEF CreateSubscription, Calls
<1>3. ASSUME NEW s \in SubIds, SubscribeNode(s) PROVE IInv'
  BY <1>3, LuaFrames, BeginIInv DEF SubscribeNode, Calls
<1>4. ASSUME NEW cb \in StateCallbacks \cup {None}, SetStateCallback(cb) PROVE IInv'
  BY <1>4, SetStateCallbackIInv
<1> QED
  BY <1>1, <1>2, <1>3, <1>4 DEF LuaCall

LEMMA NextIInv == IInv /\ [Next]_vars => IInv'
<1> SUFFICES ASSUME IInv, [Next]_vars PROVE IInv'
  OBVIOUS
<1>1. CASE LibraryEvent
  BY <1>1, SessionLostIInv, SessionActivatedIInv, SubscriptionExpiresIInv DEF LibraryEvent
<1>2. CASE Dispatch
  BY <1>2, DispatchIInv
<1>3. CASE End
  BY <1>3, EndIterateOrConnectIInv, EndDisconnectIInv, EndCreateSubscriptionIInv,
     EndSubscribeNodeIInv, EndDeleteIInv DEF End
<1>4. CASE \E s \in SubIds : ValueChanges(s)
  BY <1>4, ValueChangesIInv
<1>5. CASE LuaCall \/ CallbackReturns \/ Collect
  BY <1>5, LuaCallIInv, CallbackReturnsIInv, CollectIInv
<1>6. CASE UNCHANGED vars
  BY <1>6, StutterIInv
<1> QED
  BY <1>1, <1>2, <1>3, <1>4, <1>5, <1>6 DEF Next

LEMMA InitIInv == Init => IInv
<1> SUFFICES ASSUME Init PROVE IInv
  OBVIOUS
<1>1. mgr \in BOOLEAN /\ session \in BOOLEAN /\ mgr
  BY Zenon DEF Init
<1>2. RestOK
  BY <1>1, SubscriptionsAssumption DEF Init, RestOK
<1>3. StackOK /\ FramesInv
  BY DEF Init, StackOK, FramesInv
<1>4. SubsInv
  BY DEF Init, SubsInv
<1>5. ObjectInv
  BY <1>1 DEF Init, ObjectInv
<1> QED
  BY <1>2, <1>3, <1>4, <1>5, TypeOKSplit DEF IInv

-----------------------------------------------------------------------------
(* Theorems                                                                *)

(* The inductive invariant. *)
THEOREM Invariance == Spec => []IInv
BY InitIInv, NextIInv, PTL DEF Spec

(* The variables of the object, the library and the network keep their types. *)
THEOREM TypeCorrect == Spec => []TypeOK
<1>1. IInv => TypeOK
  BY DEF IInv
<1> QED
  BY <1>1, Invariance, PTL

(* Whatever is lost, restarted, expires or is created from within callbacks: the entry
   of a subscription that exists is the callback it was created with. *)
THEOREM CallbackFound == Spec => []NotificationsFindTheirCallback
<1>1. IInv => NotificationsFindTheirCallback
  BY DEF IInv, SubsInv, NotificationsFindTheirCallback
<1> QED
  BY <1>1, Invariance, PTL

(* No callback runs on an object whose members are deleted, the last one included. *)
THEOREM ObjectFound == Spec => []CallbackFindsObject
<1>1. IInv => CallbackFindsObject
  BY DEF IInv, ObjectInv, CallbackFindsObject
<1> QED
  BY <1>1, Invariance, PTL

-----------------------------------------------------------------------------
(* Running callbacks are kept                                              *)

NotifInv ==
  \A i \in DOMAIN stack :
    stack[i].kind = "notification" /\ ~stack[i].failed =>
      session /\ stack[i].sub < nextId /\ _subCallbackMap[stack[i].sub] = stack[i].cb

(* While a session lasts, entries older than the next id stay what they are. *)
EntriesKept ==
  session =>
    /\ session'
    /\ \A s \in SubIds : s < nextId => s < nextId' /\ _subCallbackMap'[s] = _subCallbackMap[s]

LEMMA NotifKept ==
  ASSUME TypeOK, FramesInv, NotifInv, Keeps, EntriesKept
  PROVE  NotifInv'
<1>1. /\ stack \in Seq(Frames) /\ stack' \in Seq(Frames)
      /\ \A i \in 1..Len(stack') : i \in 1..Len(stack) /\ Same(stack'[i], stack[i])
  BY DEF TypeOK, Keeps
<1>2. \A i \in 1..Len(stack) : stack[i].kind = "notification" => stack[i].sub \in SubIds
  BY <1>1 DEF FramesInv, FrameOK
<1> QED
  BY <1>1, <1>2 DEF NotifInv, EntriesKept, Same

(* A frame is added above running notifications, or is one of a notification itself. *)
LEMMA NotifAdded ==
  ASSUME TypeOK, FramesInv, NotifInv, EntriesKept, NEW f, Adds(f),
         f.kind = "notification" => session' /\ f.sub < nextId' /\ _subCallbackMap'[f.sub] = f.cb
  PROVE  NotifInv'
<1>1. /\ stack \in Seq(Frames) /\ stack' \in Seq(Frames) /\ Len(stack') = Len(stack) + 1
      /\ \A i \in 1..Len(stack) : Same(stack'[i], stack[i])
      /\ Same(stack'[Len(stack) + 1], f)
  BY DEF TypeOK, Adds
<1>2. \A i \in 1..Len(stack) : stack[i].kind = "notification" => stack[i].sub \in SubIds
  BY <1>1 DEF FramesInv, FrameOK
<1>3. ASSUME NEW i \in 1..Len(stack'), stack'[i].kind = "notification", ~stack'[i].failed
      PROVE  /\ session' /\ stack'[i].sub < nextId'
             /\ _subCallbackMap'[stack'[i].sub] = stack'[i].cb
  <2>1. CASE i = Len(stack) + 1
    BY <1>1, <1>3, <2>1 DEF Same
  <2>2. CASE i \in 1..Len(stack)
    BY <1>1, <1>2, <1>3, <2>2 DEF Same, NotifInv, EntriesKept
  <2> QED
    BY <1>1, <2>1, <2>2
<1> QED
  BY <1>1, <1>3 DEF NotifInv

(* The callback of a change of state is no notification. *)
LEMMA NotifStateChange ==
  ASSUME TypeOK, FramesInv, NotifInv, EntriesKept, Keeps \/ AddsStateChange
  PROVE  NotifInv'
<1>1. CASE Keeps
  BY <1>1, NotifKept
<1>2. CASE AddsStateChange
  <2> DEFINE f == Frame("stateChange", _stateCallback, 0)
  <2>1. f.kind = "stateChange" /\ Adds(f)
    BY <1>2 DEF AddsStateChange, Frame
  <2> HIDE DEF f
  <2> QED
    BY <2>1, NotifAdded
<1> QED
  BY <1>1, <1>2

(* A server may start again only when no session is left. *)
LEMMA NotifSessionActivated == IInv /\ NotifInv /\ SessionActivated => NotifInv'
<1> SUFFICES ASSUME IInv, NotifInv, SessionActivated PROVE NotifInv'
  OBVIOUS
<1>1. stack \in Seq(Frames) /\ StateChanged(stack) /\ \A i \in 1..Len(stack) : Same(stack[i], stack[i])
  BY DEF IInv, TypeOK, SessionActivated, Same
<1>2. Keeps \/ AddsStateChange
  BY <1>1, StateChangedShape DEF IInv
<1>3. EntriesKept
  BY DEF SessionActivated, EntriesKept
<1> QED
  BY <1>2, <1>3, NotifStateChange DEF IInv

(* The end of a session marks every call of it. *)
LEMMA NotifSessionEnds ==
  ASSUME IInv, StateChanged(FailPending)
  PROVE  NotifInv'
<1>1. FailPending \in Seq(Frames) /\ \A i \in 1..Len(FailPending) : FailPending[i].failed
  BY FailPendingSame DEF IInv
<1>2. CASE _stateCallback = None
  <2>1. stack' = FailPending
    BY <1>2 DEF StateChanged
  <2> QED
    BY <1>1, <2>1 DEF NotifInv
<1>3. CASE _stateCallback # None
  <2> DEFINE f == Frame("stateChange", _stateCallback, 0)
  <2>1. stack' = Append(FailPending, f) /\ f.kind = "stateChange"
    BY <1>3 DEF StateChanged, Push, Frame
  <2>2. f \in Frames
    BY FrameType DEF IInv, TypeOK, Kinds
  <2> HIDE DEF f
  <2>3. ASSUME NEW i \in DOMAIN stack', stack'[i].kind = "notification"
        PROVE  stack'[i].failed
    BY <1>1, <2>1, <2>2, <2>3
  <2> QED
    BY <2>3 DEF NotifInv
<1> QED
  BY <1>2, <1>3

LEMMA NotifDispatch == IInv /\ NotifInv /\ Dispatch => NotifInv'
<1> SUFFICES ASSUME IInv, NotifInv, Dispatch PROVE NotifInv'
  OBVIOUS
<1>1. _subCallbackMap' = _subCallbackMap /\ nextId' = nextId /\ session' = session /\ EntriesKept
  BY DEF Dispatch, proxyVars, EntriesKept
<1>2. Head(queue) \in SubIds
  BY HeadTailProperties DEF IInv, TypeOK, Dispatch
<1>3. CASE subs[Head(queue)] = None
  BY <1>1, <1>3, UnchangedKeeps, NotifKept DEF IInv, Dispatch
<1>4. CASE subs[Head(queue)] # None
  <2>1. HandleMonitoredItemChange(Head(queue)) /\ session
    BY <1>2, <1>4 DEF Dispatch, IInv, SubsInv
  <2>2. PICK f \in Frames : /\ Adds(f) /\ f.kind = "notification" /\ f.sub < nextId
                           /\ f.cb = _subCallbackMap[f.sub]
    BY <1>2, <1>4, <2>1, NotificationFrame
  <2> QED
    BY <1>1, <2>1, <2>2, NotifAdded DEF IInv
<1> QED
  BY <1>3, <1>4

(* A step that takes the last frame away. *)
LEMMA NotifReturns ==
  ASSUME IInv, NotifInv, stack # <<>>, Return, EntriesKept
  PROVE  NotifInv'
BY ReturnKeeps, NotifKept DEF IInv

LEMMA NotifEnd == IInv /\ NotifInv /\ End => NotifInv'
<1> SUFFICES ASSUME IInv, NotifInv, End PROVE NotifInv'
  OBVIOUS
<1>1. stack # <<>>
  BY DEF End, EndIterateOrConnect, EndDisconnect, EndCreateSubscription, EndSubscribeNode,
         EndDelete, LibraryIn
<1>2. CASE EndIterateOrConnect \/ EndSubscribeNode
  <2>1. EntriesKept /\ Return
    BY <1>2 DEF EndIterateOrConnect, EndSubscribeNode, EntriesKept, proxyVars, libVars
  <2> QED
    BY <1>1, <2>1, NotifReturns
<1>3. CASE EndDisconnect \/ EndDelete
  <2>1. CASE session
    BY <1>3, <2>1, NotifSessionEnds DEF EndDisconnect, EndDelete
  <2>2. CASE ~session
    <3>1. EntriesKept /\ Return
      BY <1>3, <2>2 DEF EndDisconnect, EndDelete, EntriesKept
    <3> QED
      BY <1>1, <3>1, NotifReturns
  <2> QED
    BY <2>1, <2>2
<1>4. CASE EndCreateSubscription
  <2>1. Return /\ session' = session
    BY <1>4 DEF EndCreateSubscription
  <2>2. CASE CreationFailed
    <3>1. EntriesKept
      BY <2>1, <2>2 DEF CreationFailed, EntriesKept
    <3> QED
      BY <1>1, <2>1, <3>1, NotifReturns
  <2>3. CASE Created
    <3>1. /\ nextId \in Nat /\ nextId' = nextId + 1
          /\ \A s \in SubIds : s # nextId => _subCallbackMap'[s] = _subCallbackMap[s]
      BY <2>3 DEF Created, IInv, TypeOK
    <3>2. EntriesKept
      BY <2>1, <3>1 DEF EntriesKept, SubIds
    <3> QED
      BY <1>1, <2>1, <3>2, NotifReturns
  <2>4. Created \/ CreationFailed
    BY <1>4 DEF EndCreateSubscription
  <2> QED
    BY <2>2, <2>3, <2>4
<1> QED
  BY <1>2, <1>3, <1>4 DEF End

(* A call of Lua's is no notification. *)
LEMMA NotifBegin ==
  ASSUME IInv, NotifInv,
         NEW f \in Frames, f.kind \in Calls, FrameOK(f, Len(stack) + 1), Begin(f)
  PROVE  NotifInv'
<1>1. Adds(f)
  BY BeginIInv
<1>2. EntriesKept
  BY DEF Begin, EntriesKept, proxyVars, libVars
<1>3. f.kind # "notification"
  BY DEF Calls
<1> QED
  BY <1>1, <1>2, <1>3, NotifAdded DEF IInv

LEMMA NotifLuaCall == IInv /\ NotifInv /\ LuaCall => NotifInv'
<1> SUFFICES ASSUME IInv, NotifInv, LuaCall PROVE NotifInv'
  OBVIOUS
<1>1. CASE RunIterate \/ Connect \/ Disconnect
  BY <1>1, LuaFrames, NotifBegin DEF RunIterate, Connect, Disconnect, Calls
<1>2. ASSUME NEW cb \in Callbacks, CreateSubscription(cb) PROVE NotifInv'
  BY <1>2, LuaFrames, NotifBegin DEF CreateSubscription, Calls
<1>3. ASSUME NEW s \in SubIds, SubscribeNode(s) PROVE NotifInv'
  BY <1>3, LuaFrames, NotifBegin DEF SubscribeNode, Calls
<1>4. ASSUME NEW cb \in StateCallbacks \cup {None}, SetStateCallback(cb) PROVE NotifInv'
  BY <1>4 DEF SetStateCallback, NotifInv, libVars
<1> QED
  BY <1>1, <1>2, <1>3, <1>4 DEF LuaCall

LEMMA NextNotifInv == IInv /\ NotifInv /\ [Next]_vars => NotifInv'
<1> SUFFICES ASSUME IInv, NotifInv, [Next]_vars PROVE NotifInv'
  OBVIOUS
<1>1. CASE SessionLost
  BY <1>1, NotifSessionEnds DEF SessionLost
<1>2. CASE SessionActivated
  BY <1>2, NotifSessionActivated
<1>3. CASE \E s \in SubIds : SubscriptionExpires(s) \/ ValueChanges(s)
  BY <1>3 DEF SubscriptionExpires, ValueChanges, NotifInv, proxyVars
<1>4. CASE Dispatch
  BY <1>4, NotifDispatch
<1>5. CASE End
  BY <1>5, NotifEnd
<1>6. CASE LuaCall
  BY <1>6, NotifLuaCall
<1>7. CASE CallbackReturns
  <2>1. stack # <<>> /\ Return /\ EntriesKept
    BY <1>7 DEF CallbackReturns, EntriesKept, proxyVars, libVars
  <2> QED
    BY <2>1, NotifReturns
<1>8. CASE Collect
  <2> DEFINE f == Frame("delete", None, 0)
  <2>1. stack' = <<f>> /\ f.kind = "delete"
    BY <1>8 DEF Collect, Frame
  <2> HIDE DEF f
  <2> QED
    BY <2>1 DEF NotifInv
<1>9. CASE UNCHANGED vars
  BY <1>9 DEF NotifInv, vars, proxyVars, libVars
<1> QED
  BY <1>1, <1>2, <1>3, <1>4, <1>5, <1>6, <1>7, <1>8, <1>9 DEF Next, LibraryEvent

(* The function of a running notification stays in its entry until the session it was
   called in ends, whatever callbacks connect, iterate or create below it. *)
THEOREM CallbacksKept == Spec => []RunningCallbackIsKept
<1>1. Init => NotifInv
  BY DEF Init, NotifInv
<1>2. IInv /\ NotifInv /\ [Next]_vars => NotifInv'
  BY NextNotifInv
<1>3. NotifInv => RunningCallbackIsKept
  BY DEF NotifInv, RunningCallbackIsKept
<1> QED
  BY <1>1, <1>2, <1>3, Invariance, PTL DEF Spec

=============================================================================
