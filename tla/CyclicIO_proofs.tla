--------------------------- MODULE CyclicIO_proofs ---------------------------
(***************************************************************************)
(* Proofs about module CyclicIO, for every value of the pauses, the cap    *)
(* and the width of the tick count.                                        *)
(***************************************************************************)
EXTENDS CyclicIO, TLAPS

(* The strengthening: what each group of states knows of the rest.         *)

(* Before start() the thread is suspended. *)
NewIsSuspended == user = "new" => thread = "suspended"

(* The wait for the end of a cycle belongs to cyclic I/O. *)
WaitsInCycle == thread = "wait" => state = 30

(* A connection is whole while it is used, not yet closing while it is given up,
   and gone in every state that may lead to the next connect. *)
LinksMatchState ==
  /\ state \in {0, 1, 10, 910, 920} => chn = "closed" /\ ses = "closed"
  /\ state \in {20, 21, 30} => chn = "open" /\ ses = "open"
  /\ state = 99 => chn # "closing" /\ ses # "closing"

(* While the client is kept for now, a severe error it had is still in _lasterr. *)
SevereIsLast == state \in {99, 900, 910, 920} => (severe => IsSevere(lasterr))

(* The tick arithmetic measures the time since the disconnect, up to the ceiling
   above every pause; a wrap comes later than that. *)
PauseMeasured ==
  state \in {900, 910, 920} =>
    /\ connectRetries > 0
    /\ paused = PauseCeil \/ Since(stateTicker) = paused

(* The conjuncts that speak of states and links alone, and all of them. *)
Linkage ==
  /\ ClientMatchesState /\ ExchangeOnResolvedNodes
  /\ SevereErrorCostsClient /\ RecoveryKnowsItsError
  /\ NewIsSuspended /\ WaitsInCycle /\ LinksMatchState /\ SevereIsLast

IInv == TypeOK /\ Linkage /\ PauseMeasured

-----------------------------------------------------------------------------
(* Arithmetic.                                                             *)

(* The ceiling of the history is above both pauses and below the wrap. *)
LEMMA PauseCeilFacts ==
  /\ PauseCeil \in Nat
  /\ RetryStep * RetryCap \in Nat
  /\ PauseCeil > SevereWait
  /\ PauseCeil > RetryStep * RetryCap
  /\ PauseCeil < TickMod
  <1>1. RetryStep \in Nat /\ RetryCap \in Nat /\ SevereWait \in Nat /\ MaxLag \in Nat
        /\ TickMod \in Nat /\ RetryStep * RetryCap \in Nat
    BY ConstantsAssumption
  <1> DEFINE P == RetryStep * RetryCap
  <1>2. P \in Nat /\ SevereWait + P + MaxLag + 1 < TickMod
    BY ConstantsAssumption
  <1>3. PauseCeil = SevereWait + P + 1
    BY DEF PauseCeil
  <1> HIDE DEF P
  <1>4. PauseCeil \in Nat /\ PauseCeil > SevereWait /\ PauseCeil > P /\ PauseCeil < TickMod
    BY <1>1, <1>2, <1>3
  <1> QED BY <1>1, <1>4 DEF P

(* The pause for a clamped number of attempts is below the ceiling. *)
LEMMA RetryPauseBelowCeil ==
  ASSUME NEW r \in 1 .. RetryCap
  PROVE  RetryStep * r \in Nat /\ RetryStep * r < PauseCeil
  <1>1. RetryStep \in Nat /\ RetryCap \in Nat
    BY ConstantsAssumption
  <1>2. RetryStep * r \in Nat
    BY <1>1, SMT
  <1>3. RetryStep * r <= RetryStep * RetryCap
    BY <1>1, SMT
  <1> QED BY <1>2, <1>3, PauseCeilFacts

(* An end of a cycle is a tick, across the wrap. *)
LEMMA PlusIsTick ==
  ASSUME NEW t \in Ticks
  PROVE  Plus(t, CycleTime) \in Ticks
  BY ConstantsAssumption DEF Plus, Ticks

(* A difference of ticks is a tick, and counts one up unless it wraps. *)
LEMMA SinceCounts ==
  ASSUME NEW t \in Ticks, now \in Ticks, now' = NextTick(now),
         NEW d \in Nat, Since(t) = d, d < TickMod - 1
  PROVE  Since(t)' = d + 1
  BY ConstantsAssumption DEF Since, Ticks, NextTick

-----------------------------------------------------------------------------
(* The initial states, and every step, keep the invariant.                 *)

LEMMA InitIInv == Init => IInv
  <1> SUFFICES ASSUME Init PROVE IInv
    OBVIOUS
  <1>1. TypeOK
    <2>1. /\ client \in BOOLEAN /\ lost \in BOOLEAN /\ severe \in BOOLEAN
          /\ terminated \in BOOLEAN /\ dllUnload \in BOOLEAN /\ stable \in BOOLEAN
      BY Zenon DEF Init
    <2>2. /\ thread \in Threads /\ state \in States /\ lasterr \in Status
          /\ chn \in Links /\ ses \in Links /\ user \in Users /\ resolved \in SUBSET Nodes
      BY DEF Init, Threads, States, Status, Links, Users
    <2>3. /\ connectRetries \in 0 .. RetryCap + 1
          /\ stateTicker \in Ticks /\ now \in Ticks /\ tEndTime \in Ticks
          /\ lag \in 0 .. MaxLag /\ paused \in 0 .. PauseCeil
      BY ConstantsAssumption, PauseCeilFacts DEF Init, Ticks
    <2> QED BY <2>1, <2>2, <2>3 DEF TypeOK
  <1>2. Linkage
    BY DEF Init, Linkage, ClientMatchesState, ExchangeOnResolvedNodes, SevereErrorCostsClient,
           RecoveryKnowsItsError, NewIsSuspended, WaitsInCycle, LinksMatchState, SevereIsLast
  <1>3. PauseMeasured
    BY DEF Init, PauseMeasured
  <1> QED BY <1>1, <1>2, <1>3 DEF IInv

LEMMA TypeStep ==
  ASSUME TypeOK, [Next]_vars
  PROVE  TypeOK'
  <1> DEFINE Others ==
        /\ thread' \in Threads /\ state' \in States /\ lasterr' \in Status
        /\ chn' \in Links /\ ses' \in Links /\ user' \in Users
        /\ connectRetries' \in 0 .. RetryCap + 1
        /\ stateTicker' \in Ticks /\ now' \in Ticks /\ tEndTime' \in Ticks
        /\ resolved' \in SUBSET Nodes
        /\ lag' \in 0 .. MaxLag /\ paused' \in 0 .. PauseCeil
      Flags ==
        /\ client' \in BOOLEAN /\ lost' \in BOOLEAN /\ severe' \in BOOLEAN
        /\ terminated' \in BOOLEAN /\ dllUnload' \in BOOLEAN /\ stable' \in BOOLEAN
  <1>a. ASSUME Flags, Others PROVE TypeOK'
    BY <1>a DEF TypeOK
  <1>b. ASSUME ResolveNodes PROVE resolved' \in SUBSET Nodes
    <2>1. resolved \in SUBSET Nodes /\ "wr" \in Nodes
      BY DEF TypeOK, Nodes
    <2> QED BY <1>b, <2>1, Zenon DEF ResolveNodes
  <1>c. /\ client \in BOOLEAN /\ lost \in BOOLEAN /\ severe \in BOOLEAN
        /\ terminated \in BOOLEAN /\ dllUnload \in BOOLEAN /\ stable \in BOOLEAN
    BY DEF TypeOK
  <1>d. ASSUME CreateClient PROVE Flags
    BY <1>c, <1>d, Zenon DEF CreateClient, Case, userVars
  <1>e. ASSUME DropClient PROVE Flags
    <2>1. client' \in BOOLEAN /\ lost' \in BOOLEAN
      BY <1>c, <1>e, Zenon DEF DropClient
    <2>2. UNCHANGED <<severe, terminated, dllUnload, stable>>
      BY <1>e DEF DropClient, Case, userVars
    <2> QED BY <1>c, <2>1, <2>2
  <1>f. ASSUME CloseStep PROVE Flags
    BY <1>c, <1>f, Zenon DEF CloseStep, CloseTerminate, CloseWaited, clientVars
  <1> HIDE DEF Flags
  <1> USE ConstantsAssumption, PauseCeilFacts
      DEF TypeOK, Threads, States, Status, Links, Users, Ticks
  <1> USE DEF Case, Record
  <1>1. CASE Poll
    BY <1>1 DEF Poll, RunIterate, Settle, userVars, retryVars
  <1>2. CASE EndThread
    BY <1>2 DEF EndThread, clientVars, retryVars, timeVars, userVars
  <1>3. CASE Idle
    BY <1>3 DEF Idle, clientVars, retryVars, timeVars, userVars
  <1>4. CASE CreateClient
    <2>1. Others
      BY <1>4 DEF CreateClient, retryVars, userVars
    <2> QED BY <1>4, <1>a, <1>d, <2>1
  <1>5. CASE Connect
    BY <1>5 DEF Connect, ConnectResults, retryVars, userVars
  <1>6. CASE ResolveNodes
    BY <1>6, <1>b DEF ResolveNodes, CallResults, userVars
  <1>7. CASE FirstCycle
    BY <1>7 DEF FirstCycle, CallResults, userVars
  <1>8. CASE CyclicExchange
    <2>1. Plus(now, CycleTime) \in Ticks
      BY PlusIsTick
    <2> QED BY <1>8, <2>1 DEF CyclicExchange, CallResults, retryVars, userVars
  <1>9. CASE Disconnect
    BY <1>9 DEF Disconnect, BumpRetries, userVars
  <1>10. CASE AwaitClosed
    BY <1>10 DEF AwaitClosed, clientVars, retryVars, userVars
  <1>11. CASE Backoff
    BY <1>11 DEF Backoff, ClampRetries, clientVars, userVars
  <1>12. CASE DropClient
    <2>1. Others
      BY <1>12 DEF DropClient, retryVars, userVars
    <2> QED BY <1>12, <1>a, <1>e, <2>1
  <1>13. CASE CloseStep
    <2>1. Others
      BY <1>13 DEF CloseStep, CloseTerminate, CloseWaited, clientVars, retryVars, timeVars
    <2> QED BY <1>13, <1>a, <1>f, <2>1
  <1>14. CASE Start
    BY <1>14 DEF Start, clientVars, retryVars, timeVars
  <1>15. CASE CloseResume
    BY <1>15 DEF CloseResume, clientVars, retryVars, timeVars
  <1>16. CASE DllUnload
    BY <1>16 DEF DllUnload, clientVars, retryVars, timeVars
  <1>17. CASE TimePasses
    BY <1>17 DEF TimePasses, NextTick, clientVars, retryVars, userVars
  <1>18. CASE LoseConnection
    BY <1>18 DEF LoseConnection, retryVars, timeVars, userVars
  <1>19. CASE Stabilise
    BY <1>19 DEF Stabilise, clientVars, retryVars, timeVars
  <1>20. CASE UNCHANGED vars
    BY <1>20 DEF vars, clientVars, retryVars, timeVars, userVars
  <1>21. CASE AwaitCycle
    BY <1>21 DEF AwaitCycle, CallResults, retryVars, userVars
  <1> QED
    BY <1>1, <1>2, <1>3, <1>4, <1>5, <1>6, <1>7, <1>8, <1>9, <1>10, <1>11, <1>12, <1>13,
       <1>14, <1>15, <1>16, <1>17, <1>18, <1>19, <1>20, <1>21 DEF Next, ThreadStep

LEMMA LinkageStep ==
  ASSUME IInv, [Next]_vars
  PROVE  Linkage'
  <1>a. client' = FALSE => ~client'
    BY Zenon
  <1>b. ASSUME DropClient
        PROVE  \/ client' = FALSE /\ chn' = "closed" /\ ses' = "closed" /\ state' = 1
               \/ UNCHANGED <<client, chn, ses, state>>
    BY <1>b, Zenon DEF DropClient
  <1> USE DEF IInv, TypeOK, Linkage, ClientMatchesState, ExchangeOnResolvedNodes,
          SevereErrorCostsClient, RecoveryKnowsItsError, NewIsSuspended, WaitsInCycle, LinksMatchState,
          SevereIsLast, IsSevere
  <1> USE DEF States, Case, Record
  <1>1. CASE Poll
    BY <1>1 DEF Poll, RunIterate, Settle, userVars, retryVars
  <1>2. CASE EndThread
    BY <1>2 DEF EndThread, clientVars, retryVars, timeVars, userVars
  <1>3. CASE Idle
    BY <1>3 DEF Idle, clientVars, retryVars, timeVars, userVars
  <1>4. CASE CreateClient
    BY <1>4 DEF CreateClient, retryVars, userVars
  <1>5. CASE Connect
    BY <1>5 DEF Connect, ConnectResults, retryVars, userVars
  <1>6. CASE ResolveNodes
    <2>1. PICK rw \in CallResults, rr \in CallResults :
            /\ Record(IF rw = "good" THEN rr ELSE rw)
            /\ state' = IF (IF rw = "good" THEN rr ELSE rw) = "good" THEN 21 ELSE 99
            /\ rw = "good" /\ rr = "good" => resolved' = resolved \cup Nodes
      BY <1>6 DEF ResolveNodes, Nodes
    <2> QED BY <1>6, <2>1 DEF ResolveNodes, userVars
  <1>7. CASE FirstCycle
    BY <1>7 DEF FirstCycle, CallResults, userVars
  <1>8. CASE CyclicExchange
    BY <1>8 DEF CyclicExchange, CallResults, retryVars, userVars
  <1>9. CASE Disconnect
    BY <1>9 DEF Disconnect, Links, userVars
  <1>10. CASE AwaitClosed
    BY <1>10 DEF AwaitClosed, clientVars, retryVars, userVars
  <1>11. CASE Backoff
    BY <1>11 DEF Backoff, clientVars, userVars
  <1>12. CASE DropClient
    <2>1. thread = "case" /\ thread' = "loop" /\ UNCHANGED <<user, lasterr, severe, resolved>>
      BY <1>12 DEF DropClient, userVars
    <2>2. CASE client' = FALSE /\ chn' = "closed" /\ ses' = "closed" /\ state' = 1
      <3>1. ~client'
        BY <2>2, <1>a
      <3>2. state' = 1 /\ chn' = "closed" /\ ses' = "closed"
        BY <2>2
      <3> QED BY <2>1, <3>1, <3>2
    <2>3. CASE UNCHANGED <<client, chn, ses, state>>
      BY <2>1, <2>3
    <2> HIDE DEF IInv, TypeOK, Linkage, ClientMatchesState, ExchangeOnResolvedNodes,
          SevereErrorCostsClient, RecoveryKnowsItsError, NewIsSuspended, WaitsInCycle, LinksMatchState,
          SevereIsLast, IsSevere, States, Case, Record
    <2>4. \/ client' = FALSE /\ chn' = "closed" /\ ses' = "closed" /\ state' = 1
          \/ UNCHANGED <<client, chn, ses, state>>
      BY <1>12, <1>b, Zenon
    <2> QED BY <2>2, <2>3, <2>4, Zenon
  <1>13. CASE CloseStep
    BY <1>13 DEF CloseStep, CloseTerminate, CloseWaited, clientVars, retryVars, timeVars
  <1>14. CASE Start
    BY <1>14 DEF Start, clientVars, retryVars, timeVars
  <1>15. CASE CloseResume
    BY <1>15 DEF CloseResume, clientVars, retryVars, timeVars
  <1>16. CASE DllUnload
    BY <1>16 DEF DllUnload, clientVars, retryVars, timeVars
  <1>17. CASE TimePasses
    BY <1>17 DEF TimePasses, NextTick, clientVars, retryVars, userVars
  <1>18. CASE LoseConnection
    BY <1>18 DEF LoseConnection, retryVars, timeVars, userVars
  <1>19. CASE Stabilise
    BY <1>19 DEF Stabilise, clientVars, retryVars, timeVars
  <1>20. CASE UNCHANGED vars
    BY <1>20 DEF vars, clientVars, retryVars, timeVars, userVars
  <1>21. CASE AwaitCycle
    BY <1>21 DEF AwaitCycle, CallResults, retryVars, userVars
  <1> QED
    BY <1>1, <1>2, <1>3, <1>4, <1>5, <1>6, <1>7, <1>8, <1>9, <1>10, <1>11, <1>12, <1>13,
       <1>14, <1>15, <1>16, <1>17, <1>18, <1>19, <1>20, <1>21 DEF Next, ThreadStep

LEMMA PauseStep ==
  ASSUME IInv, [Next]_vars
  PROVE  PauseMeasured'
  <1> USE DEF IInv, PauseMeasured
  <1>1. TypeOK /\ TypeOK'
    BY TypeStep
  <1>2. CASE /\ UNCHANGED <<connectRetries, stateTicker, now, paused>>
             /\ state' = state \/ state \in {900, 910, 920}
    BY <1>2 DEF Since
  <1>3. CASE state' \notin {900, 910, 920}
    BY <1>3
  <1>4. CASE Disconnect
    <2>1. stateTicker' = now /\ now' = now /\ paused' = 0 /\ connectRetries' = BumpRetries(connectRetries)
      BY <1>4 DEF Disconnect, Case, Recovering
    <2>2. Since(stateTicker)' = paused'
      BY <1>1, <2>1 DEF Since, TypeOK, Ticks
    <2>3. connectRetries' > 0
      BY <1>1, <2>1, ConstantsAssumption DEF BumpRetries, TypeOK
    <2> QED BY <2>2, <2>3
  <1>5. CASE TimePasses
    <2>1. /\ now' = NextTick(now)
          /\ paused' = IF paused < PauseCeil THEN paused + 1 ELSE paused
          /\ UNCHANGED <<state, connectRetries, stateTicker>>
      BY <1>5 DEF TimePasses, retryVars
    <2> SUFFICES ASSUME state \in {900, 910, 920}
                 PROVE  paused' = PauseCeil \/ Since(stateTicker)' = paused'
      BY <2>1
    <2>2. CASE paused = PauseCeil
      BY <2>1, <2>2, PauseCeilFacts
    <2>3. CASE paused # PauseCeil
      <3>1. paused \in Nat /\ paused < PauseCeil /\ Since(stateTicker) = paused
        BY <1>1, <2>3, PauseCeilFacts DEF TypeOK
      <3>2. paused < TickMod - 1
        BY <3>1, PauseCeilFacts, ConstantsAssumption
      <3>3. Since(stateTicker)' = paused + 1
        <4>1. stateTicker \in Ticks /\ now \in Ticks /\ stateTicker' = stateTicker
          BY <1>1, <2>1 DEF TypeOK
        <4> QED BY <2>1, <3>1, <3>2, <4>1, SinceCounts
      <3> QED BY <2>1, <3>1, <3>3
    <2> QED BY <2>2, <2>3
  <1>6. CASE Backoff
    <2>1. /\ state = 910 /\ UNCHANGED <<stateTicker, now, paused>>
          /\ connectRetries' \in {connectRetries, ClampRetries(connectRetries)}
      BY <1>6 DEF Backoff, Case, Recovering
    <2>2. Since(stateTicker)' = Since(stateTicker)
      BY <2>1 DEF Since
    <2>3. connectRetries' > 0
      BY <1>1, <2>1, ConstantsAssumption DEF ClampRetries, TypeOK
    <2> QED BY <2>1, <2>2, <2>3
  <1>7. CASE Poll \/ EndThread \/ Idle
    BY <1>2, <1>7 DEF Poll, EndThread, Idle, Case, clientVars, retryVars, timeVars
  <1>8. CASE CreateClient \/ Connect \/ ResolveNodes \/ FirstCycle \/ CyclicExchange
        \/ AwaitCycle \/ Start
    BY <1>3, <1>8 DEF CreateClient, Connect, ResolveNodes, FirstCycle, CyclicExchange,
                      AwaitCycle, Linkage, WaitsInCycle, Start
  <1>9. CASE AwaitClosed
    BY <1>2, <1>9 DEF AwaitClosed, Case, retryVars
  <1>10. CASE DropClient
    <2>1. state = 920 /\ UNCHANGED <<connectRetries, stateTicker, now, paused>>
      BY <1>10 DEF DropClient, Case, Recovering, retryVars
    <2> QED BY <1>2, <2>1
  <1>11. CASE CloseStep \/ CloseResume \/ DllUnload \/ LoseConnection \/ Stabilise
    BY <1>2, <1>11 DEF CloseStep, CloseTerminate, CloseWaited, CloseResume, DllUnload,
                       LoseConnection, Stabilise, retryVars, timeVars
  <1>12. CASE UNCHANGED vars
    BY <1>2, <1>12 DEF vars, retryVars, timeVars
  <1> QED
    BY <1>4, <1>5, <1>6, <1>7, <1>8, <1>9, <1>10, <1>11, <1>12 DEF Next, ThreadStep

-----------------------------------------------------------------------------
(* The theorems.                                                           *)

LEMMA IInvStep ==
  ASSUME IInv, [Next]_vars
  PROVE  IInv'
  BY TypeStep, LinkageStep, PauseStep DEF IInv

(* Every reachable state satisfies the inductive invariant: the relation between
   _state, _client, the connection and _lasterr that every case of the state machine
   relies on without testing it. *)
THEOREM Invariance == Spec => []IInv
  <1>1. Init => IInv
    BY InitIInv
  <1>2. IInv /\ [Next]_vars => IInv'
    BY IInvStep
  <1> QED BY <1>1, <1>2, PTL DEF Spec

(* The variables keep their types: the tick differences never leave the width of the
   tick count, the retry counter its bound. *)
THEOREM TypeCorrect == Spec => []TypeOK
  <1>1. IInv => TypeOK
    BY DEF IInv
  <1> QED BY <1>1, Invariance, PTL

(* No case works on a client that does not exist or is deleted, and none is leaked by
   a second one. *)
THEOREM ClientExistsWhereUsed == Spec => []ClientMatchesState
  <1>1. IInv => ClientMatchesState
    BY DEF IInv, Linkage
  <1> QED BY <1>1, Invariance, PTL

(* No exchange with the node ids of an earlier connection. *)
THEOREM ExchangeIsResolved == Spec => []ExchangeOnResolvedNodes
  <1>1. IInv => ExchangeOnResolvedNodes
    BY DEF IInv, Linkage
  <1> QED BY <1>1, Invariance, PTL

(* A connect finds nothing left of the connection before it. *)
THEOREM ConnectsAlone == Spec => []ConnectOnlyWhenClosed
  <1>1. IInv => ConnectOnlyWhenClosed
    BY DEF IInv, Linkage, LinksMatchState, ConnectOnlyWhenClosed
  <1> QED BY <1>1, Invariance, PTL

(* A client with a severe error is replaced before the next connect. *)
THEOREM SevereErrorsHandled == Spec => []SevereErrorCostsClient
  <1>1. IInv => SevereErrorCostsClient
    BY DEF IInv, Linkage
  <1> QED BY <1>1, Invariance, PTL

(* The recovery states decide on the error that led to them. *)
THEOREM ErrorKnown == Spec => []RecoveryKnowsItsError
  <1>1. IInv => RecoveryKnowsItsError
    BY DEF IInv, Linkage
  <1> QED BY <1>1, Invariance, PTL

(* No reconnect before its pause is over, whatever the tick count does meanwhile. *)
THEOREM Paced == Spec => ReconnectsPaced
  <1> DEFINE Growing ==
        state = 910 /\ state' = 10 =>
          connectRetries' \in 1 .. RetryCap /\ paused > RetryStep * connectRetries'
      Long == state = 920 /\ state' = 1 => paused > SevereWait
  <1>1. ASSUME IInv, [Next]_vars PROVE Growing
    <2> SUFFICES ASSUME state = 910, state' = 10
                 PROVE  connectRetries' \in 1 .. RetryCap /\ paused > RetryStep * connectRetries'
      OBVIOUS
    <2>1. Backoff
      BY <1>1 DEF Next, ThreadStep, CloseStep, vars, userVars, clientVars, retryVars, timeVars,
         Poll, EndThread, Idle, CreateClient, Connect, ResolveNodes, FirstCycle, CyclicExchange, AwaitCycle,
         Disconnect, AwaitClosed, DropClient, CloseTerminate, CloseWaited, Start, CloseResume,
         DllUnload, TimePasses, LoseConnection, Stabilise, Case
    <2>2. connectRetries' = ClampRetries(connectRetries)
          /\ Since(stateTicker) > RetryStep * connectRetries'
      BY <2>1 DEF Backoff, Case
    <2>3. connectRetries' \in 1 .. RetryCap
      BY <1>1, <2>2, ConstantsAssumption DEF ClampRetries, IInv, TypeOK, PauseMeasured
    <2>4. CASE paused = PauseCeil
      BY <2>3, <2>4, RetryPauseBelowCeil, PauseCeilFacts
    <2>5. CASE Since(stateTicker) = paused
      <3> DEFINE pause == RetryStep * connectRetries'
      <3>1. Since(stateTicker) > pause
        BY <2>2
      <3> HIDE DEF pause
      <3>2. paused > pause
        BY <2>5, <3>1
      <3> QED BY <2>3, <3>2 DEF pause
    <2>6. paused = PauseCeil \/ Since(stateTicker) = paused
      BY <1>1 DEF IInv, PauseMeasured
    <2> QED BY <2>3, <2>4, <2>5, <2>6, Zenon
  <1>2. ASSUME IInv, [Next]_vars PROVE Long
    <2> SUFFICES ASSUME state = 920, state' = 1
                 PROVE  paused > SevereWait
      OBVIOUS
    <2>1. DropClient
      BY <1>2 DEF Next, ThreadStep, CloseStep, vars, userVars, clientVars, retryVars, timeVars,
         Poll, EndThread, Idle, CreateClient, Connect, ResolveNodes, FirstCycle, CyclicExchange, AwaitCycle,
         Disconnect, AwaitClosed, Backoff, CloseTerminate, CloseWaited, Start, CloseResume,
         DllUnload, TimePasses, LoseConnection, Stabilise, Case
    <2>2. Since(stateTicker) > SevereWait
      BY <2>1 DEF DropClient, Case
    <2>3. CASE paused = PauseCeil
      BY <2>3, PauseCeilFacts
    <2>4. CASE Since(stateTicker) = paused
      BY <2>2, <2>4
    <2> QED BY <1>2, <2>3, <2>4 DEF IInv, PauseMeasured
  <1>3. ASSUME IInv, [Next]_vars
        PROVE  [ /\ state = 910 /\ state' = 10 =>
                      /\ connectRetries' \in 1 .. RetryCap
                      /\ paused > RetryStep * connectRetries'
                 /\ state = 920 /\ state' = 1 => paused > SevereWait ]_vars
    BY <1>1, <1>2, <1>3
  <1> QED BY <1>3, Invariance, PTL DEF Spec, ReconnectsPaced

-----------------------------------------------------------------------------
(* Refinement: the thread against ConnectionSupervisor.                    *)

Linked == chn # "closed" \/ ses # "closed"

LEMMA SupervisorStep ==
  ASSUME IInv, [Next]_vars
  PROVE  [Supervisor!Next]_(Supervisor!vars)
  <1> USE DEF IInv, TypeOK, Linkage, Phase
  <1> USE DEF Supervisor!Next, Supervisor!vars
  <1>1. CASE Poll
    <2>1. state # 900 => UNCHANGED <<chn, ses>>
      BY <1>1 DEF Poll, RunIterate, Settle, LinksMatchState, States
    <2>2. Linked' => Linked
      BY <1>1 DEF Poll, RunIterate, Settle, Linked, Links
    <2> QED BY <1>1, <2>1, <2>2 DEF Poll, Linked, Supervisor!Unlink
  <1>2. CASE EndThread
    BY <1>2 DEF EndThread, clientVars, retryVars, timeVars, userVars, Supervisor!Stop
  <1>3. CASE Idle
    BY <1>3 DEF Idle, Case, clientVars, retryVars
  <1>4. CASE CreateClient
    BY <1>4 DEF CreateClient, Case, LinksMatchState
  <1>5. CASE Connect
    <2>1. state = 10 /\ chn = "closed" /\ ses = "closed" /\ thread = "case" /\ thread' = "loop"
      BY <1>5 DEF Connect, Case, LinksMatchState
    <2>2. CASE state' = 20 /\ chn' = "open" /\ resolved' = {}
      BY <2>1, <2>2 DEF Supervisor!Establish
    <2>3. CASE state' = 99 /\ chn' \in {chn, "open"} /\ UNCHANGED <<ses, resolved>>
      BY <2>1, <2>3 DEF Supervisor!Fail
    <2> QED BY <1>5, <2>2, <2>3 DEF Connect
  <1>6. CASE ResolveNodes
    BY <1>6, TypeStep DEF ResolveNodes, Case, LinksMatchState, Supervisor!Prepare
  <1>7. CASE FirstCycle
    BY <1>7 DEF FirstCycle, Case, LinksMatchState, ExchangeOnResolvedNodes,
                Supervisor!Exchange, Supervisor!Fail
  <1>8. CASE CyclicExchange
    BY <1>8 DEF CyclicExchange, Case, Supervisor!Fail
  <1>9. CASE Disconnect
    BY <1>9 DEF Disconnect, Case, Supervisor!Unlink, Links
  <1>10. CASE AwaitClosed
    BY <1>10 DEF AwaitClosed, Case, clientVars
  <1>11. CASE Backoff
    BY <1>11 DEF Backoff, Case, clientVars, LinksMatchState, Supervisor!Retry
  <1>12. CASE DropClient
    BY <1>12 DEF DropClient, Case, LinksMatchState, Supervisor!Retry
  <1>13. CASE CloseStep \/ DllUnload \/ TimePasses \/ LoseConnection \/ Stabilise
    BY <1>13 DEF CloseStep, CloseTerminate, CloseWaited, DllUnload, TimePasses, LoseConnection,
                 Stabilise, clientVars, retryVars, timeVars, userVars
  <1>14. CASE Start
    BY <1>14 DEF Start, NewIsSuspended, clientVars, Supervisor!Begin
  <1>15. CASE CloseResume
    BY <1>15 DEF CloseResume, clientVars
  <1>16. CASE UNCHANGED vars
    BY <1>16 DEF vars, clientVars
  <1>17. CASE AwaitCycle
    BY <1>17 DEF AwaitCycle, WaitsInCycle, Supervisor!Fail
  <1> QED
    BY <1>1, <1>2, <1>3, <1>4, <1>5, <1>6, <1>7, <1>8, <1>9, <1>10, <1>11, <1>12, <1>13,
       <1>14, <1>15, <1>16, <1>17 DEF Next, ThreadStep

(* The thread implements the supervisor: every behaviour of the state machine, with
   any errors, any closing and any unloading, is one the abstract life cycle allows. *)
THEOREM Refinement == Spec => ImplementsSupervisor
  <1>1. Init => Supervisor!Init
    BY DEF Init, Supervisor!Init, Phase
  <1>2. IInv /\ [Next]_vars => [Supervisor!Next]_(Supervisor!vars)
    BY SupervisorStep
  <1> QED BY <1>1, <1>2, Invariance, PTL DEF Spec, Supervisor!Spec, ImplementsSupervisor
=============================================================================
