------------------------------- MODULE CyclicIO -------------------------------
(***************************************************************************)
(* The cyclic I/O thread (TOpcUA_IOThread): the state machine that keeps   *)
(* one OPC UA connection alive and exchanges the process image over it,    *)
(* together with the Lua object that starts and destroys the thread        *)
(* (UA_Client_CyclicIO) and the open62541 client object it drives.         *)
(*                                                                         *)
(* One pass of TOpcUA_IOThread::StateMachine is two steps: Poll, the loop  *)
(* condition and the UA_Client_run_iterate in front of the switch, and the *)
(* action of the case the switch selects; in cyclic I/O the rounds of the  *)
(* loop that waits for the end of the cycle follow.  Tracing and the       *)
(* statistics are left out; the buffers of the process image are module    *)
(* ProcessImage, the length of the polls and of the exchange CyclePacing.  *)
(***************************************************************************)
EXTENDS Integers

CONSTANTS
  RetryStep,    \* 1000 in the code: pause per failed attempt, in ticks
  RetryCap,     \* 10 in the code: attempts that still lengthen the pause
  SevereWait,   \* 10000 in the code: pause before a client is replaced
  CycleTime,    \* _tCycleMs - 5 in the code: from an exchange to the end of its wait
  TickMod,      \* 2^32 in the code: GetTickCount() counts modulo this
  MaxLag        \* bound: ticks that may pass between two passes of the thread

ASSUME ConstantsAssumption ==
  /\ RetryStep \in Nat \ {0}
  /\ RetryCap \in Nat \ {0}
  /\ SevereWait \in Nat
  /\ CycleTime \in Nat
  /\ MaxLag \in Nat \ {0}
  /\ TickMod \in Nat
  /\ RetryStep * RetryCap \in Nat
  /\ SevereWait + RetryStep * RetryCap + MaxLag + 1 < TickMod

VARIABLES
  thread,          \* where the thread is: see Threads
  state,           \* _state
  lasterr,         \* _lasterr, as the classes of status the code tells apart
  client,          \* is _client allocated?
  connectRetries,  \* _connectRetries
  stateTicker,     \* _stateTicker
  now,             \* GetTickCount()
  tEndTime,        \* tEndTime, while the thread waits for the end of a cycle
  chn, ses,        \* secure channel and session of the client object
  lost,            \* the connection broke; only a new client gets over it
  user,            \* progress of the Lua object's owner
  terminated,      \* TThread.Terminated
  dllUnload,       \* gDllUnloadInProgress
  stable,          \* from now on the network and the server do not fail
  lag,             \* ticks since the thread's last pass
  resolved,        \* history: nodes whose ids were read over this connection
  severe,          \* history: a severe error was recorded with this client
  paused           \* history: time since the disconnect, up to PauseCeil, also when
                   \* there is a connection

clientVars == <<client, chn, ses, lost, severe>>
timeVars   == <<now, tEndTime, lag, paused>>
userVars   == <<user, terminated, dllUnload, stable>>
retryVars  == <<connectRetries, stateTicker>>
vars == <<thread, state, lasterr, clientVars, retryVars, resolved, timeVars, userVars>>

Nodes    == {"wr", "rd"}
Threads  == {"suspended", "loop", "case", "wait", "ended"}
States   == {0, 1, 10, 20, 21, 30, 99, 900, 910, 920}
Recovering == {900, 910, 920}
Status   == {"good", "uncertain", "bad"}
Links    == {"closed", "open", "closing"}
Users    == {"new", "started", "resumed", "waiting", "closed"}
Ticks    == 0 .. TickMod - 1

(* _lasterr & 0x80000000 *)
IsSevere(s) == s = "bad"

(* Bound: history beyond every pause the code asks for is one value. *)
PauseCeil == SevereWait + RetryStep * RetryCap + 1

(* GetTickCount() - t, in unsigned arithmetic. *)
Since(t) == IF now >= t THEN now - t ELSE now - t + TickMod

(* t + d, in unsigned arithmetic. *)
Plus(t, d) == (t + d) % TickMod

(* Bound: _connectRetries above the cap is clamped wherever it matters, so
   all those values are one. *)
BumpRetries(r) == IF r > RetryCap THEN r ELSE r + 1

(* The limit on the growing pause (NoClamp, a mutant: there is none). *)
NoClamp(r) == r
ClampRetries(r) == IF r > RetryCap THEN RetryCap ELSE r

-----------------------------------------------------------------------------
(* The open62541 client, as the thread uses it.                            *)

(* What a service call over the connection may return. *)
CallResults ==
  IF lost \/ ses # "open" THEN {"bad"} ELSE IF stable THEN {"good"} ELSE Status

(* What UA_Client_connect may return: a client whose connection broke stays
   unusable ("if the connection has an error, a new client must be created"). *)
ConnectResults ==
  IF lost THEN {"bad"} ELSE IF stable THEN {"good"} ELSE Status

(* UA_Client_run_iterate lets the library complete a disconnect. *)
Settle(link) == IF link = "closing" THEN {"closing", "closed"} ELSE {link}

RunIterate ==
  /\ chn' \in Settle(chn)
  /\ ses' \in Settle(ses)

(* The peer or the network goes away; the library reports it on a later call. *)
LoseConnection ==
  /\ ses = "open" /\ ~lost /\ ~stable
  /\ lost' = TRUE
  /\ UNCHANGED <<thread, state, lasterr, client, chn, ses, severe,
                 retryVars, resolved, timeVars, userVars>>

Stabilise ==
  /\ ~stable
  /\ stable' = TRUE
  /\ UNCHANGED <<thread, state, lasterr, clientVars, retryVars, resolved, timeVars,
                 user, terminated, dllUnload>>

-----------------------------------------------------------------------------
(* Time: a tick count that wraps, and a thread that is scheduled often
   enough not to miss a whole turn of it. *)

NextTick(t) == IF t = TickMod - 1 THEN 0 ELSE t + 1

TimePasses ==
  /\ thread \in {"loop", "case", "wait"}
  /\ lag < MaxLag
  /\ lag' = lag + 1
  /\ now' = NextTick(now)
  /\ paused' = IF paused < PauseCeil THEN paused + 1 ELSE paused
  /\ UNCHANGED <<thread, state, tEndTime, lasterr, clientVars, retryVars, resolved, userVars>>

-----------------------------------------------------------------------------
(* The thread.                                                             *)

(* The loop of Execute and the run_iterate in front of the switch, whose
   result is ignored. *)
Poll ==
  /\ thread = "loop"
  /\ ~terminated /\ ~dllUnload
  /\ thread' = "case"
  /\ lag' = 0
  /\ IF state >= 10 /\ state # 30 /\ client
     THEN RunIterate
     ELSE UNCHANGED <<chn, ses>>
  /\ UNCHANGED <<state, lasterr, client, lost, severe, retryVars, resolved, now, tEndTime,
                 paused, userVars>>

EndThread ==
  /\ thread = "loop"
  /\ terminated \/ dllUnload
  /\ thread' = "ended"
  /\ UNCHANGED <<state, lasterr, clientVars, retryVars, resolved, timeVars, userVars>>

(* The time since a disconnect counts up to the next connect. *)
Case(s) ==
  /\ thread = "case"
  /\ state = s
  /\ thread' = "loop"
  /\ paused' = CASE s = 99 -> 0 [] s \in Recovering -> paused [] OTHER -> PauseCeil
  /\ UNCHANGED <<now, tEndTime, lag, userVars>>

(* The assignment of a status to _lasterr, with its history. *)
Record(status) ==
  /\ lasterr' = status
  /\ severe' = (severe \/ IsSevere(status))

(* case 0: not initialised, reached when the object is closed unstarted. *)
Idle ==
  /\ Case(0)
  /\ UNCHANGED <<state, lasterr, clientVars, retryVars, resolved>>

(* case 1: InitClientConfig deletes a client that is left and makes one. *)
CreateClient ==
  /\ Case(1)
  /\ client' = TRUE
  /\ chn' = "closed" /\ ses' = "closed"
  /\ lost' = FALSE /\ severe' = FALSE
  /\ state' = 10
  /\ UNCHANGED <<lasterr, retryVars, resolved>>

(* case 10: a blocking connect.  The node ids known so far belong to an earlier
   connection. *)
Connect ==
  /\ Case(10)
  /\ \E r \in ConnectResults :
       /\ Record(r)
       /\ \/ /\ r = "good"
             /\ state' = 20
             /\ chn' = "open" /\ ses' = "open"
             /\ resolved' = {}
          \/ /\ r # "good"
             /\ state' = 99
             /\ chn' \in {chn, "open"}       \* a refused session leaves the channel
             /\ UNCHANGED <<ses, resolved>>
  /\ UNCHANGED <<client, lost, retryVars>>

(* Mutant: the error of the write node is overwritten by the read node's result. *)
ResolveNodesKeepsLastError ==
  /\ Case(20)
  /\ \E rw, rr \in CallResults :
       /\ Record(rr)
       /\ resolved' = {n \in Nodes : IF n = "wr" THEN rw = "good" ELSE rr = "good"}
       /\ state' = IF rr = "good" THEN 21 ELSE 99
       /\ connectRetries' = IF rr = "good" THEN 0 ELSE connectRetries
  /\ UNCHANGED <<client, chn, ses, lost, stateTicker>>

(* case 20: initCyclicInfo for the write node, then for the read node.  Each
   clears the node's ids first; a structure definition that cannot be read is
   no error. *)
ResolveNodes ==
  /\ Case(20)
  /\ \E rw, rr \in CallResults :
       LET visited == IF rw = "good" THEN Nodes ELSE {"wr"}
           result  == IF rw = "good" THEN rr ELSE rw
           failed  == {n \in visited : IF n = "wr" THEN rw # "good" ELSE rr # "good"}
       IN /\ Record(result)
          /\ resolved' = (resolved \cup visited) \ failed
          /\ state' = IF result = "good" THEN 21 ELSE 99
          /\ connectRetries' = IF result = "good" THEN 0 ELSE connectRetries
  /\ UNCHANGED <<client, chn, ses, lost, stateTicker>>

(* case 21: the first exchange. *)
FirstCycle ==
  /\ Case(21)
  /\ \E r \in CallResults :
       /\ Record(r)
       /\ state' = IF r = "good" THEN 30 ELSE 99
       /\ connectRetries' = IF r = "good" THEN 0 ELSE connectRetries
  /\ UNCHANGED <<client, chn, ses, lost, stateTicker, resolved>>

(* case 30, the exchange, which takes no time here: an error ends it, otherwise the
   end of the cycle is waited for. *)
CyclicExchange ==
  /\ thread = "case" /\ state = 30
  /\ \E r \in CallResults :
       /\ Record(r)
       /\ \/ /\ r = "good"
             /\ thread' = "wait"
             /\ tEndTime' = Plus(now, CycleTime)
             /\ UNCHANGED state
          \/ /\ r # "good"
             /\ thread' = "loop"
             /\ state' = 99
             /\ UNCHANGED tEndTime
  /\ UNCHANGED <<now, lag, paused, client, chn, ses, lost, retryVars, resolved, userVars>>

(* Mutant: a failed run_iterate leaves _lasterr as the exchange set it. *)
AwaitCycleForgetsStatus ==
  /\ thread = "wait"
  /\ lag' = 0
  /\ \E p \in CallResults :
       /\ severe' = (severe \/ IsSevere(p))
       /\ thread' = IF p = "good" /\ now <= tEndTime THEN "wait" ELSE "loop"
       /\ state' = IF p = "good" THEN state ELSE 99
  /\ tEndTime' = IF thread' = "wait" THEN tEndTime ELSE 0
  /\ UNCHANGED <<lasterr, now, paused, client, chn, ses, lost, retryVars, resolved, userVars>>

(* case 30, a round of do ... while (GetTickCount() <= tEndTime): an error of
   run_iterate breaks out of the loop, a closing of the object does not. *)
AwaitCycle ==
  /\ thread = "wait"
  /\ lag' = 0
  /\ \E p \in CallResults :
       /\ Record(p)
       /\ thread' = IF p = "good" /\ now <= tEndTime THEN "wait" ELSE "loop"
       /\ state' = IF p = "good" THEN state ELSE 99
  /\ tEndTime' = IF thread' = "wait" THEN tEndTime ELSE 0
  /\ UNCHANGED <<now, paused, client, chn, ses, lost, retryVars, resolved, userVars>>

(* Mutant: the end of the longest retry pause is kept instead of its start, without
   the wrap of the tick count. *)
DisconnectKeepsDeadline ==
  /\ Case(99)
  /\ chn' \in IF chn = "open" THEN {"closing", "closed"} ELSE {chn}
  /\ ses' \in IF ses = "open" THEN {"closing", "closed"} ELSE {ses}
  /\ stateTicker' = now + RetryStep * RetryCap
  /\ connectRetries' = BumpRetries(connectRetries)
  /\ state' = 900
  /\ UNCHANGED <<lasterr, client, lost, severe, resolved>>

(* case 99: disconnect, now or with the help of later polls. *)
Disconnect ==
  /\ Case(99)
  /\ chn' \in IF chn = "open" THEN {"closing", "closed"} ELSE {chn}
  /\ ses' \in IF ses = "open" THEN {"closing", "closed"} ELSE {ses}
  /\ stateTicker' = now
  /\ connectRetries' = BumpRetries(connectRetries)
  /\ state' = 900
  /\ UNCHANGED <<lasterr, client, lost, severe, resolved>>

(* Mutant: a second of waiting taken for a completed disconnect. *)
AwaitClosedByTime ==
  /\ Case(900)
  /\ state' = IF Since(stateTicker) > RetryStep THEN 910 ELSE 900
  /\ UNCHANGED <<lasterr, clientVars, retryVars, resolved>>

(* case 900: both the channel and the session have to report closed. *)
AwaitClosed ==
  /\ Case(900)
  /\ state' = IF chn = "closed" /\ ses = "closed" THEN 910 ELSE 900
  /\ UNCHANGED <<lasterr, clientVars, retryVars, resolved>>

(* Mutant: every error is answered by the pause alone. *)
BackoffKeepsClient ==
  /\ Case(910)
  /\ connectRetries' = ClampRetries(connectRetries)
  /\ state' = IF Since(stateTicker) > RetryStep * connectRetries' THEN 10 ELSE 910
  /\ UNCHANGED <<lasterr, clientVars, stateTicker, resolved>>

(* case 910: a severe error costs the client, any other a pause. *)
Backoff ==
  /\ Case(910)
  /\ \/ /\ IsSevere(lasterr)
        /\ state' = 920
        /\ UNCHANGED connectRetries
     \/ /\ ~IsSevere(lasterr)
        /\ connectRetries' = ClampRetries(connectRetries)
        /\ state' = IF Since(stateTicker) > RetryStep * connectRetries' THEN 10 ELSE 910
  /\ UNCHANGED <<lasterr, clientVars, stateTicker, resolved>>

(* Mutant: the client is deleted, the pointer is kept. *)
DropClientKeepsPointer ==
  /\ Case(920)
  /\ Since(stateTicker) > SevereWait
  /\ chn' = "closed" /\ ses' = "closed" /\ lost' = FALSE
  /\ state' = 1
  /\ UNCHANGED <<client, lasterr, severe, retryVars, resolved>>

(* case 920: after a longer pause the client is deleted. *)
DropClient ==
  /\ Case(920)
  /\ \/ /\ Since(stateTicker) > SevereWait
        /\ client' = FALSE
        /\ chn' = "closed" /\ ses' = "closed" /\ lost' = FALSE
        /\ state' = 1
     \/ /\ Since(stateTicker) <= SevereWait
        /\ UNCHANGED <<client, chn, ses, lost, state>>
  /\ UNCHANGED <<lasterr, severe, retryVars, resolved>>

-----------------------------------------------------------------------------
(* The owner of the Lua object, and the process.                           *)

(* UA_Client_CyclicIO::start, which Init refuses once _state is not 0. *)
Start ==
  /\ user = "new" /\ state = 0
  /\ user' = "started"
  /\ state' = 1
  /\ thread' = "loop"
  /\ UNCHANGED <<lasterr, clientVars, retryVars, resolved, timeVars, terminated, dllUnload, stable>>

(* Mutant: the destructor does not resume a thread that was never started. *)
CloseWithoutResume ==
  /\ user \in {"new", "started"}
  /\ user' = "resumed"
  /\ UNCHANGED <<thread, state, lasterr, clientVars, retryVars, resolved, timeVars, terminated, dllUnload, stable>>

(* ~UA_Client_CyclicIO, a step per call: Resume, Terminate, WaitFor and the
   delete of the thread object, which leaves _client as it is. *)
CloseResume ==
  /\ user \in {"new", "started"}
  /\ user' = "resumed"
  /\ thread' = IF thread = "suspended" THEN "loop" ELSE thread
  /\ UNCHANGED <<state, lasterr, clientVars, retryVars, resolved, timeVars, terminated, dllUnload, stable>>

CloseTerminate ==
  /\ user = "resumed"
  /\ user' = "waiting"
  /\ terminated' = TRUE
  /\ UNCHANGED <<thread, state, lasterr, clientVars, retryVars, resolved, timeVars, dllUnload, stable>>

CloseWaited ==
  /\ user = "waiting" /\ thread = "ended"
  /\ user' = "closed"
  /\ UNCHANGED <<thread, state, lasterr, clientVars, retryVars, resolved, timeVars, terminated, dllUnload, stable>>

(* DllEntryPoint with DLL_PROCESS_DETACH. *)
DllUnload ==
  /\ ~dllUnload
  /\ dllUnload' = TRUE
  /\ UNCHANGED <<thread, state, lasterr, clientVars, retryVars, resolved, timeVars, user, terminated, stable>>

-----------------------------------------------------------------------------
Init ==
  /\ thread = "suspended" /\ state = 0 /\ lasterr = "good"
  /\ client = FALSE /\ chn = "closed" /\ ses = "closed" /\ lost = FALSE /\ severe = FALSE
  /\ connectRetries = 0 /\ stateTicker = 0
  /\ resolved = {}
  /\ now \in Ticks /\ tEndTime = 0 /\ lag = 0 /\ paused = PauseCeil
  /\ user = "new" /\ terminated = FALSE /\ dllUnload = FALSE /\ stable = FALSE

ThreadStep ==
  \/ Poll \/ EndThread \/ Idle \/ CreateClient \/ Connect \/ ResolveNodes \/ FirstCycle
  \/ CyclicExchange \/ AwaitCycle \/ Disconnect \/ AwaitClosed \/ Backoff \/ DropClient

CloseStep == CloseTerminate \/ CloseWaited

Next ==
  \/ ThreadStep \/ CloseStep
  \/ Start \/ CloseResume \/ DllUnload
  \/ TimePasses \/ LoseConnection \/ Stabilise

Spec == Init /\ [][Next]_vars

(* A poll after which the library has nothing left to close. *)
PollSettles == Poll /\ chn' # "closing" /\ ses' # "closing"

(* The thread is scheduled and every library call returns, so that a case goes on and a
   wait comes to its next round, though not to its last; time goes on; the destructor
   runs to its end; a disconnect completes when polled often enough. *)
Fairness ==
  /\ WF_vars(ThreadStep)
  /\ WF_vars(TimePasses)
  /\ WF_vars(CloseStep)
  /\ SF_vars(PollSettles)

FairSpec == Spec /\ Fairness

-----------------------------------------------------------------------------
TypeOK ==
  /\ thread \in Threads
  /\ state \in States
  /\ lasterr \in Status
  /\ client \in BOOLEAN /\ chn \in Links /\ ses \in Links
  /\ lost \in BOOLEAN /\ severe \in BOOLEAN
  /\ connectRetries \in 0 .. RetryCap + 1
  /\ stateTicker \in Ticks /\ now \in Ticks /\ tEndTime \in Ticks
  /\ resolved \in SUBSET Nodes
  /\ lag \in 0 .. MaxLag /\ paused \in 0 .. PauseCeil
  /\ user \in Users
  /\ terminated \in BOOLEAN /\ dllUnload \in BOOLEAN /\ stable \in BOOLEAN

(* Every state whose case hands _client to the library has a client, and the
   states in front of InitClientConfig have none: no call on a NULL or deleted
   client, and no client is overwritten while it is still allocated. *)
ClientMatchesState == client <=> state \notin {0, 1}

(* The process image is exchanged only with node ids that were read over the
   connection in use, never with ids an earlier connection left in _wr, _rd. *)
ExchangeOnResolvedNodes == state \in {21, 30} => resolved = Nodes

(* A connect is only ever tried on a client whose channel and session are both
   closed, whichever way the former connection ended. *)
ConnectOnlyWhenClosed == state = 10 => chn = "closed" /\ ses = "closed"

(* "if the connection has an error, a new client must be created": a client with
   which a severe error was recorded is never connected again. *)
SevereErrorCostsClient == state \in {10, 20, 21, 30} => ~severe

(* The states that handle an error act on the error that caused the disconnect:
   _lasterr is not GOOD until the next connect. *)
RecoveryKnowsItsError == state \in {99, 900, 910, 920} => lasterr # "good"

(* A reconnect comes after the pause the code promises, in real time and across a
   wrap of the tick count: the growing pause, never empty and never above the cap,
   for the same client, and the long one for a new client. *)
ReconnectsPaced ==
  [][ /\ state = 910 /\ state' = 10 =>
           /\ connectRetries' \in 1 .. RetryCap
           /\ paused > RetryStep * connectRetries'
      /\ state = 920 /\ state' = 1 => paused > SevereWait ]_vars

(* The wait for the end of a cycle that lies so close below the wrap of the tick count
   that no round may find it exceeded: one step of the thread may carry the count from
   before the end to behind the wrap. *)
WaitsAtWrap == thread = "wait" /\ tEndTime + MaxLag >= TickMod

(* Closing the Lua object ends, whatever state the thread is in and whatever becomes of
   the connection, unless the thread never gets out of a cycle that ends at the wrap of
   the tick count (WaitFor; the loop of case 30 does not look at Terminated). *)
CloseCompletes ==
  [](user = "resumed" => <>(user = "closed") \/ <>[]WaitsAtWrap)

(* Once the network and the server stay up, a started and not closed client gets
   to cyclic I/O whatever state an earlier failure left it in. *)
RecoversWhenStable ==
  (stable /\ user = "started") ~> (state = 30 \/ user # "started" \/ dllUnload)

-----------------------------------------------------------------------------
(* The thread implements ConnectionSupervisor. *)
Phase ==
  IF thread = "ended" THEN "stopped"
  ELSE IF state = 0 THEN "off"
  ELSE IF state \in {1, 10, 20, 21} THEN "connecting"
  ELSE IF state = 30 THEN "exchanging"
  ELSE "recovering"

Supervisor == INSTANCE ConnectionSupervisor WITH
  phase <- Phase, linked <- (chn # "closed" \/ ses # "closed"), prepared <- resolved

(* Every step of the thread is a step of ConnectionSupervisor or changes nothing it
   speaks of: no exchange over an unprepared connection, no second connection beside
   one that is still closing, no way back from a stop. *)
ImplementsSupervisor == Supervisor!Spec
=============================================================================
