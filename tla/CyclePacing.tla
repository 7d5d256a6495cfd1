----------------------------- MODULE CyclePacing -----------------------------
(***************************************************************************)
(* The pace of the cyclic I/O: case 30 of TOpcUA_IOThread::StateMachine    *)
(* exchanges the process image and then polls the library until the cycle  *)
(* time is over.  Ticks are GetTickCount(): unsigned, modulo TickMod.      *)
(* An error, which leaves the loop together with the state, is module      *)
(* CyclicIO.                                                               *)
(***************************************************************************)
EXTENDS Integers

CONSTANTS
  TickMod,     \* 2^32 in the code
  CycleMs,     \* _tCycleMs
  Margin,      \* 5 in the code: what the wait stays below the cycle time
  MaxPoll,     \* 10 in the code: the longest single poll
  MaxIo,       \* bound: ticks an exchange may take
  MaxLate,     \* bound: ticks by which a poll may overrun, or the count may jump
  StartTicks,  \* values of the tick count when the first cycle begins
  Horizon      \* bound: ticks of one behaviour

ASSUME PacingAssumption ==
  /\ TickMod \in Nat /\ CycleMs \in Nat /\ Margin \in Nat /\ MaxPoll \in Nat
  /\ MaxIo \in Nat /\ MaxLate \in Nat /\ Horizon \in Nat
  /\ StartTicks \subseteq 0 .. TickMod - 1

VARIABLES
  pc,        \* "cycle": about to exchange; "wait": in the do-while
  now,       \* GetTickCount()
  tLastRW,   \* _tLastRW
  tEndTime,  \* tEndTime
  elapsed,   \* history: ticks since the exchange began
  took,      \* history: ticks the last exchange took
  total      \* history: ticks since the first exchange began

vars == <<pc, now, tLastRW, tEndTime, elapsed, took, total>>

Ticks == 0 .. TickMod - 1

(* DWORD addition (PlusWide, a mutant: in a wider type) and the signed reading of a
   DWORD difference. *)
PlusWide(t, d) == t + d
Plus(t, d) == (t + d) % TickMod
SignedDiff(a, b) ==
  LET d == (a - b) % TickMod IN IF 2 * d >= TickMod THEN d - TickMod ELSE d

(* How long the next poll may take. *)
PollTime(t) ==
  LET d == SignedDiff(tEndTime, t)
  IN IF d < 0 THEN 0 ELSE IF d > MaxPoll THEN MaxPoll ELSE d

(* Mutants: the end is compared with the time the cycle began; the wait ends while a
   full poll is left. *)
StillWaitingFromStart(t) == tLastRW <= tEndTime
StillWaitingBefore(t) == t + MaxPoll <= tEndTime
(* The test of the loop, on unsigned tick counts. *)
StillWaiting(t) == t <= tEndTime

-----------------------------------------------------------------------------
Exchange ==
  /\ pc = "cycle"
  /\ \E d \in 0 .. MaxIo :
       /\ total + d <= Horizon
       /\ now' = Plus(now, d)
       /\ elapsed' = d /\ took' = d
       /\ total' = total + d
  /\ tLastRW' = now
  /\ tEndTime' = Plus(now, CycleMs - Margin)
  /\ pc' = "wait"

(* One turn of the loop: a poll, the rest of its time slept, the test. *)
PollAndSleep ==
  /\ pc = "wait"
  /\ \E d \in PollTime(now) .. PollTime(now) + MaxLate :
       /\ total + d <= Horizon
       /\ now' = Plus(now, d)
       /\ elapsed' = elapsed + d
       /\ total' = total + d
  /\ pc' = IF StillWaiting(now') THEN "wait" ELSE "cycle"
  /\ UNCHANGED <<tLastRW, tEndTime, took>>

Init ==
  /\ pc = "cycle"
  /\ now \in StartTicks
  /\ tLastRW = 0 /\ tEndTime = 0 /\ elapsed = 0 /\ took = 0 /\ total = 0

Next == Exchange \/ PollAndSleep

Spec == Init /\ [][Next]_vars

-----------------------------------------------------------------------------
TypeOK ==
  /\ pc \in {"cycle", "wait"}
  /\ now \in Ticks /\ tLastRW \in Ticks /\ tEndTime \in Ticks
  /\ elapsed \in 0 .. Horizon /\ took \in 0 .. MaxIo /\ total \in 0 .. Horizon

(* "Wait until one cycle is over": the thread never goes on waiting once the cycle
   time has passed; an exchange that took longer is followed by one poll without delay. *)
NeverOverdue == pc = "wait" => elapsed <= CycleMs - Margin \/ elapsed = took

(* ... and it never starts the next exchange before it has passed. *)
NeverEarly == [][pc = "wait" /\ pc' = "cycle" => elapsed' > CycleMs - Margin]_vars
=============================================================================
