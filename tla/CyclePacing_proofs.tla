-------------------------- MODULE CyclePacing_proofs --------------------------
(***************************************************************************)
(* Proofs about module CyclePacing: the wait of the cyclic I/O is neither  *)
(* overdue nor early for every cycle time, margin and length of a poll, as *)
(* long as the tick count does not wrap.  The hypothesis is needed: the    *)
(* run MCCyclePacing_wrap has the counterexample without it.               *)
(***************************************************************************)
EXTENDS CyclePacing, TLAPS

(* No behaviour of the length considered comes near the wrap of the tick count, and no
   cycle shorter than the margin ends before the count began. *)
NoWrap ==
  \A s \in StartTicks : s + Horizon + CycleMs < TickMod /\ s + CycleMs >= Margin

Bounded == TypeOK /\ elapsed <= total

(* While the thread waits, the end it compares with is the beginning of the cycle
   plus its length, and it is still to come unless the exchange itself was longer. *)
EndAhead ==
  /\ now + (Horizon - total) + CycleMs < TickMod
  /\ now + CycleMs >= Margin
  /\ pc = "wait" =>
       /\ tEndTime = (now - elapsed) + (CycleMs - Margin)
       /\ now <= tEndTime \/ elapsed = took

-----------------------------------------------------------------------------
(* The tick count is a residue, and below the wrap a sum. *)
LEMMA PlusTicks ==
  ASSUME NEW t \in Ticks, NEW d \in Int
  PROVE  /\ Plus(t, d) \in Ticks
         /\ t + d \in Ticks => Plus(t, d) = t + d
  BY PacingAssumption, SMT DEF Plus, Ticks

(* A poll takes no negative time. *)
LEMMA PollTimeNat ==
  ASSUME NEW t \in Ticks, tEndTime \in Ticks
  PROVE  PollTime(t) \in Nat
  <1> DEFINE r == (tEndTime - t) % TickMod
             s == IF 2 * r >= TickMod THEN r - TickMod ELSE r
  <1>1. TickMod \in Nat /\ TickMod > 0 /\ t \in Int /\ tEndTime \in Int /\ MaxPoll \in Nat
    BY PacingAssumption DEF Ticks
  <1>2. r \in Int
    BY <1>1
  <1>3. SignedDiff(tEndTime, t) = s
    BY DEF SignedDiff
  <1> HIDE DEF r
  <1>4. s \in Int
    BY <1>1, <1>2
  <1> HIDE DEF s
  <1> QED BY <1>1, <1>3, <1>4 DEF PollTime

LEMMA BoundedStep ==
  ASSUME Bounded, [Next]_vars
  PROVE  Bounded'
  <1> USE DEF Bounded, TypeOK
  <1>1. CASE Exchange
    <2>1. PICK d \in 0 .. MaxIo :
            /\ total + d <= Horizon /\ now' = Plus(now, d)
            /\ elapsed' = d /\ took' = d /\ total' = total + d
      BY <1>1 DEF Exchange
    <2>2. now' \in Ticks /\ tEndTime' \in Ticks /\ tLastRW' \in Ticks
      BY <1>1, <2>1, PlusTicks, PacingAssumption DEF Exchange
    <2>3. elapsed' \in 0 .. Horizon /\ total' \in 0 .. Horizon /\ elapsed' <= total'
      BY <2>1, PacingAssumption
    <2> QED BY <1>1, <2>2, <2>3 DEF Exchange
  <1>2. CASE PollAndSleep
    <2>1. PICK d \in PollTime(now) .. PollTime(now) + MaxLate :
            /\ total + d <= Horizon /\ now' = Plus(now, d)
            /\ elapsed' = elapsed + d /\ total' = total + d
      BY <1>2 DEF PollAndSleep
    <2>2. d \in Nat
      BY <2>1, PollTimeNat, PacingAssumption
    <2>3. now' \in Ticks
      BY <2>1, <2>2, PlusTicks
    <2>4. elapsed' \in 0 .. Horizon /\ total' \in 0 .. Horizon /\ elapsed' <= total'
      BY <2>1, <2>2, PacingAssumption
    <2> QED BY <1>2, <2>3, <2>4 DEF PollAndSleep
  <1>3. CASE UNCHANGED vars
    BY <1>3 DEF vars
  <1> QED BY <1>1, <1>2, <1>3 DEF Next

LEMMA EndAheadStep ==
  ASSUME Bounded, EndAhead, [Next]_vars
  PROVE  /\ EndAhead'
         /\ pc = "wait" /\ pc' = "cycle" => elapsed' > CycleMs - Margin
  <1> USE DEF Bounded, TypeOK, EndAhead
  <1>1. CASE Exchange
    <2>1. PICK d \in 0 .. MaxIo :
            /\ total + d <= Horizon /\ now' = Plus(now, d)
            /\ elapsed' = d /\ took' = d /\ total' = total + d
      BY <1>1 DEF Exchange
    <2>2. now' = now + d
      <3>1. now + d \in Ticks
        BY <2>1, PacingAssumption DEF Ticks
      <3> QED BY <2>1, <3>1, PlusTicks
    <2>3. tEndTime' = now + (CycleMs - Margin)
      <3>1. now + (CycleMs - Margin) \in Ticks
        BY PacingAssumption DEF Ticks
      <3>2. CycleMs - Margin \in Int
        BY PacingAssumption
      <3> QED BY <1>1, <3>1, <3>2, PlusTicks DEF Exchange
    <2> QED BY <1>1, <2>1, <2>2, <2>3, PacingAssumption DEF Exchange, Ticks
  <1>2. CASE PollAndSleep
    <2>1. PICK d \in PollTime(now) .. PollTime(now) + MaxLate :
            /\ total + d <= Horizon /\ now' = Plus(now, d)
            /\ elapsed' = elapsed + d /\ total' = total + d
      BY <1>2 DEF PollAndSleep
    <2>2. d \in Nat
      BY <2>1, PollTimeNat, PacingAssumption
    <2>3. now' = now + d
      <3>1. now + d \in Ticks
        BY <2>1, <2>2, PacingAssumption DEF Ticks
      <3> QED BY <2>1, <2>2, <3>1, PlusTicks
    <2>4. /\ pc = "wait" /\ tEndTime' = tEndTime
          /\ pc' = IF now' <= tEndTime THEN "wait" ELSE "cycle"
      BY <1>2 DEF PollAndSleep, StillWaiting
    <2> QED BY <2>1, <2>2, <2>3, <2>4, PacingAssumption DEF Ticks
  <1>3. CASE UNCHANGED vars
    BY <1>3 DEF vars
  <1> QED BY <1>1, <1>2, <1>3 DEF Next

LEMMA InitBounded == Init => Bounded
  BY PacingAssumption DEF Init, Bounded, TypeOK, Ticks

LEMMA InitEndAhead ==
  ASSUME NoWrap
  PROVE  Init => EndAhead
  BY PacingAssumption DEF NoWrap, Init, EndAhead, Ticks

-----------------------------------------------------------------------------
(* The variables keep their types, across a wrap of the tick count too. *)
THEOREM TypeCorrect == Spec => []TypeOK
  <1>1. Bounded /\ [Next]_vars => Bounded'
    BY BoundedStep
  <1>2. Bounded => TypeOK
    BY DEF Bounded
  <1> QED BY <1>1, <1>2, InitBounded, PTL DEF Spec

(* Below the wrap the thread never waits on once the cycle time is over. *)
THEOREM NotOverdue ==
  ASSUME NoWrap
  PROVE  Spec => []NeverOverdue
  <1>1. Init => Bounded /\ EndAhead
    BY InitBounded, InitEndAhead
  <1>2. Bounded /\ EndAhead /\ [Next]_vars => (Bounded /\ EndAhead)'
    BY BoundedStep, EndAheadStep
  <1>3. Bounded /\ EndAhead => NeverOverdue
    BY PacingAssumption DEF Bounded, EndAhead, NeverOverdue, TypeOK, Ticks
  <1> QED BY <1>1, <1>2, <1>3, PTL DEF Spec

(* ... and never begins the next cycle before. *)
THEOREM NotEarly ==
  ASSUME NoWrap
  PROVE  Spec => NeverEarly
  <1>1. Init => Bounded /\ EndAhead
    BY InitBounded, InitEndAhead
  <1>2. Bounded /\ EndAhead /\ [Next]_vars => (Bounded /\ EndAhead)'
    BY BoundedStep, EndAheadStep
  <1>3. Bounded /\ EndAhead /\ [Next]_vars =>
          [pc = "wait" /\ pc' = "cycle" => elapsed' > CycleMs - Margin]_vars
    BY EndAheadStep
  <1> QED BY <1>1, <1>2, <1>3, PTL DEF Spec, NeverEarly
=============================================================================
