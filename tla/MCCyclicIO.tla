----------------------------- MODULE MCCyclicIO -----------------------------
(* Model values of the pauses: a tick is the retry step, the cap and the long
   pause are small, and the tick count wraps a few ticks after the longest
   pause, so that every pause is also taken across a wrap. *)
EXTENDS CyclicIO
=============================================================================
