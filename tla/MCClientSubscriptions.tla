----------------------- MODULE MCClientSubscriptions -----------------------
(* Two ids, so that a restarted server gives one out again, two callbacks to tell apart
   and one state callback; the depth lets a callback of run_iterate make a call that
   calls back itself. *)
EXTENDS ClientSubscriptions
=============================================================================
