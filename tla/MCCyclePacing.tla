---------------------------- MODULE MCCyclePacing ----------------------------
(* A cycle of several polls under a tick count of a small width: the start ticks and
   the horizon keep a run below the wrap (only the end of a cycle that begins as the
   horizon is reached lies beyond it), or lead it over the wrap. *)
EXTENDS CyclePacing
=============================================================================
