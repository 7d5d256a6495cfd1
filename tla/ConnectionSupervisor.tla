------------------------- MODULE ConnectionSupervisor -------------------------
(***************************************************************************)
(* What the cyclic I/O thread promises, without its state numbers: it      *)
(* works towards an exchange over one connection at a time, exchanges only *)
(* when every node was prepared over that connection, and after a failure  *)
(* connects again only when nothing of the failed connection is left.  It  *)
(* may be stopped at any point, and does not come back.                    *)
(***************************************************************************)
CONSTANT Nodes     \* the nodes whose ids must be known before an exchange

VARIABLES
  phase,      \* "off", "connecting", "exchanging", "recovering" or "stopped"
  linked,     \* is any part of a connection open?
  prepared    \* the nodes whose ids belong to this connection

vars == <<phase, linked, prepared>>

Init == phase = "off" /\ linked = FALSE /\ prepared = {}

Begin ==
  /\ phase = "off"
  /\ phase' = "connecting"
  /\ UNCHANGED <<linked, prepared>>

(* A new connection invalidates everything known from the one before. *)
Establish ==
  /\ phase = "connecting" /\ ~linked
  /\ linked' = TRUE
  /\ prepared' = {}
  /\ UNCHANGED phase

Prepare ==
  /\ phase = "connecting" /\ linked
  /\ prepared' \in SUBSET Nodes
  /\ phase' \in {"connecting", "recovering"}
  /\ UNCHANGED linked

Exchange ==
  /\ phase = "connecting" /\ linked /\ prepared = Nodes
  /\ phase' = "exchanging"
  /\ UNCHANGED <<linked, prepared>>

Fail ==
  /\ phase \in {"connecting", "exchanging"}
  /\ phase' = "recovering"
  /\ linked' \in BOOLEAN /\ (linked => linked')
  /\ UNCHANGED prepared

Unlink ==
  /\ phase = "recovering"
  /\ linked' = FALSE
  /\ UNCHANGED <<phase, prepared>>

Retry ==
  /\ phase = "recovering" /\ ~linked
  /\ phase' = "connecting"
  /\ UNCHANGED <<linked, prepared>>

Stop ==
  /\ phase # "stopped"
  /\ phase' = "stopped"
  /\ UNCHANGED <<linked, prepared>>

Next ==
  \/ Begin \/ Establish \/ Prepare \/ Exchange \/ Fail \/ Unlink \/ Retry \/ Stop

Spec == Init /\ [][Next]_vars
=============================================================================
