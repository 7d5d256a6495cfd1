------------------------------ MODULE MCServer ------------------------------
(* Two servers, one with two nodes, an object or variable and a method among them, one
   with a single node, which shares the only value callback. *)
EXTENDS Server

CONSTANTS s1, s2, a, b, c

MCNodes == [s \in {s1, s2} |-> IF s = s1 THEN {a, b} ELSE {c}]
=============================================================================
