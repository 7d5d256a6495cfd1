----------------------------- MODULE MCNodeTree -----------------------------
(* Two nodes in one namespace below a root in another, two names: siblings and parents
   with the same name, cycles, stale halves and nodes added again are all there. *)
EXTENDS NodeTree

CONSTANTS a, b, root, type

MCIds == {a, b}
MCNsOf == [n \in {a, b, root, type} |-> IF n \in MCIds THEN 1 ELSE 0]
=============================================================================
