SPECIFICATION Spec
CONSTANTS
  s1 = s1
  s2 = s2
  a = a
  b = b
  c = c
  Servers = {s1, s2}
  Nodes <- MCNodes
  ValueCallbacks = {v}
  Functions = {f}
  None = None
INVARIANTS
  TypeOK
  ValueCallbackIsTheOneSet
  ValueCallbackFailsOnlyWhenMisused
CHECK_DEADLOCK FALSE
