SPECIFICATION Spec
CONSTANTS
  Values = {v1, v2}
  SrvValues = {v1, Zero}
  LuaValues = {v1, v2}
  Bufs = {b1, b2, b3, b4}
  Zero = Zero
  Null = Null
  Free = Free
  Gated = FALSE
INVARIANT
  ReplyIsWhole
