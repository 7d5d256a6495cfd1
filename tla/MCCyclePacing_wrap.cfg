SPECIFICATION Spec
CONSTANTS
  TickMod = 128
  CycleMs = 12
  Margin = 2
  MaxPoll = 4
  MaxIo = 12
  MaxLate = 3
  StartTicks = {100, 115, 116, 117}
  Horizon = 60
INVARIANT
  NeverOverdue
CHECK_DEADLOCK FALSE
