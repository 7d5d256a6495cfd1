SPECIFICATION Spec
CONSTANTS
  TickMod = 128
  CycleMs = 12
  Margin = 2
  MaxPoll = 4
  MaxIo = 12
  MaxLate = 3
  StartTicks = {0, 1, 2, 50, 58}
  Horizon = 60
INVARIANTS
  TypeOK
  NeverOverdue
PROPERTY
  NeverEarly
CHECK_DEADLOCK FALSE
