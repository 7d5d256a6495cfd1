SPECIFICATION FairSpec
CONSTANTS
  MaxId = 2
  Callbacks = {f, g}
  StateCallbacks = {h}
  MaxDepth = 4
  MaxQueue = 1
  None = None
INVARIANTS
  NotificationsFindTheirCallback
  TypeOK
  RunningCallbackIsKept
  CallbackFindsObject
PROPERTIES
  NotificationsArrive
CHECK_DEADLOCK FALSE
