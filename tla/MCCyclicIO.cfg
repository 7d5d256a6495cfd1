SPECIFICATION FairSpec
CONSTANTS
  RetryStep = 1
  RetryCap = 2
  SevereWait = 0
  CycleTime = 1
  TickMod = 5
  MaxLag = 1
INVARIANTS
  TypeOK
  ClientMatchesState
  ExchangeOnResolvedNodes
  ConnectOnlyWhenClosed
  SevereErrorCostsClient
  RecoveryKnowsItsError
PROPERTIES
  ReconnectsPaced
  ImplementsSupervisor
  CloseCompletes
  RecoversWhenStable
CHECK_DEADLOCK FALSE
