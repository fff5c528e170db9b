SPECIFICATION FairSpec
CONSTANTS
  Interval <- Crowded
  Threshold = 2
  MaxTickets = 3
  BrokerAnswers = {"done"}
  Commands <- AnyCommand
INVARIANTS
  TypeOK
  AtMostOnePosition
  PositionsAreTracked
PROPERTIES
  DisconnectOnlyAfterSilence
  ImplementsStateMachine
  RecoversForGood
  SilenceIsNoticed
  ScanningEndsWithSession
