SPECIFICATION Spec
CONSTANTS
  Interval <- Defaults
  Threshold = 3
  MaxTickets = 2
  BrokerAnswers = {"done", "unconfirmed"}
  Commands <- TradeOnSignal
PROPERTIES
  NoOrderOutOfTurn
  ScanNeverEndsDisconnected
