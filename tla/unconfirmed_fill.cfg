SPECIFICATION Spec
CONSTANTS
  Interval <- Defaults
  Threshold = 2
  MaxTickets = 2
  BrokerAnswers = {"done", "unconfirmed"}
  Commands <- TradeOnSignal
INVARIANT AtMostOnePosition
