SPECIFICATION FairSpec
CONSTANTS
  Interval <- Crowded
  Threshold = 2
  MaxTickets = 1
  BrokerAnswers = {"done"}
  Commands <- TradeOnSignal
PROPERTY ConnectIsRetried
