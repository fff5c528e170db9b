CONSTANTS
  Calls <- KeyCalls
  Slots = {s1, s2}
  Apart <- AllApart
  Failing = FALSE
  Equities = {100, 150}
  Profits <- MixedProfits
  MaxLossPct = 3
  MaxPnl = 5
  MaxFills = 2
SPECIFICATION Spec
INVARIANTS
  TypeOK
  EachCloseBookedOnce
  LossLocks
PROPERTIES
  ImplementsDailyRisk
