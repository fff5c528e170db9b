CONSTANTS
  Calls <- ReadersToo
  Slots = {s1, s2}
  Apart <- AllAndStartsApart
  Failing = TRUE
  Equities = {100}
  Profits <- Losses
  MaxLossPct = 3
  MaxPnl = 6
  MaxFills = 2
SPECIFICATION Spec
INVARIANTS
  NoLossForgotten
  RestartKeepsDay
  EachFillManagesOnce
SYMMETRY EitherSlot
