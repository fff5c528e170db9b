SPECIFICATION Spec
CONSTANTS
  BatchSize = 2
  Capacity = 3
  MaxRetries = 1
  Failing <- BothStores
  MaxBars = 3
  MaxTicks = 4
INVARIANTS
  TypeOK
  NoTickDropped
  CopiesAreRetries
  Chronological
PROPERTY TickNeverGoesBack
