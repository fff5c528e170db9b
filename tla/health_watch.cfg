CONSTANTS
  Slots = {s1, s2}
  MaxRetries = 1
  Lifetime = 4
  Recent = 3
SPECIFICATION FairSpec
INVARIANTS
  TypeOK
  OneMissIsTolerated
  PauseFollowsLink
PROPERTIES
  SilenceIsNoticed
  LinkHeals
