\* Every sequence of three events, every kind of event, ids that come again or not.
SPECIFICATION FairTwo
CONSTANTS
  Levels = 1
  AmountMod = 8
  VolumeMod = 16
  Price = {1, 2, 3}
  Amount = {1, 2}
  MaxEvents = 3
INVARIANTS
  TypeOK
  Uncrossed
  IndexAgrees
  Conserved
PROPERTIES
  PriceTimePriority
  TopShown
  EventDone
  PassiveSpec
CHECK_DEADLOCK FALSE
