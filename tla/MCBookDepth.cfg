\* Two orders four ticks apart, in snapshots of two levels.
SPECIFICATION FairTwo
CONSTANTS
  Levels = 2
  AmountMod = 8
  VolumeMod = 16
  Price = {1, 2, 3, 4}
  Amount = {1}
  MaxEvents = 2
INVARIANTS
  DepthShown
CHECK_DEADLOCK FALSE
