\* Two blocks, --check-gaps.
SPECIFICATION FairSpec
CONSTANTS
  Levels = 1
  AmountMod = 4
  VolumeMod = 4
  CNT = 2
  Price = {1}
  Amount = {1}
  CheckGaps = TRUE
  ForceRecovery = FALSE
  MaxWrites = 4
  MaxRestarts = 1
PROPERTIES
  ReplaysFromBeginning
CHECK_DEADLOCK FALSE
