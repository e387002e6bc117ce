\* Two blocks, four messages, a writer that starts again; --check-gaps --recover.
SPECIFICATION FairSpec
CONSTANTS
  Levels = 1
  AmountMod = 4
  VolumeMod = 4
  CNT = 2
  Price = {1}
  Amount = {1}
  CheckGaps = TRUE
  ForceRecovery = TRUE
  MaxWrites = 4
  MaxRestarts = 1
INVARIANTS
  BookSound
  GapNoticed
PROPERTIES
  BackToPolling
CHECK_DEADLOCK FALSE
