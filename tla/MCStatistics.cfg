\* Windows of three, four samples of four values for each collector.
SPECIFICATION Spec
CONSTANTS
  Sample = {0, 1, 4, 9}
  PrintEvery = 3
  IntMod = 32
  WordMod = 256
  MaxSamples = 4
INVARIANTS
  WindowExact
  SummaryExact
CHECK_DEADLOCK FALSE
