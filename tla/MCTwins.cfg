\* An order of two that trades with an order of one.
SPECIFICATION Spec
CONSTANTS
  Levels = 1
  AmountMod = 8
  VolumeMod = 8
  Price = {1}
  Amount = {1, 2}
  MaxEvents = 3
INVARIANTS
  TwinsAgree
CHECK_DEADLOCK FALSE
