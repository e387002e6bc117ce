\* Two reader threads, lapped twice.
SPECIFICATION FairBench
CONSTANTS
  Reader = {r1, r2}
  Word = {tsc, i}
  Number = i
  CNT = 2
  IdxMod = 12
  MaxWrites = 5
  MaxCrashes = 0
INVARIANTS
  AssertHolds
  DropCountExact
PROPERTIES
  ReadersLeave
CHECK_DEADLOCK FALSE
