\* One reader, a writer that may die once, and more messages than there are indices.
SPECIFICATION FairSpec
CONSTANTS
  Reader = {r1}
  Word = {head, tail}
  CNT = 2
  IdxMod = 12
  MaxWrites = 13
  MaxCrashes = 1
INVARIANTS
  IInv
  WrapSafe
  IntactUnlessLapped
  NeverStale
PROPERTIES
  NoLossUnlessLapped
  FeedSpec
  EveryMessagePassed
CHECK_DEADLOCK FALSE
