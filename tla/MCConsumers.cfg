\* Full disks, signals and kills at any point, publishers that die while publishing.
SPECIFICATION FairAll
CONSTANTS
  monitor = monitor
  test = test
  simple = simple
  csv = csv
  Program = {monitor, test, simple}
  Kind <- Kinds
  recorder <- CsvConsumer
  Consumer <- Consumers
  Source <- Sources
  Printing <- Printers
  Casts <- Groups
  Field = {depth, rest}
  Summed = {depth}
  MaxPublished = 2
  MaxDeaths = 1
  MaxLeaks = 1
  BatchSize = 2
  MaxRuns = 2
INVARIANTS
  NotOlderThanTold
  WholeUnlessOverwritten
  CountExact
  TopFollows
  FileHoldsLines
  LinesInOrder
PROPERTIES
  FeedSpec
  StopsOnSignal
  KeepsPolling
  EventuallyWritten
CHECK_DEADLOCK FALSE
