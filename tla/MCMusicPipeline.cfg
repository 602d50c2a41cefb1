SPECIFICATION FairSpec
CONSTANTS
  Plan <- MCPlan
  Remote = TRUE
  ContinueOnError = TRUE
  PrefetchSize = 1
  TransferSize = 1
  SaveInterval = 2
INVARIANTS
  PipelineTypeOK
  TempsOwned
  ReportsHonest
  RunAccounted
  CountedInterruptSaves
PROPERTIES
  QuietAfterReturn
  BatchEnds
