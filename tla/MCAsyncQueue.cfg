SPECIFICATION FairSpec
CONSTANTS
  Producers = {p1}
  Consumers = {c1, c2}
  MaxSize = 2
  PushLimit = 5
INVARIANTS
  TypeOK
  WaitersJustified
  NoStrandedProducer
PROPERTIES
  ImplementsChannel
  WaitsEnd
