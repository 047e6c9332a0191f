SPECIFICATION FairSpec
CONSTANTS
  MaxID = 2
  MaxRetries = 10
INVARIANTS
  TypeOK
  NotFoundWasSaid
  RetriesBounded
  OnlyRefusedBodiesLeak
PROPERTIES
  GetEnds
