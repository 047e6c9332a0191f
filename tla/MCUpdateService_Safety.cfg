SPECIFICATION Spec
CONSTANTS
  Calls = {c1, c2}
  Concurrency = 1
  MaxID = 2
  Contents = {comic}
  Absent = Absent
  Placeholder = Placeholder
SYMMETRY Symmetry
INVARIANTS
  TypeOK
  OneAtATime
  IdleMeansNoLiveWorker
  LiveWorkersBounded
  DropLeavesOnlyOrphans
  StatsCountPublished
PROPERTIES
  ComicsNeverDowngraded
  UpdateReturnsComplete
  ImplementsStore
