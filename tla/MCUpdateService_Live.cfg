SPECIFICATION FairSpec
CONSTANTS
  Calls = {c1}
  Concurrency = 1
  MaxID = 3
  Contents = {comic}
  Absent = Absent
  Placeholder = Placeholder
PROPERTIES
  GoroutinesDrain
  ImplementsFairStore
