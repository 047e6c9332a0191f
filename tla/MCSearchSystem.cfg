SPECIFICATION SystemFairSpec
CONSTANTS
  MaxID = 2
  Words = {w1}
  Contents = {{w1}}
  Absent = Absent
  Placeholder = Placeholder
  Searches = {}
  MaxLimit = 1
  Calls = {c1}
PROPERTIES
  EventuallyFresh
