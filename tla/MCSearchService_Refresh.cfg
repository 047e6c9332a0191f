SPECIFICATION Spec
CONSTANTS
  MaxID = 1
  Words = {w1, w2}
  Contents = {{w1}}
  Absent = Absent
  Placeholder = Placeholder
  Searches = {s1}
  MaxLimit = 1
INVARIANTS
  IndexRefreshedWhileServing
