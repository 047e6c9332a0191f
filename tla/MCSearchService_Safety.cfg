SPECIFICATION Spec
CONSTANTS
  MaxID = 2
  Words = {w1, w2}
  Contents = {{w1}, {w1, w2}}
  Absent = Absent
  Placeholder = Placeholder
  Searches = {s1}
  MaxLimit = 2
INVARIANTS
  TypeOK
  SearchesAgree
  MissingRowMeansDropped
PROPERTIES
  PublishedIndexIsExact
