SPECIFICATION Spec
CONSTANTS
  Calls = {c1, c2}
  Concurrency = 1
  MaxID = 1
  Contents = {comic}
  Absent = Absent
  Placeholder = Placeholder
SYMMETRY Symmetry
INVARIANTS
  DropEmptiesTable
