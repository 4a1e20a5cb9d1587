CONSTANTS
  Word4 = 8
  Word6 = 4
  Low4 = 1
  Low6 = 1
SPECIFICATION Spec
INVARIANTS ProbesInside WholeRange
CHECK_DEADLOCK FALSE
