SPECIFICATION MCSpec
CONSTANTS
  Chars = {"a", "b"}
  Wide = "W"
  Widths = {1, 2, 3, 4}
  Heights = {1, 2, 3}
  Histories = {0, 1, 2}
  Args = {0, 1, 2}
INVARIANTS
  WholeCharacters
  OldestFirst
PROPERTIES
  AltRestores
  TextKept
CHECK_DEADLOCK FALSE
