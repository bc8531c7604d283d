SPECIFICATION MCSpec
CONSTANTS
  NULL = NULL
  w1 = w1
  w2 = w2
  w3 = w3
  d1 = d1
  d2 = d2
  l1 = l1
  Win = {w1, w2, w3}
  Display = {d1, d2}
  Layout = {l1}
  Positions = {0, 1, 2}
  MaxRegions = 2
  Kinds = {"pty", "group"}
  Zombies = {TRUE, FALSE}
  Titles = {1, 2}
  Rings = FALSE
INVARIANTS
  ListsAgree
  NoDangling
  ForeShown
PROPERTIES
  Implements
SYMMETRY Alike
CHECK_DEADLOCK FALSE
