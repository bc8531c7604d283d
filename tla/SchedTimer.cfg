SPECIFICATION QuietSpec
CONSTANTS
  NULL = NULL
  statusev = statusev
  idleev = idleev
  Timers = {statusev, idleev}
  Rank <- MCRank
  Width = 12
  MaxWait = 3
  MaxLate = 2
  Bounded = TRUE
  Idle = 2
INVARIANTS
  NoOversleep
PROPERTIES
  NeverEarly
  TimersRun
