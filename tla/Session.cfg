SPECIFICATION Spec
CONSTANTS
  creator = creator
  u1 = u1
  u2 = u2
  Clients = {creator, u1, u2}
  Creator = creator
  AuthSettings = {TRUE, FALSE}
  AutoDetach = TRUE
  MaxConns = 3
  MaxKeys = 1
SYMMETRY Others
CHECK_DEADLOCK FALSE
INVARIANTS
  NoOrphan
  ModeTellsState
