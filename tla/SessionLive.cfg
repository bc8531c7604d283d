SPECIFICATION FairSpec
CONSTANTS
  creator = creator
  u1 = u1
  u2 = u2
  Clients = {creator, u1}
  Creator = creator
  AuthSettings = {TRUE}
  AutoDetach = FALSE
  MaxConns = 2
  MaxKeys = 2
CHECK_DEADLOCK FALSE
PROPERTIES
  AttachersLeave
  DisplaysAreFreed
  SuspendedComesBack
  ServesOn
