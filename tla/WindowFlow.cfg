SPECIFICATION FairSpec
CONSTANTS
  NONE = NONE
  d1 = dis1
  d2 = dis2
  w1 = win1
  w2 = win2
  p1 = pseudo1
  Displays = {dis1}
  Windows = {win1}
  Pseudos = {pseudo1}
  Host <- PipedHost
  Feeds <- PipedFeeds
  Types <- PipedTypes
  Shows <- Shared
  Nonblock = "timed"
  Limit = 1
  Block = 1
  Size = 1
  Redraw = 1
  Text = 1
  MaxOut = 2
  MaxCmds = 2
  Features = {"message", "overlay", "stop", "nonblock", "pseudo"}
PROPERTIES
  Progress
  Redrawn
  MessageGoes
CHECK_DEADLOCK FALSE
