SPECIFICATION TerminalSpec
CONSTANTS
  Reads = {}
  Strings <- Bindable
  Slots = 3
  Term <- Keyboard
  EscKeys = {}
  Far = 16
INVARIANTS
  InputKept
  LongestMatch
  NeverStuck
  TableRight
  ScreenShown
CHECK_DEADLOCK FALSE
