SPECIFICATION UnbindSpec
CONSTANTS
  Reads = {}
  Strings <- Bindable
  Slots = 3
  Term <- Keyboard
  EscKeys = {}
  Far = 16
INVARIANTS
  EveryEntryReacts
CHECK_DEADLOCK FALSE
