SPECIFICATION MCSpec
CONSTANTS
  Displays = {1, 2}
  Capable = {1}
  Hard = {2}
  MaxArgs = 5
  MaxStr = 4
  MaxArg = 3
  InSize = 20
  Alphabet <- MCAlphabet
  Batches <- MCBatches
  Bytes = {0, 65, 127, 128, 143, 144, 159, 160, 184, 190, 191, 192, 194, 223, 224, 225, 237, 239, 240, 244, 247, 248, 249, 252, 253, 254}
  Narrow = {e}
  Broad = {D}
  Accents = {acute, grave}
  Ids = {1, 2, 3, 4}
  BroadIds = {8, 9}
INVARIANTS
  PrintWhole
  Collected
  Transcodes
PROPERTIES Meaning
CHECK_DEADLOCK FALSE
