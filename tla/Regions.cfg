SPECIFICATION Spec
CONSTANTS
  Screens <- SmallScreens
  HStatus = "last"
  Captions <- TwoCaptions
  Sizes <- SomeSizes
  Flags <- SomeFlags
  r1 = r1
  r2 = r2
  r3 = r3
  RegionIds = {r1, r2, r3}
  MaxAstray = 2
INVARIANTS
  Tiled
PROPERTIES
  Survives
  Kept
SYMMETRY Alike
CHECK_DEADLOCK FALSE
