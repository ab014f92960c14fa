SPECIFICATION Spec
CONSTANTS
  a1 = a1
  a2 = a2
  Apps <- TwoApps
  Slots = 1
  StreamingModes = {TRUE}
  HasPA = TRUE
  ReadResults = {"success", "retry", "fatal"}
  StreamEvents = {"tag", "status", "quiet", "crc", "full", "lost"}
  MayDestroy = TRUE
  MaxTags = 2
  MaxStarts = 2
SYMMETRY Symmetry
INVARIANTS TypeOK SlotsAccounted LineExclusive NoneTwice
CHECK_DEADLOCK FALSE
