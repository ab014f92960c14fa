SPECIFICATION FairSpec
CONSTANTS
  a1 = a1
  a2 = a2
  Apps <- OneApp
  Slots = 2
  StreamingModes = {FALSE}
  HasPA = FALSE
  ReadResults = {"success", "antenna"}
  StreamEvents = {"lost"}
  MayDestroy = TRUE
  MaxTags = 3
  MaxStarts = 3
INVARIANTS LineExclusive
PROPERTIES  DestroyReturns
CHECK_DEADLOCK FALSE
