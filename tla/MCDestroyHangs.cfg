SPECIFICATION FairSpec
CONSTANTS
  a1 = a1
  a2 = a2
  Apps <- OneApp
  Slots = 2
  StreamingModes = {FALSE}
  HasPA = FALSE
  ReadResults = {"success", "retry"}
  StreamEvents = {}
  MayDestroy = TRUE
  MaxTags = 2
  MaxStarts = 2
PROPERTIES DestroyReturns
CHECK_DEADLOCK FALSE
