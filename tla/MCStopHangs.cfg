SPECIFICATION FairSpec
CONSTANTS
  a1 = a1
  a2 = a2
  Apps <- OneApp
  Slots = 1
  StreamingModes = {TRUE}
  HasPA = TRUE
  ReadResults = {"success"}
  StreamEvents = {"tag", "quiet"}
  MayDestroy = FALSE
  MaxTags = 3
  MaxStarts = 1
PROPERTIES StopReturns
