SPECIFICATION FairSpec
CONSTANTS
  a1 = a1
  a2 = a2
  Apps <- OneApp
  Slots = 2
  StreamingModes = {TRUE}
  HasPA = TRUE
  ReadResults = {"success", "fatal"}
  StreamEvents = {"tag", "quiet"}
  MayDestroy = FALSE
  MaxTags = 2
  MaxStarts = 2
PROPERTIES StartReturns
