SPECIFICATION FairSpec
CONSTANTS
  a1 = a1
  a2 = a2
  Apps <- TwoApps
  Slots = 3
  StreamingModes = {TRUE}
  HasPA = TRUE
  ReadResults = {"success", "retry"}
  StreamEvents = {"tag", "quiet"}
  MayDestroy = FALSE
  MaxTags = 3
  MaxStarts = 2
INVARIANTS StopQuiesces
PROPERTIES StopReturns ImplementsTagStream
