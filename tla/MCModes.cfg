SPECIFICATION FairSpec
CONSTANTS
  a1 = a1
  a2 = a2
  Apps <- TwoApps
  Slots = 2
  StreamingModes = {TRUE, FALSE}
  HasPA = TRUE
  ReadResults = {"success", "retry"}
  StreamEvents = {"tag", "quiet"}
  MayDestroy = FALSE
  MaxTags = 2
  MaxStarts = 3
INVARIANTS NothingLost
 
