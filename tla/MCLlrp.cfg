SPECIFICATION LlrpSpec
CONSTANTS
  Plans = {"tagop", "multi"}
  Troubles = {"periodic", "closed", "silent", "refusal", "timeout", "empty"}
  ReportSize = 2
  MaxROSpecs = 4
  KeepAliveMisses = 1
  LostAfter = 1
  MaxOperations = 2
  MaxReports = 1
  MaxKeepAlives = 1
  MaxTroubles = 1
  MaxWire = 2
INVARIANTS LlrpTypeOK SoleReceiver ReportsOfThisRead WaitCoversPlan  AllTagsReturned LostMeansQuiet
CHECK_DEADLOCK FALSE
 
