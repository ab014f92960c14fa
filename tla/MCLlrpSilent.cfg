SPECIFICATION LlrpSpec
CONSTANTS
  Plans = {"simple"}
  Troubles = {"silent"}
  ReportSize = 1
  MaxROSpecs = 4
  KeepAliveMisses = 1
  LostAfter = 1
  MaxOperations = 1
  MaxReports = 1
  MaxKeepAlives = 1
  MaxTroubles = 1
  MaxWire = 1
PROPERTY ReadEnds
CHECK_DEADLOCK FALSE
