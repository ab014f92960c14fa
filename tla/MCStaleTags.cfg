SPECIFICATION Spec
CONSTANTS
  gen2 = gen2
  iso = iso
  t1 = t1
  t2 = t2
  Protocols <- MCProtocols
  Gen2 = gen2
  Tags <- MCTags
  TagsOf <- MCTagsOf
  PacketTags = 2
  Troubles = {}
  MaxReads = 3
  MaxSearches = 2
  MaxFound = 2
  MaxFaults = 0
INVARIANT LastReadTags
