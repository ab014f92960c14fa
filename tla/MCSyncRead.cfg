SPECIFICATION Spec
CONSTANTS
  gen2 = gen2
  iso = iso
  t1 = t1
  t2 = t2
  Protocols <- MCProtocols
  Gen2 = gen2
  Tags <- MCTags
  TagsOf <- MCTagsOf
  PacketTags = 2
  Troubles = {"lost", "unanswered", "late", "corrupt"}
  MaxReads = 2
  MaxSearches = 3
  MaxFound = 1
  MaxFaults = 2
INVARIANTS TypeOK FreshTags ReadComplete CountHonest SettingsInStep
