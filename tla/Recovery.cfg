\* Four starts, three commands, two failed writes or syncs, any crash.
CONSTANTS
  MaxCommands = 3
  MaxOpens = 4
  MaxFaults = 2
  Absent = Absent
  Partial = Partial
  None = None
  WritesAreOrdered = TRUE
SPECIFICATION FairSpec
INVARIANTS  AppliedOnce MemoryMatchesFiles OnlyFaultsPoison
PROPERTIES ExposedOnlyGrows JournalIsCheckpointed
