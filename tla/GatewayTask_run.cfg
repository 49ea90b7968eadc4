CONSTANTS
  MaxJournal = 1
  MaxCancels = 1
  MaxFinishers = 2
  MaxFaults = 2
  MaxResumes = 1
  Attempts = 2
SPECIFICATION FairSpec
CHECK_DEADLOCK FALSE
INVARIANTS
  PublishedIsDurable
  SourceLogExact
  OutputKept
PROPERTIES
  ImplementsAgentTask
  TaskSettles
