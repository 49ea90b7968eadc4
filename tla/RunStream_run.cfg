SPECIFICATION FairSpec
CONSTANTS
  MaxEvents = 4
  MaxQueue = 2
  MaxTries = 1
  MaxFaults = 3
INVARIANTS JournalInOrder StreamExact CompleteIsTrue
PROPERTY EndArrives
CHECK_DEADLOCK FALSE
