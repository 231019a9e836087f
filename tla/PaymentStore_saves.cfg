\* Three calls of the main thread, three sessions, a crash.
CONSTANTS
  MaxSessions = 3
  MaxUpdates = 3
  MaxCrashes = 1
SPECIFICATION Spec
INVARIANTS TypeOK ChargedOnceUnlessStale WholeAfterTurn ForcedFieldStays
CHECK_DEADLOCK FALSE
