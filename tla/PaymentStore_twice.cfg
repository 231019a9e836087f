\* One call of the main thread, three sessions, a crash.
CONSTANTS
  MaxSessions = 3
  MaxUpdates = 1
  MaxCrashes = 1
SPECIFICATION Spec
INVARIANTS ChargedOnce
CHECK_DEADLOCK FALSE
