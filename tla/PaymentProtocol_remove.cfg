\* The remove command and one general error of the gateway.
CONSTANTS
  Payments = {p1}
  None = none
  TriesLimit = 0
  MaxSessions = 6
  MaxFaults = 1
  MaxCommands = 1
SPECIFICATION Spec
INVARIANT RemovedIsNotCharged
