\* Two payments taking turns, one fault, no commands.
CONSTANTS
  Payments = {p1, p2}
  None = none
  TriesLimit = 0
  MaxSessions = 5
  MaxFaults = 1
  MaxCommands = 0
SPECIFICATION Spec
INVARIANTS TypeOK NeverChargedTwice ChargeIsOnRecord
PROPERTIES NewSessionIsSafe
SYMMETRY Symmetry
