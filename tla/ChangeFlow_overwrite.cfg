\* A late note after the payment was moved back to the change.
CONSTANTS
  p1 = p1
  p2 = p2
  Payments = {p1, p2}
  None = none
  Limit <- MCLimit
  Notes = {1, 4}
  MaxCash = 5
  MaxCrashes = 0
SPECIFICATION Spec
INVARIANT NotesAreBooked
CHECK_DEADLOCK FALSE
