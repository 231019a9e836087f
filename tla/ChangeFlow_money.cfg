\* Two payments, notes of 1 and 4, one crash.
CONSTANTS
  p1 = p1
  p2 = p2
  Payments = {p1, p2}
  None = none
  Limit <- MCLimit
  Notes = {1, 4}
  MaxCash = 5
  MaxCrashes = 1
SPECIFICATION Spec
INVARIANTS TypeOK BookedOnce NothingLost
CONSTRAINT NotMixedUp
CHECK_DEADLOCK FALSE
