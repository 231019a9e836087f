\* Two bill acceptors, two payments, two visits, three notes of 2; the first payment
\* is of a fixed amount, so only its limit holds, the second must make no change.
CONSTANTS
  a1 = a1
  a2 = a2
  Acceptors = {a1, a2}
  Bills = {a1, a2}
  NumPayments = 2
  Limit <- MCLimit
  Fixed = {1}
  ChangeControl = TRUE
  Notes = {2}
  MaxNotes = 3
  MaxVisits = 2
  MaxFaults = 0
  MaxVaried = 2
SYMMETRY BillSymmetry
SPECIFICATION Spec
INVARIANTS TypeOK LimitKept NoChange BookedBeforeProcessing
CHECK_DEADLOCK FALSE
