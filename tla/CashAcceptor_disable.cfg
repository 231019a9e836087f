\* A bill acceptor and one of coins, a note or a coin; two visits, or one and a
\* fault: every bill is heard, whoever waits is answered.
CONSTANTS
  a1 = a1
  a2 = a2
  Acceptors = {a1, a2}
  Bills = {a1}
  NumPayments = 2
  Limit <- MCLimit
  Fixed = {}
  ChangeControl = FALSE
  Notes = {2}
  MaxNotes = 1
  MaxVisits = 2
  MaxFaults = 1
  MaxVaried = 2
SPECIFICATION FairSpec
INVARIANTS BillsAreHeard
PROPERTIES DisableAnswered
CHECK_DEADLOCK FALSE
