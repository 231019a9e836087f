\* Change of 5 from two twos and three ones, two requests, two faults.
CONSTANTS
  twos = twos
  ones = ones
  Units = {twos, ones}
  Nominal <- MCNominal
  Stock <- MCStock
  Change = 5
  MaxCalls = 2
  MaxFaults = 2
  CommandMaxIteration = 3
SPECIFICATION FairSpec
INVARIANTS TypeOK PaidIsTakenOff NotMoreThanChange CountsAreTrue
PROPERTIES RequestAnswered
CHECK_DEADLOCK FALSE
