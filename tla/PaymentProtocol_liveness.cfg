\* One payment, two faults, one command, with enough session numbers.
CONSTANTS
  Payments = {p1}
  None = none
  TriesLimit = 0
  MaxSessions = 8
  MaxFaults = 2
  MaxCommands = 1
SPECIFICATION FairSpec
INVARIANTS NeverChargedTwice CompletedWasAccepted
PROPERTIES EveryPaymentSettles CommandsAreCarriedOut ImplementsLedger
