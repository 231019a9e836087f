\* The modules of WatchService.ini but the interface, three commands, one fault.
CONSTANTS
  Order <- MCOrder
  AutoStart = {"mysql", "payment_processor"}
  StartPriority <- MCStartPriority
  ClosePriority <- MCClosePriority
  MaxStarts <- MCMaxStarts
  Exclusive = {}
  Updater = "updater"
  Ordered = {"payment_processor", "updater"}
  MaxCommands = 3
  MaxFaults = 1
SPECIFICATION FairSpec
INVARIANTS TypeOK  ClosedInOrder
PROPERTIES ComesBack QuitsWhenTold
CHECK_DEADLOCK FALSE
