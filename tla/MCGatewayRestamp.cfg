SPECIFICATION GatewaySpec
CONSTANTS
  Calls = {c1, c2}
  NoCall = NoCall
  LastSlot = 3
  Commands <- ReceiptCommands
  Histories <- EmptyLedger
  LeaseTTL = 1
  MaxTime = 0
  MaxFaults = 1
SYMMETRY CallSymmetry
CHECK_DEADLOCK FALSE
INVARIANT RestampedRetryReplays
