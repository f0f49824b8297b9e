SPECIFICATION GatewaySpec
CONSTANTS
  Calls = {c1, c2, c3}
  NoCall = NoCall
  LastSlot = 3
  Commands <- ReceiptCommands
  Histories <- EmptyLedger
  LeaseTTL = 1
  MaxTime = 2
  MaxFaults = 1
SYMMETRY CallSymmetry
CHECK_DEADLOCK FALSE
INVARIANTS ReceiptNamesItsComment AnswerNamesItsComment SecondCommentNeedsTakeover ConflictHasCause
PROPERTIES SettledReceiptIsFinal LeaseEndsByHolderOrTime
