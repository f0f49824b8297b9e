SPECIFICATION GatewaySpec
CONSTANTS
  Calls = {c1, c2, c3}
  NoCall = NoCall
  LastSlot = 3
  Commands <- DayCommands
  Histories <- StartOfDay
  LeaseTTL = 1
  MaxTime = 0
  MaxFaults = 1
SYMMETRY CallSymmetry
CHECK_DEADLOCK FALSE
INVARIANTS CloseIsSupported CheckpointLinksAreOneReading
