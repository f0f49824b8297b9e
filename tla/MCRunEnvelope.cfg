SPECIFICATION Spec
CONSTANTS
  Calls = {c1, c2}
  NoCall = NoCall
  LastSlot = 3
  Commands <- Findings
  Histories <- EmptyLedger
  Envelopes <- TaskEnvelopes
  ReadOnlyTasks = {"policy"}
  HourLength = 1
  LeaseTTL = 1
  MaxTime = 2
  MaxFaults = 2
SYMMETRY CallSymmetry
CHECK_DEADLOCK FALSE
INVARIANTS TypeOK CompletedRunIsInLedger FreshIsCountedOnce
PROPERTIES OutcomeIsFinal
