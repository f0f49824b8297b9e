SPECIFICATION RetentionSpec
CONSTANTS
  Messages <- NewVersion
  Stored <- Nothing
  Deliveries = {d1}
  Sweeps = {s1}
  Resend = FALSE
  MaxBytes = 6
  MaxWrites = 4
  LastMonth = 3
  Window = 1
  MaxFaults = 0
CHECK_DEADLOCK FALSE
INVARIANT MarkedIsInvisible
