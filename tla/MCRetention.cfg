SPECIFICATION RetentionSpec
CONSTANTS
  Messages <- SharedObject
  Stored <- Nothing
  Deliveries = {d1, d2}
  Sweeps = {s1}
  Resend = FALSE
  MaxBytes = 6
  MaxWrites = 4
  LastMonth = 2
  Window = 1
  MaxFaults = 2
CHECK_DEADLOCK FALSE
INVARIANTS TypeOK UsageCoversStore StoredIsRecoverable PurgedStaysGone
PROPERTY ExpiredIsPurged
