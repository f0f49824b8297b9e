SPECIFICATION Spec
CONSTANTS
  Messages <- TextLater
  Stored <- StoredBytes
  Deliveries = {d1}
  Sweeps = {s1}
  Pushers = {p1}
  Resend = FALSE
  MaxBytes = 5
  MaxWrites = 3
  LastMonth = 1
  Window = 1
  MaxFaults = 0
CHECK_DEADLOCK FALSE
PROPERTY StatusRecovers
