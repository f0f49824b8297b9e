SPECIFICATION StreamSpec
CONSTANTS
  j1 = j1  o1 = o1  o2 = o2  o3 = o3  k1 = k1  k2 = k2
  Jobs = {j1}
  Owners = {o1, o2, o3}
  FormalOwners = {o1, o2}
  Keys = {k1, k2}
  BadKey = BadKey
  EmptySha = EmptySha
  NoCall = NoCall
  Payloads <- MCPayloads
  Calls <- AllCalls
  Requests = {r1, r2, r3}
  TTL = 1
  MaxTime = 2
  MaxFaults = 2
  Limit = 1
  MaxLost = 1
SYMMETRY RequestSymmetry
CONSTRAINT OneCase
CHECK_DEADLOCK FALSE
INVARIANTS CompletedJobIsClosed DeferredJobIsFree LeaseHistoryAddsUp OneFormalResult AcceptedIsDurable ReplayIsFaithful NothingIsSkipped
PROPERTY LiveLeaseOnlyReleasedByHolder
