\* All writers and one history, timestamps in UTC.
CONSTANTS
    task = task
    l1 = l1
    l2 = l2
    p1 = p1
    p2 = p2
    Tasks = {task}
    Invocations = {i1}
    Finals = {p1, p2}
    Events <- MCEvents
    Migrated <- MCMigrated
    LegacyIds = {l1, l2}
    Calls = {c1, c2, c3}
    Readers = {q1}
    ReceiptIds = {r1}
    Zones = {0}
    Limit = 1
    ReadCap = 2
    ServerAuto = ServerAuto
    None = None
    MaxTime = 1
    MaxFaults = 1
CONSTRAINT OneForeignStart
SYMMETRY CallSymmetry
SPECIFICATION Spec
INVARIANTS TypeOK InvocationNamesOneRun AnswersMatchTheRow 
PROPERTY AuditOnlyGrows
CHECK_DEADLOCK FALSE
