CONSTANTS
    k1 = k1
    k2 = k2
    Keys = {k1, k2}
    Commands <- MCCommands
    Whitelists <- MCWhitelists
    Stamps = {t1, t2, t3}
    SharedStamps = FALSE
    Calls = {c1, c2, c3}
    None = None
    MaxFaults = 2
SPECIFICATION Spec
INVARIANTS RowIsTrueOfGitHub AnswersAgree
PROPERTY DeliversOnce
CHECK_DEADLOCK FALSE
