SPECIFICATION Spec
CONSTANTS
    t1 = t1
    t2 = t2
    Tabs = {t1, t2}
    NoTab = NoTab
    Locks = TRUE
    MaxTokens = 3
    MaxCalls = 2
    MaxLogouts = 1
    MaxExpiries = 1
    MaxLost = 1
    MaxUsed = 2
SYMMETRY TabSymmetry
CHECK_DEADLOCK FALSE
INVARIANTS
    NoFalseAlarm
    SignedTabIsTold
