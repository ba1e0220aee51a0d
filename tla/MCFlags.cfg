SPECIFICATION FlagsSpec
CONSTANTS
    Servers = {s1}
    Requests = {q1, q2}
    Loads = {l1}
    MaxChanges = 2
    MaxFaults = 1
    Admins = {q1, q2}
    MaxCalls = 3
CHECK_DEADLOCK FALSE
SYMMETRY RequestsAlike
INVARIANTS
    SettledIsVisible
    ConnectedIsCurrent
    FlagPagesAgree

    
