SPECIFICATION Spec
CONSTANTS
    q1 = q1
    q2 = q2
    w1 = w1
    w2 = w2
    basic = basic
    pro = pro
    Plans = {basic}
    Requests = {q1}
    Reducers = {w1}
    MaxRows = 2
    MaxSessions = 2
    MaxIncidents = 1
SYMMETRY Alike
CHECK_DEADLOCK FALSE
INVARIANTS
    EntitledIsPaid
    
PROPERTIES
    PaidStaysPaid
