SPECIFICATION Spec
CONSTANTS
    v1 = v1
    Visitor = {v1}
    Rate = 2
    Window = 2
    Horizon = 7
    Burst = 3
INVARIANTS
    TypeOK
    LimitKept
    RefusedOnlyUnpaused
