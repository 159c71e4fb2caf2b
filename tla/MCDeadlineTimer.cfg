CONSTANTS
    Request = {r1, r2, r3}
    Timeout = {1, 2}
    MaxTime = 4
SPECIFICATION Spec
INVARIANTS SleepsNoLonger
CHECK_DEADLOCK FALSE
