SPECIFICATION Spec
CONSTANTS
    Session = {s1, s2}
    Start = 1600000000
    Period = 300
    End = 1600001200
INVARIANTS
    LivesItsLifecycle
CHECK_DEADLOCK FALSE
