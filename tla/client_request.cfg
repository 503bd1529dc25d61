SPECIFICATION Spec
CONSTANTS
    Call = {c1, c2}
    Https = {c2}
CHECK_DEADLOCK FALSE
INVARIANTS RequestKept
