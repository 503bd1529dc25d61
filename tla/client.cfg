SPECIFICATION FairSpec
CONSTANTS
    Call = {c1, c2}
    Https = {c2}
CHECK_DEADLOCK FALSE
INVARIANTS TypeOK OneEnd ResponseEarned
PROPERTIES ImplementsAsyncCall
