SPECIFICATION ExampleFairSpec
CONSTANTS
    get = get
    post = post
    put = put
    getAgain = getAgain
    Call <- MCCall
    Https <- MCCall
    MainCalls <- MCMainCalls
    Nested = getAgain
CHECK_DEADLOCK FALSE
INVARIANTS StoppedIsDone
PROPERTIES EveryCallEnds
