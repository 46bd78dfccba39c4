\* Two connections of up to two requests, over a queue of one.
CONSTANTS
    Conn = {a, b}
    Capacity = 1
    MaxRequests = 2
SPECIFICATION FairSpec
INVARIANTS
    TypeOK
    AnswersOwnRequest
    ThreadsHaveObjects
PROPERTIES
    HookAnswered
    
