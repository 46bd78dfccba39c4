\* One hook, one signal: the smallest instance in which a task outlives its objects.
CONSTANTS
    Conn = {a}
    Capacity = 0
    MaxRequests = 1
SPECIFICATION Spec
INVARIANT NoUseAfterDestroy
