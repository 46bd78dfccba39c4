CONSTANTS
    Thread = {c1, c2}
    MinSize = 1
    MaxSize = 3
    MaxCalls = 3
SPECIFICATION Spec
PROPERTY DestroyAssertion
