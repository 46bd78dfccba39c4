\* Two threads check two identities of one cache key, with two spellings of a token,
\* while the table changes once and any call may fail.
CONSTANTS
    Thread = {p, q}
    Identity = {i, j}
    Token = {s, t}
    Fold <- OneToken
    NoEntry = NoEntry
    Negative = Negative
    TTL = 2
    NegativeTTL = 1
    ErrorTTL = 1
    Stall = 1
    MaxClock = 3
    MaxChanges = 1
SPECIFICATION Spec
SYMMETRY Symmetry
INVARIANTS
    TypeOK
    EntryBacked
PROPERTIES
    GrantBacked
    RefusalExplained
