\* Three requests, one of them denied; three access tokens.
SPECIFICATION SessionSpec
CONSTANTS
    r1 = r1
    r2 = r2
    r3 = r3
    Request <- MCRequest
    Denied <- MCDenied
    MaxTokens = 3
INVARIANTS
    FlagIsOwned
    QueueIsServed
PROPERTIES
    ResendWaitsForToken
    RequestsEnd
CHECK_DEADLOCK FALSE
