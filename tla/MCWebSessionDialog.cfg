\* The requests of MCWebSession, two access tokens.
SPECIFICATION SessionSpec
CONSTANTS
    r1 = r1
    r2 = r2
    r3 = r3
    Request <- MCRequest
    Denied <- MCDenied
    MaxTokens = 2
PROPERTIES
    ActivityKeepsLogin
CHECK_DEADLOCK FALSE
