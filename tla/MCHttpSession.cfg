SPECIFICATION Spec
CONSTANTS
    Sender = {a, b}
    Leaver = {l}
    Ports <- MCPorts
    MaxLogins = 6
    MaxMishaps = 1
    RETRY_ATTEMPTS = 3
INVARIANTS TypeOK TokenKnown SessionsAccounted FirstTry
PROPERTY EveryCallEnds
CHECK_DEADLOCK FALSE
