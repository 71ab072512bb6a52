SPECIFICATION Spec
CONSTANTS
    Sender = {s1}
    s1 = s1
    MaxFaults = 2
    MaxCalls = 2
    RETRY_ATTEMPTS = 2
INVARIANTS TypeOK EventsAreReal OnlyFaultsRaise
PROPERTIES Resubscribed BatterySleeps
CHECK_DEADLOCK FALSE
