SPECIFICATION Spec
CONSTANTS
    c1 = c1
    c2 = c2
    Call <- MCCall
    Used <- MCUsed
    Racing <- MCRacing
    MaxAsked = 2
    MaxFaults = 1
    MaxChanges = 1
    MaxLacking = 1
    MaxTogether = 2
    RETRY_ATTEMPTS = 2
SYMMETRY CallSymmetry
INVARIANT TypeOK
PROPERTIES Acknowledged UnnamedKept ReadYourWrites
CHECK_DEADLOCK FALSE
