SPECIFICATION Spec
CONSTANTS
    x1 = x1
    x2 = x2
    y1 = y1
    y2 = y2
    Body <- MCBody
    Name <- MCName
    cmd_funcs = {"x"}
    Offline = {y2}
    MAX_CHUNK_ITEMS = 3
    RETRY_ATTEMPTS = 3
INVARIANTS Aligned
CHECK_DEADLOCK FALSE
