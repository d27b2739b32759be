SPECIFICATION ConfigSpec
CONSTANTS
    None = None
    Procs = {p1}
    Calls = {c1}
    MaxTokens = 2
INVARIANT LoginIsKept
CHECK_DEADLOCK FALSE
