CONSTANTS
    Prompts = {p1}
    Steers = {s1}
    Child = child
    None = None
    MaxProcs = 2
    MaxRecords = 5
    Env = {"interrupt", "stop", "error", "die", "banner"}
SPECIFICATION Spec
CHECK_DEADLOCK FALSE
INVARIANTS FenceEndsWithSend
