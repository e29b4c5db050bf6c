CONSTANTS
    Prompts = {p1}
    Steers = {s1}
    Child = child
    None = None
    MaxProcs = 1
    MaxRecords = 6
    Env = {"deadline", "partial", "error", "stop"}
SPECIFICATION FairSpec
CHECK_DEADLOCK FALSE
PROPERTIES SteerReturns SendEnds
