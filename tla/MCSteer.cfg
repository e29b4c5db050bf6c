CONSTANTS
    Prompts = {p1}
    Steers = {s1, s2}
    Child = child
    None = None
    MaxProcs = 1
    MaxRecords = 6
    Env = {"deadline", "lose", "cancel", "timeout", "foreign", "partial", "error", "limit"}
SPECIFICATION Spec
CHECK_DEADLOCK FALSE
INVARIANTS AckIsGenuine SteerIsFollowed NothingSkipped OpenSteerIsFenced FalseNeverRunsLater
