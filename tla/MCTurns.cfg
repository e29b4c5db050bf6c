CONSTANTS
    Prompts = {p1, p2}
    Steers = {}
    Child = child
    None = None
    MaxProcs = 2
    MaxRecords = 6
    Env = {"die", "child", "channel", "resend"}
SPECIFICATION Spec
CHECK_DEADLOCK FALSE
INVARIANTS TypeOK
PROPERTIES ForegroundOwnsReader CompletionOwnsTurn
