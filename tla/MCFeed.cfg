CONSTANTS
    Consumers = {send, watch}
    Preflight = steer
    None = none
    Threads = {1, 2}
    MaxLines = 2
    Env = {"cancel"}
SPECIFICATION ReadFairSpec
CHECK_DEADLOCK FALSE
INVARIANTS ReaderTypeOK
PROPERTIES FeedsInOrder CatchesUp
