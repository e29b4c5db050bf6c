CONSTANTS
    Prompts = {p1, p2}
    Interrupts = {i1}
    Drain = drain
    Stop = stop
    None = none
    InCap = 1
    OutCap = 6
    MaxDialogs = 2
    Env = {"die", "late"}
SPECIFICATION FairSpec
CHECK_DEADLOCK FALSE
INVARIANTS InputTypeOK StopWaitsForEnter
PROPERTIES FramesAreWhole EverybodyReturns DialogsAreAnswered
