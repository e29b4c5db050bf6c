CONSTANTS
    MaxTurns = 3
    Env = {"takeover", "rotate", "slow", "kill", "crash", "fail"}
SPECIFICATION FairSpec
CHECK_DEADLOCK FALSE
INVARIANTS SlotTypeOK NewestStaysRegistered
PROPERTIES WakesItsDispatcher WakesUnlessCut
