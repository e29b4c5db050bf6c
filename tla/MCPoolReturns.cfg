CONSTANTS
    Sids = {k1, k2}
    Fresh = fresh
    Accounts = {a1}
    Callers = {c1, c2}
    Reaper = reaper
    None = None
    MaxObjs = 2
    MaxSessions = 1
    Ops = {"get", "drain", "stopall"}
    Env = {"reap", "fail", "fresh", "crash", "work"}
SPECIFICATION FairSpec
CHECK_DEADLOCK FALSE
PROPERTY CallsReturn
