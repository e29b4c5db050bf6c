CONSTANTS
    Sids = {k1, k2}
    Fresh = fresh
    Accounts = {a1, a2}
    Callers = {c1, c2, c3}
    Reaper = reaper
    None = None
    MaxObjs = 3
    MaxSessions = 1
    Ops = {"get", "remove", "drain", "stopall", "retire", "kill"}
    Env = {"cancel", "cut", "fail", "quiet", "reap"}
SPECIFICATION Spec
CHECK_DEADLOCK FALSE
SYMMETRY Symmetry
INVARIANTS PoolTypeOK WithinCapacity NoUntracked OneProcessPerId
