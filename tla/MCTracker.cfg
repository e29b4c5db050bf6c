CONSTANTS
    Send = send
    Watch = watch
    Agents = {a1}
    MaxRecords = 4
    HostEnv = {"close", "raise", "cancel", "reconcile"}
SPECIFICATION TrackFairSpec
CHECK_DEADLOCK FALSE
INVARIANTS TrackerTypeOK RunningIsProtected
PROPERTIES EndedIsReleased
