CONSTANTS
    Sessions = {s1, s2}
    Users = {s1}
    Ports = {i1}
    Requests = {q1}
    None = None
    MaxRestarts = 1
    MaxPrompts = 2
    MaxLosses = 2
    MaxDecisions = 2
    Env = {"die", "orphan", "lose", "busy"}
SPECIFICATION FairSpec
CHECK_DEADLOCK FALSE
INVARIANTS BridgeTypeOK NoCrossTalk ReportedAsDelivered HeardAsDecided
PROPERTIES AnswersAndDelivers
