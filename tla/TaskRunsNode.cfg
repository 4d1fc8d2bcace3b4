SPECIFICATION Spec
CONSTANTS
    Runs = {r1}
    Period = 1
    Timeout = 1
    Kinds = {"cron"}
    FkModes = {TRUE, FALSE}
    MaxTime = 2
    MaxFaults = 1
    MaxStamp = 1
    NoRow = NoRow
    NoId = NoId
INVARIANT FailuresAlwaysShown
CHECK_DEADLOCK FALSE
