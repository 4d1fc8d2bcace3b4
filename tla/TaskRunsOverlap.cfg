SPECIFICATION Spec
CONSTANTS
    Runs = {r1, r2}
    Period = 1
    Timeout = 1
    Kinds = {"cron"}
    FkModes = {TRUE, FALSE}
    MaxTime = 2
    MaxFaults = 0
    MaxStamp = 1
    NoRow = NoRow
    NoId = NoId
INVARIANT AskedAlwaysHaveRows
CHECK_DEADLOCK FALSE
