SPECIFICATION Spec
CONSTANTS
    Runs = {r1}
    Period = 3
    Timeout = 1
    Kinds = {"cron"}
    FkModes = {TRUE, FALSE}
    MaxTime = 2
    MaxFaults = 0
    MaxStamp = 1
    NoRow = NoRow
    NoId = NoId
INVARIANT FirstRunRecorded
CHECK_DEADLOCK FALSE
