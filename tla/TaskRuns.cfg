SPECIFICATION FairSpec
CONSTANTS
    Runs = {r1, r2}
    Period = 1
    Timeout = 1
    Kinds = {"cron", "once"}
    FkModes = {TRUE, FALSE}
    MaxTime = 2
    MaxFaults = 1
    MaxStamp = 1
    NoRow = NoRow
    NoId = NoId
INVARIANTS RunKeepsItsId AskedHaveRows FailuresShown
PROPERTY RunsEnd
CHECK_DEADLOCK FALSE
