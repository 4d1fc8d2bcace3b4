\* No crash and no call of the run's own that fails: the table catches up.
SPECIFICATION FairSpec
CONSTANTS
  Jobs = {j1}
  OneTime = {}
  Pollers = {cycle, page}
  Cycle = cycle
  Events = {"stop", "delete", "elsewhere"}
  MaxStamp = 2
  MaxFaults = 1
  NoRow = NoRow
PROPERTIES FinishedShown ScheduledResolves
