\* The logparser drops the statistics of a job.
SPECIFICATION FairSpec
CONSTANTS
  Jobs = {j1}
  OneTime = {}
  Pollers = {cycle, page}
  Cycle = cycle
  Events = {"forget"}
  MaxStamp = 2
  MaxFaults = 0
  NoRow = NoRow

PROPERTIES FinishedShown
