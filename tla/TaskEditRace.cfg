\* As the code is: an edit may overlap a restart.
SPECIFICATION Spec
CONSTANTS
  Tasks = {t1, t2}
  Nodes = {n1}
  Crons = {hourly, daily, Unscheduled}
  Parsable = {hourly, daily}
  Schedulable = {hourly, daily}
  Unscheduled = Unscheduled
  Requests = {r1, r2}
  Ops = {"create", "edit", "restart"}
  Exclusive = {}
  FkModes = {TRUE}
  MaxFaults = 0
  MaxNodeChanges = 0
  NoRow = NoRow
  NoJob = NoJob
  NoTask = NoTask
SYMMETRY TaskSymmetry
INVARIANTS SchedulerRunsTheRow
