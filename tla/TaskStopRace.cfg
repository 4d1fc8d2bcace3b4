\* As the code is: an edit may overlap a stop.
SPECIFICATION Spec
CONSTANTS
  Tasks = {t1, t2}
  Nodes = {n1}
  Crons = {hourly, never, Unscheduled}
  Parsable = {hourly, never}
  Schedulable = {hourly}
  Unscheduled = Unscheduled
  Requests = {r1, r2}
  Ops = {"create", "stop", "edit"}
  Exclusive = {}
  FkModes = {TRUE}
  MaxFaults = 0
  MaxNodeChanges = 0
  NoRow = NoRow
  NoJob = NoJob
  NoTask = NoTask
SYMMETRY TaskSymmetry
INVARIANTS StoppedRowStaysPaused
