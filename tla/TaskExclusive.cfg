\* Edit and restart have a task to themselves; everything else interleaves.
SPECIFICATION Spec
CONSTANTS
  Tasks = {t1, t2}
  Nodes = {n1}
  Crons = {hourly, never, Unscheduled}
  Parsable = {hourly, never}
  Schedulable = {hourly}
  Unscheduled = Unscheduled
  Requests = {r1, r2}
  Ops = {"create", "stop", "delete", "edit", "restart", "bulkStop", "bulkDelete"}
  Exclusive = {"edit", "restart"}
  FkModes = {TRUE}
  MaxFaults = 1
  MaxNodeChanges = 0
  NoRow = NoRow
  NoJob = NoJob
  NoTask = NoTask
SYMMETRY TaskSymmetry
INVARIANTS StopHolds DeleteHolds RunHolds BootNeverRefused SeenJobsHaveRows
