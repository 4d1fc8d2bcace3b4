\* A pool of connections, of which only one has foreign keys on.
SPECIFICATION Spec
CONSTANTS
  Tasks = {t1, t2}
  Nodes = {n1, n2}
  Crons = {hourly, Unscheduled}
  Parsable = {hourly}
  Schedulable = {hourly}
  Unscheduled = Unscheduled
  Requests = {r1, r2}
  Ops = {"create", "stop", "delete", "edit", "restart", "bulkStop", "bulkDelete"}
  Exclusive = {"edit", "restart"}
  FkModes = {TRUE, FALSE}
  MaxFaults = 0
  MaxNodeChanges = 1
  NoRow = NoRow
  NoJob = NoJob
  NoTask = NoTask
SYMMETRY TaskSymmetry
INVARIANTS RowNodesExist
