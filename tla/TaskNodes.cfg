\* The nodes table changes under the handlers, on connections with foreign keys
\* on and on others without.
SPECIFICATION Spec
CONSTANTS
  Tasks = {t1}
  Nodes = {n1, n2}
  Crons = {hourly, daily, never, Unscheduled}
  Parsable = {hourly, daily, never}
  Schedulable = {hourly, daily}
  Unscheduled = Unscheduled
  Requests = {r1, r2}
  Ops = {"create", "stop", "delete", "edit", "restart", "bulkStop", "bulkDelete"}
  Exclusive = {"edit", "restart"}
  FkModes = {TRUE, FALSE}
  MaxFaults = 1
  MaxNodeChanges = 2
  NoRow = NoRow
  NoJob = NoJob
  NoTask = NoTask
INVARIANTS StopHolds RunKeepsSchedule
