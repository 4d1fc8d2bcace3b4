\* Two pollers race, everything may fail once.
SPECIFICATION Spec
CONSTANTS
  Jobs = {j1}
  OneTime = {j1}
  Pollers = {cycle, page}
  Cycle = cycle
  Events = {"crash", "stop", "delete", "elsewhere", "forget", "drop", "rename"}
  MaxStamp = 2
  MaxFaults = 1
  NoRow = NoRow
INVARIANTS NeverAhead OwnJobsAttributed
PROPERTIES UpdateTimeMonotone DeletedJobsFrozen UsersKept
