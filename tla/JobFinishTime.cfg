\* Two pollers race and nothing fails.
SPECIFICATION Spec
CONSTANTS
  Jobs = {j1}
  OneTime = {}
  Pollers = {cycle, page}
  Cycle = cycle
  Events = {}
  MaxStamp = 2
  MaxFaults = 0
  NoRow = NoRow

PROPERTIES FinishTimeKept
