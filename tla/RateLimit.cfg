\* One route, two clients; a bucket fills in less time than the eviction takes.
SPECIFICATION FairSpec
CONSTANTS
  Clients = {c1, c2}
  Routes = {r1}
  Burst = 2
  PerToken = 2
  Idle = 3
  MaxWindow = 4
  NoClient = NoClient
INVARIANTS RouteRate
PROPERTIES Implements IdleDropped
