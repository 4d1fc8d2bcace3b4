SPECIFICATION PollFairSpec
CONSTANTS
    Nodes = {n1, n2}
    Workers = 1
    Broken = {}
    NoNode = NoNode
    MaxChanges = 2
    MaxFaults = 1
PROPERTIES CycleCovers PageComplete SteadyPolled PageEnds
