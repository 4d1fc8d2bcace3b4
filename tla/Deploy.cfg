SPECIFICATION FairSpec
CONSTANTS
    Clients = {c1, c2}
    Nodes = {n1, n2}
    Streams = {s1, s2}
    Versions = {v1, v2}
    Workers = 2
    NoStream = NoStream
    NoVersion = NoVersion
INVARIANTS NodesAgree CompleteMeansAll ShownIsDeployed
PROPERTIES Implements StreamsEnd
CHECK_DEADLOCK FALSE
