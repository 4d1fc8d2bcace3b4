SPECIFICATION FairSpec
CONSTANTS
    App = app
    Redirect = redirect
    Requests = {q1, q2}
    Runs = {j1, j2}
    MaxSignals = 2
INVARIANTS RequestsServed RunsServed CleanEnds
PROPERTY SignalEnds
CHECK_DEADLOCK FALSE
