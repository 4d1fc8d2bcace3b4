SPECIFICATION Spec
CONSTANTS
    PageSize = 2
    MaxRows = 4
    MaxFinish = 2
    MaxChanges = 2
    MaxFaults = 1
INVARIANTS WalkShowsAll LinksLeadSomewhere
CHECK_DEADLOCK FALSE
