SPECIFICATION FairSpec
CONSTANTS
    e1 = e1  e2 = e2  p1 = p1  p2 = p2  p3 = p3
    None = None
    Plans = {e1}
    Procs = {p1, p2}
    N = 3
    MaxErrors = 2
    Saves = {TRUE, FALSE}
INVARIANTS
    SliceSentOnce
    ReportedIsSent
    RunningIsDriven
PROPERTY PlanEnds
CHECK_DEADLOCK FALSE
