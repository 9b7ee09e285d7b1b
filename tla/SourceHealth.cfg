SPECIFICATION Spec
CONSTANTS
    r1 = r1
    r2 = r2
    s1 = s1
    s2 = s2
    Runs = {r1, r2}
    Scanners = {s1, s2}
    Budget = 3
    PlanSize = 2
    MaxAttempts = 2
    MaxReal = 6
    MaxProbes = 3
    MaxScans = 3
SYMMETRY Interchangeable
CHECK_DEADLOCK FALSE
INVARIANTS CounterFits SoundWithinBudget 
 
