SPECIFICATION FairSpec
CONSTANTS
    t1 = t1
    t2 = t2
    t3 = t3
    Callers = {t1, t2, t3}
    Threshold = 5
    Recovery = 120
PROPERTIES Kept OpenEnds
