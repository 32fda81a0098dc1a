\* Three records, one of them DUMPLOG; one break or refused attempt.
SPECIFICATION FairSpec
CONSTANTS
    Records = {r1, r2, d}
    Dumplogs = {d}
    Segment = 1
    Buffer = 2
    Conns = {c1, c2, c3}
    MaxFaults = 1
CHECK_DEADLOCK FALSE
INVARIANTS
    TypeOK
    
    DumpHoldsEarlier

    
