\* Three commands of a user: two at any time, of which one without an answer, and one
\* while no other runs; one fault.
SPECIFICATION FairSpec
CONSTANTS
    Requests = {r1, r2, r3}
    Silent = {r1}
    Alone = {r3}
    Conns = {c1, c2, c3}
    MaxTries = 2
    MaxFaults = 1
CHECK_DEADLOCK FALSE
INVARIANTS
    TypeOK
    
    
    
PROPERTIES
    EveryRequestEnds
