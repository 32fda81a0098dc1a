\* One user's three connections, timers, one fault: they rest when all is answered.
SPECIFICATION Spec
CONSTANTS
    Users = {u1}
    Direction = "SELL"
    Funds = 6
    Amounts = {3}
    Limits = {3}
    Costs = {3}
    MaxInt = 100
    MaxCommands = 4
    MaxFaults = 1
    Overlap = TRUE
CHECK_DEADLOCK FALSE
INVARIANTS
    TypeOK
    HeldAtMostOnce
    CompletedByTwo
    SuccessMeansHeld
    CurrentTimerRuns
