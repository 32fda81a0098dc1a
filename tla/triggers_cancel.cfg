\* A trigger is canceled while the timer completes it.
SPECIFICATION Spec
CONSTANTS
    Users = {u1}
    Direction = "BUY"
    Funds = 6
    Amounts = {3}
    Limits = {3}
    Costs = {2, 3}
    MaxInt = 100
    MaxCommands = 3
    MaxFaults = 0
    Overlap = TRUE
CHECK_DEADLOCK FALSE
INVARIANTS
    CanceledNotFired
