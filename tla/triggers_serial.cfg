\* Commands and polls one at a time; the system rests when all commands were answered.
SPECIFICATION FairSpec
CONSTANTS
    Users = {u1, u2}
    Direction = "BUY"
    Funds = 5
    Amounts = {3}
    Limits = {2, 3}
    Costs = {2, 3}
    MaxInt = 100
    MaxCommands = 4
    MaxFaults = 0
    Overlap = FALSE
CHECK_DEADLOCK FALSE
INVARIANTS
    HeldIsRegistered
PROPERTIES
    ImplementsTriggerBook
    EveryCommandAnswered
    ReachedTriggersFire
