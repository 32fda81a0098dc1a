\* A sell trigger fires before the first quote.
SPECIFICATION Spec
CONSTANTS
    Users = {u1}
    Direction = "SELL"
    Funds = 6
    Amounts = {3}
    Limits = {3}
    Costs = {2, 3}
    MaxInt = 100
    MaxCommands = 3
    MaxFaults = 0
    Overlap = FALSE
CHECK_DEADLOCK FALSE
INVARIANTS
    FiresAtQuotedPrice
