\* A commit and a cancel of one user overlap: both settle the same order.
SPECIFICATION Spec
CONSTANTS
    Users = {u1}
    Stocks = {s1}
    NoStock = NoStock
    Funds = {2}
    Costs = {2}
    MaxInt = 100
    Epoch = 100000
    Tick = 70000
    MaxTicks = 1
    MaxDeposit = 2
    MaxTx = 2
    MaxFaults = 0
    MaxInFlight = 2
    Serial = FALSE
    EventOn = FALSE
INVARIANTS
    SettledAtMostOnce
