\* Users who wait for each answer; no fault and no event.
SPECIFICATION Spec
CONSTANTS
    Users = {u1, u2}
    Stocks = {s1, s2}
    NoStock = NoStock
    Funds = {3}
    Costs = {2}
    MaxInt = 5
    Epoch = 100000
    Tick = 70000
    MaxTicks = 1
    MaxDeposit = 6
    MaxTx = 2
    MaxFaults = 0
    MaxInFlight = 1
    Serial = TRUE
    EventOn = FALSE
SYMMETRY Symmetry
INVARIANTS
    ValueConserved
    SettledAtMostOnce
PROPERTIES
    ImplementsLedger
