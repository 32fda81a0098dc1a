\* The event runs: it deletes orders whose value nobody got back.
SPECIFICATION Spec
CONSTANTS
    Users = {u1}
    Stocks = {s1}
    NoStock = NoStock
    Funds = {2}
    Costs = {2}
    MaxInt = 100
    Epoch = 100000
    Tick = 70000
    MaxTicks = 1
    MaxDeposit = 2
    MaxTx = 2
    MaxFaults = 0
    MaxInFlight = 1
    Serial = TRUE
    EventOn = TRUE
PROPERTIES
    CreditBeforeDelete
