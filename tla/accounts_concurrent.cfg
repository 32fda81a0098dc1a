\* One user with two commands in flight; statements and answers fail, and the event runs.
SPECIFICATION FairSpec
CONSTANTS
    Users = {u1}
    Stocks = {s1}
    NoStock = NoStock
    Funds = {2}
    Costs = {2}
    MaxInt = 100
    Epoch = 100000
    Tick = 70000
    MaxTicks = 1
    MaxDeposit = 2
    MaxTx = 1
    MaxFaults = 1
    MaxInFlight = 2
    Serial = FALSE
    EventOn = TRUE
INVARIANTS
    TypeOK
    BalancesInRange
    SuccessMeansSettled
PROPERTIES
    ProceduresCreditFirst
    NoLateBuy
    
