\* One user: one account command and any trigger commands at a time, one fault.
SPECIFICATION TradingSpec
CONSTANTS
    Users = {u1}
    Stocks = {s1}
    NoStock = NoStock
    Funds = {3}
    Costs = {2}
    Amounts = {3}
    Limits = {2}
    MaxInt = 100
    Epoch = 100000
    Tick = 70000
    MaxTicks = 0
    MaxDeposit = 3
    MaxTx = 1
    MaxFaults = 1
    MaxInFlight = 1
    MaxCommands = 2
    Serial = TRUE
    EventOn = FALSE
CHECK_DEADLOCK FALSE
INVARIANTS
    
    NoValueCreated
