\* A connection with commands and a polling loop ask for one stock; they rest when all is answered.
SPECIFICATION PollSpec
CONSTANTS
    Callers = {c1, c2}
    Poller = c2
    Costs = {1}
    Validity = 2
    Short = 1
    Backoff = 1
    MaxTime = 5
    MaxCalls = 5
    MaxFaults = 1
CHECK_DEADLOCK FALSE
INVARIANTS
    TypeOK
    OneFetch
    FreshAnswer
    EveryPollLearns
    StopsOnlyWhenLate
PROPERTIES
    ImplementsQuoteBoard
    EveryCallAnswered
