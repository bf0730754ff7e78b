SPECIFICATION Spec
CONSTANTS
    m1 = m1
    m2 = m2
    d1 = d1
    d2 = d2
    Instances = {i1}
    Devices = {d1, d2}
    Merchants = {m1, m2}
    Home <- MCHome
    Requests <- MCRequests
    MaxPresses = 2
    MaxFaults = 2
CHECK_DEADLOCK FALSE
INVARIANTS
    TransactionsAreRequested
    CredentialsAreCurrent
PROPERTIES
    RequestsAreAnswered
