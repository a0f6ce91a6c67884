SPECIFICATION Spec
CONSTANTS
    t1 = t1
    t2 = t2
    t3 = t3
    s1 = s1
    s2 = s2
    i1 = i1
    i2 = i2
    Tasks = {t1, t2, t3}
    Setups = {s1, s2}
    ClientIds = {i1, i2}
    SetupOf <- MCSetupOf
    IdOf <- MCIdOf
    Requests <- MCRequests
    Equity = 12
    Available = 12
    ContractValue = 1
    MaxLeverage = 100
INVARIANTS TypeOK ExposureNamesHolder NoStrandedLock ExecutedIsProtected OneOrderPerSetup VerdictIsTrue PostedOrdersAreSound
CONSTRAINT Followed
CHECK_DEADLOCK FALSE
