\* Four runs through two slots, at a budget of three cents, in two billing cycles.
SPECIFICATION BudgetSpec
CONSTANTS
    r1 = r1  r2 = r2  r3 = r3  r4 = r4  o1 = o1  o2 = o2
    Runs <- MCRuns
    RecordsTwice <- MCRecordsTwice
    Operators <- MCOperators
    Costs <- MCCosts
    Slots = 2
    Estimate = 9000
    Budget = 3
    MaxCharge = 2
    MaxRenewals = 1
SYMMETRY Symmetry
CHECK_DEADLOCK FALSE
INVARIANT OvershootBounded MeterDriftBounded
