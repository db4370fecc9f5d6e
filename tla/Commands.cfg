\* Two approved incidents, each with any of the tools, about the same things.
SPECIFICATION FairSpec
CONSTANTS
    r1 = r1  r2 = r2
    Runs = {r1, r2}
    Plans <- MCPlans
CONSTRAINT Bounds
INVARIANT TypeOK RestoredExplained GoneExplained OkMeansDone BeforeStateExplained
PROPERTY RunsEnd
CHECK_DEADLOCK FALSE
