\* One subscriber in three sequences, two fair processes, one fault, one day that passes.
SPECIFICATION FairSpec
CONSTANTS
    s1 = s1  w1 = w1  w2 = w2  h1 = h1
    Subscribers <- MCSubscribers
    Sequences <- MCSequences
    Steps <- MCSteps
    Workers <- MCWorkers
    Handlers <- MCHandlers
    RulesReadable = TRUE
    Batch = 2
    MaxStarts = 2
    MaxFaults = 1
    MaxSwitches = 1
    MaxDays = 1
INVARIANT TypeOK NoStepSentTwice OneMailADay SuppressionStopsMail BounceHeld
PROPERTY DueGetsItsTurn
