\* The same with the exit rules as start-up stores them.
SPECIFICATION FairSpec
CONSTANTS
    s1 = s1  w1 = w1  w2 = w2  h1 = h1
    Subscribers <- MCSubscribers
    Sequences <- MCSequences
    Steps <- MCSteps
    Workers <- MCWorkers
    Handlers <- MCHandlers
    RulesReadable = FALSE
    Batch = 2
    MaxStarts = 3
    MaxFaults = 0
    MaxSwitches = 1
    MaxDays = 0
PROPERTY DueGetsItsTurn
