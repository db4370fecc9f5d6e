\* One incident, a chat and a ticket system, one fault, one night.
SPECIFICATION FairSpec
CONSTANTS
    i1 = i1  slack = slack  pagerduty = pagerduty  jira = jira  w1 = w1  w2 = w2
    Incidents <- MCIncidents
    Chats <- MCChats
    Pagers <- NoPagers
    Tickets <- MCTickets
    Workers <- MCWorkers
    Settings <- MCSettings
    MaxAttempts = 2
    MaxFaults = 1
    MaxNights = 1
INVARIANT EveryDuplicateExplained NothingQueuedIsLost DigestedWasTold
PROPERTY QueuedIsSettled WithheldIsTold
