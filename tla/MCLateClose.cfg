SPECIFICATION FairSpec
CONSTANTS
    Polls = {p1}
    Responses = {r1}
    Questions = {"q1"}
    Options = {"a", "b", "c"}
    Respondents = {"v"}
    Nil = Nil
    PollSpecs <- MCReopenSpecs
    ResponseSpecs <- MCOneVote
    MaxAnswers = 1
    MaxSelections = 1
    EnableWebhooks = TRUE
    UserOps = {"CreatePoll"}
    MaxOps = 1
    MaxTime = 1
    MaxLag = 1
    MergesTimers = TRUE
    MaxFaults = 0
    MaxCrashes = 0
PROPERTIES
    ClosesInTheEnd
CHECK_DEADLOCK FALSE
