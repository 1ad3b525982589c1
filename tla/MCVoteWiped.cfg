SPECIFICATION Spec
CONSTANTS
    Polls = {p1}
    Responses = {r1}
    Questions = {"q1"}
    Options = {"a", "b", "c"}
    Respondents = {"v"}
    Nil = Nil
    PollSpecs <- MCReopenSpecs
    ResponseSpecs <- MCOneVote
    MaxAnswers = 1
    MaxSelections = 1
    EnableWebhooks = TRUE
    UserOps = {"CreatePoll", "CreateResponse"}
    MaxOps = 2
    MaxTime = 1
    MaxLag = 1
    MergesTimers = TRUE
    MaxFaults = 0
    MaxCrashes = 0
PROPERTIES
    AcceptedBeforeClosingStays
CHECK_DEADLOCK FALSE
