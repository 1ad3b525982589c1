SPECIFICATION Spec
CONSTANTS
    Polls = {p1}
    Responses = {r1}
    Questions = {"q1"}
    Options = {"a", "b", "c"}
    Respondents = {"v"}
    Nil = Nil
    PollSpecs <- MCClosesAtOne
    ResponseSpecs <- MCOneVote
    MaxAnswers = 1
    MaxSelections = 1
    EnableWebhooks = TRUE
    UserOps = {"CreatePoll", "CreateResponse", "ForegroundDeleteResponse"}
    MaxOps = 3
    MaxTime = 1
    MaxLag = 1
    MergesTimers = TRUE
    MaxFaults = 1
    MaxCrashes = 1
INVARIANTS
    DeadlineArmed
PROPERTIES
    ImplementsTallyService
    ImplementsVerdictService
CHECK_DEADLOCK FALSE
