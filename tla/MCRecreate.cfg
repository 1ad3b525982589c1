SPECIFICATION Spec
CONSTANTS
    Polls = {p1, p2}
    Responses = {r1}
    Questions = {"q1"}
    Options = {"a", "b", "c"}
    Respondents = {"v"}
    Nil = Nil
    PollSpecs <- MCOnePoll
    ResponseSpecs <- MCOneVote
    MaxAnswers = 1
    MaxSelections = 1
    EnableWebhooks = TRUE
    UserOps = {"CreatePoll", "CreateResponse", "DeletePoll", "DeleteResponse"}
    MaxOps = 4
    MaxTime = 0
    MaxLag = 1
    MergesTimers = TRUE
    MaxFaults = 0
    MaxCrashes = 0
PROPERTIES
    ImplementsTallyService
    ImplementsVerdictService
SYMMETRY Symmetry
CHECK_DEADLOCK FALSE
