SPECIFICATION HistorySpec
CONSTANTS
    Polls = {p1}
    Responses = {r1}
    Questions = {"q1"}
    Options = {"a", "b", "c"}
    Respondents = {"v"}
    Nil = Nil
    PollSpecs <- MCOnePoll
    ResponseSpecs <- MCOneVote
    MaxAnswers = 1
    MaxSelections = 1
    EnableWebhooks = TRUE
    UserOps = {"CreatePoll", "CreateResponse", "DeletePoll"}
    MaxOps = 4
    MaxTime = 0
    MaxLag = 2
    MergesTimers = TRUE
    MaxFaults = 0
    MaxCrashes = 0
PROPERTIES
    CollectedWithItsPoll
CHECK_DEADLOCK FALSE
