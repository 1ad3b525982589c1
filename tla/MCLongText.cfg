SPECIFICATION Spec
CONSTANTS
    Polls = {p1}
    Responses = {r1}
    Questions = {"q1", "q2"}
    Options = {"a", "b", "c"}
    Respondents = {"v"}
    Nil = Nil
    PollSpecs <- MCSurvey
    ResponseSpecs <- MCAccent
    MaxAnswers = 2
    MaxSelections = 2
    EnableWebhooks = TRUE
    UserOps = {"CreatePoll", "CreateResponse"}
    MaxOps = 2
    MaxTime = 0
    MaxLag = 1
    MergesTimers = TRUE
    MaxFaults = 0
    MaxCrashes = 0
INVARIANTS
    LimitIsInCharacters
CHECK_DEADLOCK FALSE
