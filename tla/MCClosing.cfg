SPECIFICATION FairSpec
CONSTANTS
    Polls = {p1}
    Responses = {r1}
    Questions = {"q1"}
    Options = {"a", "b", "c"}
    Respondents = {"v"}
    Nil = Nil
    PollSpecs <- MCClosingSpecs
    ResponseSpecs <- MCOneVote
    MaxAnswers = 1
    MaxSelections = 1
    EnableWebhooks = TRUE
    UserOps = {"CreatePoll", "UpdatePoll", "CreateResponse"}
    MaxOps = 2
    MaxTime = 1
    MaxLag = 1
    MergesTimers = FALSE
    MaxFaults = 0
    MaxCrashes = 0
INVARIANTS
    DeadlineArmed
PROPERTIES
    ClosedIsFinal
    Settles
CHECK_DEADLOCK FALSE
