SPECIFICATION Spec
CONSTANTS
    Polls = {p1}
    Responses = {r1, r2}
    Questions = {"q1"}
    Options = {"a", "b", "c"}
    Respondents = {"v"}
    Nil = Nil
    PollSpecs <- MCPollSpecs
    ResponseSpecs <- MCResponseSpecs
    MaxAnswers = 1
    MaxSelections = 1
    EnableWebhooks = TRUE
    UserOps = {"CreatePoll", "UpdatePoll", "CreateResponse"}
    MaxOps = 3
    MaxTime = 0
    MaxLag = 2
    MergesTimers = TRUE
    MaxFaults = 0
    MaxCrashes = 0
INVARIANTS
    TypeOK
    QuietTally
    QuietVerdict
SYMMETRY Symmetry
CHECK_DEADLOCK FALSE
