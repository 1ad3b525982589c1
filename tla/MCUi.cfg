SPECIFICATION UiFairSpec
CONSTANTS
    Polls = {p1}
    Responses = {r1}
    Questions = {"q1", "q2"}
    Options = {"", " ", "a", "b", " b", "bb", "e'"}
    Respondents = {v1}
    Nil = Nil
    PollSpecs <- MCEdited
    ResponseSpecs = {}
    MaxAnswers = 2
    MaxSelections = 2
    EnableWebhooks = TRUE
    UserOps = {"CreatePoll", "UpdatePoll", "DeletePoll"}
    MaxOps = 3
    MaxTime = 0
    MaxLag = 1
    Trimmed <- MCTrimmed
    TextOf <- MCTextOf
    TextInputs <- MCInputs
    MaxPosts = 1
    MaxLost = 0
INVARIANTS
    UiTypeOK
    NothingLeftRunning
    VotesFit
PROPERTIES
    StartReturns
CHECK_DEADLOCK FALSE
