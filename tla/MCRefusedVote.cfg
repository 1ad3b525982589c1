SPECIFICATION UiSpec
CONSTANTS
    Polls = {p1}
    Responses = {r1, r2}
    Questions = {"q1", "q2"}
    Options = {"", " ", "a", "b", "c", " b", "bb", "e'"}
    Respondents = {v1}
    Nil = Nil
    PollSpecs <- MCOneChoice
    ResponseSpecs = {}
    MaxAnswers = 2
    MaxSelections = 2
    EnableWebhooks = TRUE
    UserOps = {"CreatePoll"}
    MaxOps = 1
    MaxTime = 0
    MaxLag = 1
    Trimmed <- MCTrimmed
    TextOf <- MCTextOf
    TextInputs <- MCInputs
    MaxPosts = 2
    MaxLost = 1
INVARIANTS
    RefusedIsNotStored
CHECK_DEADLOCK FALSE
