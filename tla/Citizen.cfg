\* A policy over three fields, one of them not approved; three days; one reset,
\* reload or failure, the failing deletions of a reset apart.
CONSTANTS
    p = p
    Policy = {p}
    RuleOf <- MCRuleOf
    Rule <- MCRule
    Field = {"age", "job", "bus"}
    Approved = {"age", "job"}
    Core = {"job"}
    Value = {0, 1}
    ValidDays <- MCValidDays
    Unanswered = Unanswered
    NoEnd = NoEnd
    NoQuestion = NoQuestion
    NotLoading = NotLoading
    MaxDay = 2
    MaxUpsets = 1
    MaxRequests = 2
SPECIFICATION FairSpec
INVARIANTS
    TypeOK
    VerdictIsFinal
    ScreenIsStored
PROPERTIES
    OthersKept
    QuestionsEnd
