CONSTANTS
    a = a
    b = b
    r1 = r1
    r2 = r2
    Names = {a, b}
    MaxDepth = 3
    Exposable <- Tree
    Requests = {r1, r2}
    Wanted <- TwoWishes
    Fleeting <- Vanishing
SPECIFICATION ControlFairSpec
INVARIANTS
    CheckPathExact
    ChildrenLeadSomewhere
    OneResult
    AnswerIsDecision
PROPERTIES
    GuestNeedsApproval
    IsPathSharing
    DecidedIsAnswered
