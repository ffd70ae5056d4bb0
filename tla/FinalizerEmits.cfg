SPECIFICATION Spec
CONSTANTS
    Invocation = {f1, f2}
    PushedText <- MCReviewOnly
    MaxPushes = 0
    MaxDecisions = 1
    MaxChanges = 0
    MaxFaults = 0
INVARIANT EmitsOneObject
