SPECIFICATION Spec
CONSTANTS
    Invocation = {f1}
    PushedText <- MCPushedText
    MaxPushes = 1
    MaxDecisions = 3
    MaxChanges = 1
    MaxFaults = 0
INVARIANT MergedIsApprovedClosure
PROPERTY RequestsAreAuthorised
