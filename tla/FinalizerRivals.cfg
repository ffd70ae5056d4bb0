SPECIFICATION FairSpec
CONSTANTS
    Invocation = {f1, f2}
    PushedText <- MCReviewOnly
    MaxPushes = 1
    MaxDecisions = 2
    MaxChanges = 0
    MaxFaults = 1
INVARIANTS TypeOK EveryClosureIsDerived
PROPERTIES FinalizedIsMerged ImplementsGateAIClosure FinalizableIsMerged
