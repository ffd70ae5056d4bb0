SPECIFICATION FairSpec
CONSTANTS
    Checkpoints = 2
    Queues <- MCQueues
    Offered <- MCOffered
    Nobody = Nobody
    MaxHead <- MCMaxHead
    MaxDecisions <- MCMaxDecisions
    MaxChanges <- MCMaxChanges
INVARIANTS TypeOK OraclesAgree
PROPERTIES MergedIsApprovedClosure HumanGateIsReserved DecisionsAreOfTheHead ExecutableIsMerged
