SPECIFICATION Spec
CONSTANTS
    Branch = {main, work}
    Expected = work
    Path <- MCPath
    Allowed <- MCAllowed
    None = None
    Limit = 2
    MaxChanges = 3
    MaxMoves = 1
INVARIANTS TypeOK PublishableIsExpected RefusalHasACause UndisturbedVerdictIsOfOneState
