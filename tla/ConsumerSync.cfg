INIT MCInit
NEXT Next
CONSTANTS
    Invocation = {i1, i2}
    r1 = r1
    r2 = r2
    old = old
    new = new
    Revision = {r1, r2}
    Block = {old, new}
    BlockOf <- MCBlockOf
    Ragged <- MCRagged
    File = {f1}
    None = None
    Empty = Empty
    MaxEdits = 2
SYMMETRY Rivals
INVARIANTS TypeOK CandidateIsSynchronised ExitIsHonest
PROPERTY ImplementsAtomicSync
\* Every invocation ends.
CHECK_DEADLOCK FALSE
