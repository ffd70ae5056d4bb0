SPECIFICATION FairSpec
CONSTANTS
    Wake = {w1, w2}
    None = None
INVARIANTS TypeOK LockMatchesPhase WorkerIsCleared SuccessIsHonest EvidenceFollowsJournal
PROPERTIES WakeEnds ImplementsSerialWakes
