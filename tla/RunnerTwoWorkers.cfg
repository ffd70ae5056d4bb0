SPECIFICATION Spec
CONSTANTS
    Wake = {w1, w2}
    None = None
INVARIANT OneWorkerAtATime
