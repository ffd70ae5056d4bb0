SPECIFICATION FairSpec
CONSTANTS
    Reader = {h1, h2}
    None = None
    MaxCommits = 3
    MaxRewinds = 1
    MaxFailures = 1
PROPERTIES EvaluatedIsFresh MainIsEvaluatedAgain
