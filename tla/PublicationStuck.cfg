SPECIFICATION FairSpec
CONSTANTS
    Host = {h1}
    Name = {n1, n2}
    None = None
    MaxCrashes = 1
    MaxReviews = 0
PROPERTY FinishedWorkIsPublished
