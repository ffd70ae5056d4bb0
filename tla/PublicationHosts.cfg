SPECIFICATION FairSpec
CONSTANTS
    Host = {h1, h2}
    Name = {n1, n2, n3}
    None = None
    MaxCrashes = 2
    MaxReviews = 1
INVARIANTS TypeOK OneIdentityPerCheckout
PROPERTIES KnownPublicationIsKept PublicationCompletes
