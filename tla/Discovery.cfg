CONSTANTS
    u1 = u1
    u2 = u2
    u3 = u3
    Worker = {w1, w2}
    Url = {u1, u2, u3}
    NoUrl = NoUrl
    Key = {u1, u2, u3}
    KeyOf <- MCKeyOf
    Unreachable = {u1}
    Limit = {2}
    Listing <- MCListing
    Requested = {u2}
SPECIFICATION FairSpec
INVARIANTS
    TypeOK
    DiscoveryInvariant
    CompletedIsClean
    ReviewHasReason
    NewestFirst
    NoUrlTwice
PROPERTIES
    EveryNoticeRuns
