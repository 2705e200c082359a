CONSTANTS
    u1 = u1
    u2 = u2
    u3 = u3
    Worker = {w1, w2}
    Url = {u1, u2, u3}
    NoUrl = NoUrl
    Key = {u1, u2, u3}
    KeyOf <- MCKeyOf
    Unreachable = {}
    Limit = {1}
    Listing <- MCListing
    Requested = {}
SPECIFICATION Spec
INVARIANTS
    StoredNotRunAgain
