CONSTANTS
    w1 = w1  w2 = w2
    a1 = a1  a2 = a2  b1 = b1
    da = da  db = db
    e1 = e1  e2 = e2
    None = None
    Writers = {w1, w2}
    Releases = {a1, b1}
    Digests = {da, db}
    Entries = {e1}
    DigestOf <- OnePerTree
    Capacity = 4
    MaxFaults = 2
    MaxDamage = 0
SPECIFICATION FairSpec
PROPERTIES InvocationEnds RetrySucceeds
