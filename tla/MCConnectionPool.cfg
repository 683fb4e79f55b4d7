SPECIFICATION FairSpec
CONSTANTS
    Connection = {k1, k2}
    Checkout = {c1, c2}
    Single = {w1, w2}
    Row = {r1, r2}
    None = None
INVARIANTS
    PoolInv
    GridlockIsOfCheckouts
PROPERTIES
    EveryCallEnds
