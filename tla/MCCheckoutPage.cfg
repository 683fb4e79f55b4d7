SPECIFICATION Spec
CONSTANTS
    c1 = c1
    c2 = c2
    c3 = c3
    o1 = o1
    o2 = o2
    Challenge <- MCChallenge
    Order <- MCOrder
    MaxFetches = 2
    MaxPolls = 2
    Wrong = Wrong
    None = None
SYMMETRY Symmetry
INVARIANTS
    OnePassPerChallenge
    PageInv
    FreshPicture
PROPERTIES
    GoesToLastOrder
CHECK_DEADLOCK FALSE
