SPECIFICATION Spec
CONSTANTS
    Users = {u1, u2, u3, u4}
    NoOne = NoOne
    Values = {0, 1}
    MaxValue = 2
    u1 = u1
    u2 = u2
    u3 = u3
    u4 = u4
SYMMETRY Symmetry
INVARIANTS
    Acyclic
    LoopDecided
    L2Exact
    L1NeverAhead
    CreditNeverBlocked
