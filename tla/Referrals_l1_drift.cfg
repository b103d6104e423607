SPECIFICATION Spec
CONSTANTS
    Users = {u1, u2, u3}
    NoOne = NoOne
    Values = {0, 1}
    MaxValue = 2
    u1 = u1
    u2 = u2
    u3 = u3
SYMMETRY Symmetry
INVARIANTS
    L1Exact
