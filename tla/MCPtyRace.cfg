SPECIFICATION Spec
CONSTANTS
    c1 = c1
    c2 = c2
    c3 = c3
    NoCall = NoCall
    Calls = {c1, c2, c3}
    w1 = w1
    w2 = w2
    Workers = {w1, w2}
SYMMETRY CallSymmetry
INVARIANT SlaveIsOwn
