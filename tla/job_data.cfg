\* A text of three words in two splits of one or two documents.
CONSTANTS
    p1 = p1
    p2 = p2
    p3 = p3
    u = u
    v = v
    d1 = d1
    d2 = d2
    w1 = w1
    One = One
    Missing = Missing
    Place = {p1, p2, p3}
    Word = {u, v}
    Doc = {d1, d2}
    NMap = 2
    NReduce = 2
    MaxHash = 2
    Worker = {w1}
SYMMETRY Symmetry
SPECIFICATION DataSpec
INVARIANTS SameAsSequential KeyInOneOutput
