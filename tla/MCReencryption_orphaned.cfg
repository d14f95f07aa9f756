SPECIFICATION Spec
CONSTANTS
    Reading <- MCReading
    Field = {f1, f2}
    Key = {k1, k2}
    Request = {q1, q2}
    Word = {w1, w2}
    MaxEntry = 2
    FirstKey = k1
    k1 = k1
    k2 = k2
    q1 = q1
    q2 = q2
    f1 = f1
    f2 = f2
    w1 = w1
    w2 = w2
    BatchSize = 1
    Histories <- MCHistories
    Parts = {"rotation"}
SYMMETRY MCSymmetry
INVARIANTS
    EntriesStayReadable
CHECK_DEADLOCK FALSE
