\* Two overlapping runs, two days ahead, two days retained (7 and 30 in the
\* code): gaps shorter and longer than the buffer, and every age of a partition.
SPECIFICATION Spec
CONSTANTS
    Workers = {w1, w2}
    Ahead = 2
    Retain = 2
    None = None
    MaxDeaths = 2
SYMMETRY RunSymmetry
INVARIANTS
    TypeOK
    SnapshotIsCurrent
    RetainedIsKept
    AheadCoversGaps
