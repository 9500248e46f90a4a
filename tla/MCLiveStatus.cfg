\* One monitor, three results, three runs and three overlapping reads.
SPECIFICATION LSSpec
CONSTANTS
    Monitors = {m1}
    Runs = {r1, r2, r3}
    Loads = {l1, l2, l3}
    MaxVersion = 3
    Nil = Nil
    Awaited = Awaited
SYMMETRY Symmetry
INVARIANTS
    LSTypeOK
    JoinedWhatItShows
    StaleIsExplained
