\* Two results and two reads are enough.
SPECIFICATION LSSpec
CONSTANTS
    Monitors = {m1}
    Runs = {r1}
    Loads = {l1, l2}
    MaxVersion = 2
    Nil = Nil
    Awaited = Awaited
INVARIANTS
    MissedIsRecovered
