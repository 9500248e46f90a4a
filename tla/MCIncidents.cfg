\* Two monitors, two overlapping checks, three incidents: a monitor can go down,
\* recover and go down again while the other has an outage of its own.
SPECIFICATION FairSpec
CONSTANTS
    Monitors = {m1, m2}
    Runs = {r1, r2}
    Incident = {i1, i2, i3}
    None = None
INVARIANTS
    TypeOK
    DownMeansOpenIncident
    TransitionFindsItsIncident
    AnnouncedByOneRun
PROPERTIES
    ImplementsOutageLog
    ChecksFinish
\* Every monitor may be deleted and every incident id used.
CHECK_DEADLOCK FALSE
