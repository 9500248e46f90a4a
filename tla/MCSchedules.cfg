\* One monitor: two requests race each other and two passes, a job overlaps.
SPECIFICATION FairSpec
CONSTANTS
    Monitors = {m1}
    Intervals = {30, 60}
    Handlers = {h1, h2}
    Reconcilers = {c1, c2}
    Slots = {s1}
    None = None
    MaxFailures = 1
INVARIANTS
    TypeOK
    PostedStaysScheduled
    InSyncUnlessRaced
PROPERTIES
    DeletedStopsFiring
