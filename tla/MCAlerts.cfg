\* One alert, two overlapping executions of its job, two attempts, stalls, three
\* faults.
SPECIFICATION FairSpec
CONSTANTS
    Alert = {a1}
    Executors = {e1, e2}
    Sweepers = {s1, s2}
    None = None
    MaxAttempts = 2
    MaxStalls = 1
    MaxFaults = 3
INVARIANTS
    TypeOK
    CompletedMeansDelivered
    RepeatsExplained
PROPERTIES
    AlertsSettle
    ImplementsAlertLog
\* The monitor may be deleted and everything about it over.
CHECK_DEADLOCK FALSE
