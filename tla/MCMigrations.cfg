\* Two migrators, two keys (of one account or of two) and a monitor, which the
\* old code or the new code creates.
SPECIFICATION FairSpec
CONSTANTS
    Migrators = {g1, g2}
    Keys = {k1, k2}
    Monitors = {m1}
    Targets <- ExpandOrNowhere
    None = None
INVARIANTS
    TypeOK
    AppliedIsCurrent
    RecordIsTrue
    RunningCodeWorks
    OwnershipSurvives
PROPERTIES
    NothingOnTopOfAnEdit
    MigratorsFinish
