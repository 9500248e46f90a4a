\* One address and one account, limits that differ, windows of two seconds of two
\* ticks each.
SPECIFICATION FairSpec
CONSTANTS
    Addresses = {x}
    Accounts = {a}
    Requests = {q1}
    IpLimit = 2
    KeyLimit = 2
    CreateLimit = 1
    WindowTicks = 4
    TicksPerSecond = 2
    None = None
INVARIANTS
    TypeOK
    AtMostTwice
    OverOnlyWhenUsedUp
    RetryAfterIsTrue
PROPERTIES
    BlockedIsTemporary
