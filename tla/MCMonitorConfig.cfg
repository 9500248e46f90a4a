\* Two requests of two accounts on two ids.  With the default timeout, the
\* shorter interval is just not long enough.
SPECIFICATION Spec
CONSTANTS
    Monitors = {m1, m2}
    Accounts = {a, b}
    Requests = {q1, q2}
    Intervals = {10, 60}
    Timeouts = {1000, 10000}
    DefaultInterval = 60
    DefaultTimeout = 10000
    None = None
SYMMETRY Symmetry
INVARIANTS
    TypeOK
    RuleHolds
PROPERTIES
    ImplementsConfigStore
