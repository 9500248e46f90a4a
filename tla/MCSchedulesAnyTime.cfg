\* One request at a time, nothing ever fails: only a pass can interfere.
SPECIFICATION Spec
CONSTANTS
    Monitors = {m1}
    Intervals = {60}
    Handlers = {h1}
    Reconcilers = {c1}
    Slots = {s1}
    None = None
    MaxFailures = 0
INVARIANTS
    ActiveIsScheduled
