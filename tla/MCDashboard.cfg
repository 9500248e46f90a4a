\* Two accounts, three requests in flight, two sockets.
SPECIFICATION Spec
CONSTANTS
    a = a
    b = b
    Keys = {a, b}
    MonitorsOf <- Owned
    Calls = {c1, c2, c3}
    Sockets = {s1, s2}
    None = None
SYMMETRY Symmetry
INVARIANTS
    TypeOK
    ChartIsOfSelected
    SessionsAreSeparate
