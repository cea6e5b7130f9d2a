SPECIFICATION FairSpec
CONSTANTS
    c1 = c1
    c2 = c2
    q1 = q1
    q2 = q2
    f1 = f1
    Conv = {c1, c2}
    Question = {q1, q2}
    File = {f1}
    None = None
    MaxOps = 3
INVARIANTS
    GoesWhereAsked
    SettledView
PROPERTIES
    BusyEnds
