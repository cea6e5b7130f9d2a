SPECIFICATION Spec
CONSTANTS
    hello = hello
    file = file
    c1 = c1
    c2 = c2
    OwnerOf <- MCOwnerOf
    ModeOf <- MCModeOf
    u1 = u1
    u2 = u2
    User = {u1, u2}
    Conv = {c1, c2}
    Request = {r1, r2, r3}
    Text = {hello, file}
    Hints <- MCHints
    Source = {s1}
    None = None
CHECK_DEADLOCK FALSE
INVARIANTS
    Isolated
    QuestionsAccounted
    DeletedRefuses
    PointersSound
