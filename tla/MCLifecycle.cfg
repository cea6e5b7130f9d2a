SPECIFICATION Spec
CONSTANTS
    base = base
    other = other
    amend = amend
    p1 = p1
    p2 = p2
    e1 = e1
    e2 = e2
    Doc = {base, amend}
    Provision = {p1}
    Event = {e1, e2}
    Worker = {w1, w2}
    NewId = {n1, n2, n3}
    Date = {1, 2, 3}
    Open = 99
    None = None
    DocOf <- MCDocOf
    FirstDate <- MCFirstDate
    AmendingDoc <- MCAmendingDoc
    EffectiveDate <- MCEffectiveDate
    Candidates <- MCCandidates
    Suspicious = {base}
    Decisions = {"APPROVED"}
    EditDates = {}
    Failures = {"index write"}
SYMMETRY IdSymmetry
INVARIANTS
    IndexAccounted
    NothingHidden
    NoLostEdit
