SPECIFICATION Spec
CONSTANTS
    base = base
    other = other
    amend = amend
    p1 = p1
    p2 = p2
    e1 = e1
    e2 = e2
    Doc = {base, amend}
    Provision = {p1}
    Event = {e1}
    Worker = {w1, w2}
    NewId = {n1, n2}
    Date = {1, 2, 3}
    Open = 99
    None = None
    DocOf <- MCDocOf
    FirstDate <- MCFirstDate
    AmendingDoc <- OnceAmendingDoc
    EffectiveDate <- OnceEffectiveDate
    Candidates <- OnceCandidates
    Suspicious = {amend}
    Decisions = {"APPROVED"}
    EditDates = {}
    Failures = {}
SYMMETRY IdSymmetry
INVARIANTS
    GateCoversAmendments
