SPECIFICATION FairSpec
CONSTANTS
    base = base
    other = other
    amend = amend
    p1 = p1
    p2 = p2
    e1 = e1
    e2 = e2
    Doc = {base, amend}
    Provision = {p1, p2}
    Event = {e1}
    Worker = {w1, w2}
    NewId = {n1}
    Date = {1, 2, 3}
    Open = 99
    None = None
    DocOf <- PairDocOf
    FirstDate <- PairFirstDate
    AmendingDoc <- OnceAmendingDoc
    EffectiveDate <- OnceEffectiveDate
    Candidates <- OnceCandidates
    Suspicious = {}
    Decisions = {"APPROVED"}
    EditDates = {}
    Failures = {"transaction", "index write"}
INVARIANTS
    GateHolds
    IndexedOrFlagged
PROPERTIES
    ImplementsTimeline
    RequestsEnd
