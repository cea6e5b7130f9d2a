SPECIFICATION QuerySpec
CONSTANTS
    base = base
    other = other
    amend = amend
    p1 = p1
    p2 = p2
    e1 = e1
    e2 = e2
    q1 = q1
    q2 = q2
    Doc = {base, amend}
    Provision = {p1, p2}
    Event = {e1}
    Worker = {w1}
    NewId = {n1, n2}
    Date = {1, 2}
    Open = 99
    None = None
    DocOf <- PairDocOf
    FirstDate <- PairFirstDate
    AmendingDoc <- OnceAmendingDoc
    EffectiveDate <- OnceEffectiveDate
    Candidates <- OnceCandidates
    Suspicious = {}
    Decisions = {"APPROVED"}
    EditDates = {1}
    Failures = {"index write"}
    Question = {q1, q2}
    DateOf <- MCDateOf
    Matches <- MCMatches
    Refused = {q2}
    References <- MCReferences
    TopK = 3
    Invented = Invented
CHECK_DEADLOCK FALSE
INVARIANTS
    Grounded
    RestsOnLaw
    EvidenceOrExcluded
    NothingMissed
