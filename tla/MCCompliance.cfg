SPECIFICATION ReviewSpec
CONSTANTS
    p1 = p1
    p2 = p2
    p3 = p3
    n1 = n1
    c1 = c1
    c2 = c2
    Provision = {p1, p2, p3}
    NewId = {n1}
    Date = {1, 2, 3}
    Open = 99
    None = None
    FirstDate <- MCFirstDate
    Claim = {c1, c2}
    Class = {"money", "percent"}
    Facts <- MCFacts
    Relevant <- MCRelevant
    Obligation <- MCObligation
    Internal = {p3}
    ReviewDate = 2
    Faults = {"model", "database"}
    Dot = Dot
    Comma = Comma
    Space = Space
    Letter = Letter
    thousand = thousand
    dong = dong
CHECK_DEADLOCK FALSE
INVARIANTS
    EvidenceSound
    VerdictBacked
    OutdatedNotCurrent
