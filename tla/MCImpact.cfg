SPECIFICATION ImpactSpec
CONSTANTS
    p1 = p1
    p2 = p2
    n1 = n1
    n2 = n2
    n3 = n3
    x1 = x1
    x2 = x2
    dA = dA
    dB = dB
    dC = dC
    e1 = e1
    e2 = e2
    Provision = {p1, p2}
    NewId = {n1, n2, n3}
    Policy = {x1, x2}
    Document = {dA, dB, dC}
    Date = {1, 2, 3, 4}
    Open = 99
    FirstDate <- MCFirstDate
    DocOf <- MCDocOf
    Cites <- MCCites
    Named <- MCNamed
    Amount <- MCAmount
    Event = {e1, e2}
    Target <- MCTarget
    Source <- MCSource
    None = None
INVARIANTS
    NoGap
    OneInForce
    FlaggedWasReported
    ReportAgreesWithQuery
PROPERTIES
    NoRetroactiveChange
