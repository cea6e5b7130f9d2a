\* Two files, the request that creates the batch and one that retries.
SPECIFICATION FairSpec
CONSTANTS
    Item = {a, b}
    Version = {v1, v2}
    Request = {q1, q2}
    Workers = 2
    Failures = {"listing", "assessment", "storing", "crash"}
    None = None
INVARIANTS
    OwnRun
    CountedOnce
    
    SummaryCurrent
PROPERTIES
    CompletedStays
    ItemsEnd
\* All requests may have ended.
CHECK_DEADLOCK FALSE
