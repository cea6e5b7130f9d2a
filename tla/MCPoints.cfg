SPECIFICATION ExtractionSpec
CONSTANTS
    base = base
    other = other
    first = first
    second = second
    Content = {base, other, first, second}
    Number = {"01", "02"}
    Article = {7}
    Clause = {2, 3}
    Point = {"a"}
    Piece = {1, 2}
    None = None
    Missing = Missing
    NumberIn <- MCNumberIn
    Items <- MCItems
    Sentences <- MCSentences
    MaxUploads = 3
INVARIANTS
    PointsReached
