SPECIFICATION Spec
CONSTANTS
    home = home
    list = list
    a = a
    b = b
    file = file
    Url = {a, b, list}
    Listing = {home, list}
    Pdf = {file}
    PdfOf <- MCPdfOf
    Listings <- MCListings
    LinksOf <- MCLinksOf
    Wanted = {a, b, list}
    Amending = {a}
    Files = {b}
    Disallowed = {b}
    MaxRequests = 3
    MaxRetries = 2
    Limit = 2
    ScanCap = 2
    MaxCrashes = 2
    None = None
INVARIANTS
    Polite
    CheckpointSound
    TextKept
PROPERTIES
    ImplementsLedger
