SPECIFICATION Spec
CONSTANTS
    p1 = p1
    p2 = p2
    c1 = c1
    Procs = {p1, p2}
    Sends <- Sent
    Ids = {c1}
    Sizes <- Settings
    Pieces = {20}
    TemplateBodies <- Bodies
    Faults = {"database"}
    NoId = NoId
    Nobody = Nobody
    Blank = Blank
    MaxUsize = 63
    BytesPerMb = 8
    MaxTitle = 2
    MaxMetadataBytes = 3
    MaxMetadataKeys = 1
    MaxMetadataValue = 1
    Allowance = 18
    Punctuation = 2
INVARIANT TypeOK
INVARIANT EventsCarryTheirRequest
INVARIANT TextIsCarryable
INVARIANT OnlyTheDatabaseFails
INVARIANT RowsKeepTheirBounds
INVARIANT StrangersAreNotRead
