SPECIFICATION Spec
CONSTANTS
    c1 = c1
    c2 = c2
    d1 = d1
    None = None
    Call = {c1, c2}
    Csv = {d1}
    MaxToken = 2
    Ttl = 0
    MaxTime = 1
INVARIANTS
    SpinnerHasUpload
    ShowsOwnFile
    ParsesHaveOwnToken
PROPERTIES
    SpinnerLeaves
    UploadEnds
