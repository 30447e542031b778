SPECIFICATION Spec
CONSTANTS
    s1 = s1
    s2 = s2
    s3 = s3
    s4 = s4
    Ids <- FourIds
    None = none
    Refused = refused
    Files <- SomeFiles
    MaxFiles = 3
    MaxKeys = 12
INVARIANTS
    CatalogTypeOK
    WholeTreeOrNothing
    SameCommandForEveryMember
    OnlyReadErrorsSpread
SYMMETRY Symmetry
CHECK_DEADLOCK FALSE
