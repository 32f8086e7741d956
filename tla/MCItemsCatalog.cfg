\* Patches, failed downloads and one kind of mishap in each history.
CONSTANTS
    Ids = {1, 2}
    Gear = {1}
    Food = {2}
    MaxBuild = 3
    MaxSkips = 1
    MaxAbandons = 1
    MaxMishaps = 1
SPECIFICATION FairSpec
INVARIANTS
    TypeOK
    ClaimHolds
PROPERTIES
    BatchesKept
    RowsSurvive
    CatchesUp
