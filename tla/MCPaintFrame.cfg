\* The frame protocol: two kinds of work, one of which ends silently when cancelled.
CONSTANTS
    gameDb = gameDb
    radioSearch = radioSearch
    Kinds = {gameDb, radioSearch}
    Silent = {radioSearch}
    MaxSpawns = 2
    MaxStops = 1
    MaxPublish = 2
    MaxConfig = 1
    MaxEdits = 1
    MaxPanics = 1
SPECIFICATION FairSpec
INVARIANTS
    TypeOK
    MarkersSound
    TokensSound
    EditsKept
PROPERTIES
    ConfigWritesSurvive
    PublishSurvivesCommit
    MarkersClear
