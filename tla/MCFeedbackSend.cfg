\* Drafts, sends, edits, resends and a restart; nobody discards or presses Stop.
CONSTANTS
    Bytes = {1, 2}
    MaxIds = 2
    MayDiscard = FALSE
    MaxAnswers = 0
    MaxStops = 0
    MaxRestarts = 1
SPECIFICATION Spec
INVARIANTS
    TypeOK
    OneSendInFlight
    
    RowsReplayable
    SendLockHasWorker
    SavedOrDirty
