\* A Stop while a report is going out.
CONSTANTS
    Bytes = {1}
    MaxIds = 1
    MayDiscard = FALSE
    MaxAnswers = 0
    MaxStops = 1
    MaxRestarts = 0
SPECIFICATION Spec
INVARIANT
    SendLockHasWorker
