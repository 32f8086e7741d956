\* Send unlocks and deliveries are saved, under the fairness of frames and requests.
CONSTANTS
    Bytes = {1}
    MaxIds = 1
    MayDiscard = TRUE
    MaxAnswers = 1
    MaxStops = 1
    MaxRestarts = 1
SPECIFICATION FairSpec
PROPERTIES
    SendUnlocks
    DeliveriesReachDisk
