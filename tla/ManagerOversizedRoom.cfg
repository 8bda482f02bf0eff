\* A room for one player more than there are tank ids.
CONSTANTS
    Users = {1, 2, 3}
    Caps = {3}
    MaxTankId = 2
    MaxHits = 0
    MaxRoomNum = 1
    MaxScore = 1
    MaxTimers = 1
    MaxBacklog = 0
SPECIFICATION Spec
INVARIANTS
    TankIdsReturned
