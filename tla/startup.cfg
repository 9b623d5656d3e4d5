SPECIFICATION FairSpec
CONSTANTS
    Servers = {"api"}
    Requesters = {"requester", "toomany", "unset"}
    Refused <- MCRefused
    MaxCalls = 2
    MaxFaults = 2
INVARIANTS
    StartupInv
    ServesTheQueue
    PoolOutlivesHandlers
PROPERTIES
    GracefulStop
    StopEnds
    RestartServes
