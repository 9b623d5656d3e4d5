SPECIFICATION FairSpec
CONSTANTS
    NoDelivery = NoDelivery
    Undecodable = Undecodable
    Payloads = {}
    Msgs = {m1, m2}
    ForeignMsgs = {}
    MaxMessageAttempts = 3
    Debug = FALSE
    MaxReceives = 2
    Processes = {"two", "zero"}
    Workers <- MCWorkers
    Panicking = {m2}
CHECK_DEADLOCK FALSE
INVARIANTS
    WatchInv
    ReturnedIsQuiet
PROPERTIES
    CancelReturns
    KeepsPolling
    NoneIsStranded
    ImplementsPool
