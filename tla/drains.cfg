SPECIFICATION RecoverySpec
CONSTANTS
    NoResponse = NoResponse
    NoDelivery = NoDelivery
    Undecodable = Undecodable
    Tasks = {t1}
    Payloads = {t1, x}
    Responses = {r1}
    Malformed = {}
    Msgs = {m1, f1}
    ForeignMsgs = {f1}
    MaxMessageAttempts = 1
    Debug = FALSE
    MaxReceives = 3
    Instances = {i1}
    Slots = {s1, s2}
    Faults <- WorkerFaults
CHECK_DEADLOCK FALSE
PROPERTIES
    RecoversAndDrains
    ImplementsPool
