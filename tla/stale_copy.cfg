SPECIFICATION Spec
CONSTANTS
    NoResponse = NoResponse
    NoDelivery = NoDelivery
    Undecodable = Undecodable
    Tasks = {t1}
    Payloads = {t1}
    Responses = {r1}
    Malformed = {}
    Msgs = {m1}
    ForeignMsgs = {}
    MaxMessageAttempts = 3
    Debug = FALSE
    MaxReceives = 4
    Instances = {i1}
    Slots = {s1}
    Faults = {"db"}
CHECK_DEADLOCK FALSE
INVARIANTS
    DoneCopyIsDone
