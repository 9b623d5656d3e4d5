SPECIFICATION HttpSpec
CONSTANTS
    NoResponse = NoResponse
    NoDelivery = NoDelivery
    Undecodable = Undecodable
    NoTask = NoTask
    OtherId = OtherId
    Tasks = {t1}
    Payloads = {t1}
    Responses = {r1}
    Malformed = {}
    Msgs = {m1}
    ForeignMsgs = {}
    MaxMessageAttempts = 1
    Debug = FALSE
    MaxReceives = 2
    Instances = {i1}
    Slots = {s1}
    Clients = {c1}
    Faults = {"answer"}
CHECK_DEADLOCK FALSE
INVARIANTS
    LoggedIsSent
