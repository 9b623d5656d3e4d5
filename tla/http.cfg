SPECIFICATION HttpSpec
CONSTANTS
    NoResponse = NoResponse
    NoDelivery = NoDelivery
    Undecodable = Undecodable
    NoTask = NoTask
    OtherId = OtherId
    Tasks = {t1}
    Payloads = {t1}
    Responses = {r1}
    Malformed = {}
    Msgs = {m1}
    ForeignMsgs = {}
    MaxMessageAttempts = 2
    Debug = FALSE
    MaxReceives = 2
    Instances = {i1}
    Slots = {s1}
    Clients = {c1, c2}
    Faults <- ClientFaults
CHECK_DEADLOCK FALSE
SYMMETRY Symmetry
INVARIANTS
    HttpTypeOK
    KnownIsFound
    AnswersAreWhole
PROPERTIES
    DoneStaysDone
