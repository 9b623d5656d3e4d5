SPECIFICATION Spec
CONSTANTS
    NoResponse = NoResponse
    NoDelivery = NoDelivery
    Undecodable = Undecodable
    Tasks = {t1}
    Payloads = {t1}
    Responses = {r1}
    Malformed = {}
    Msgs = {m1, m2}
    ForeignMsgs = {}
    MaxMessageAttempts = 1
    Debug = FALSE
    MaxReceives = 3
    Instances = {i1, i2}
    Slots = {s1}
    Faults <- AllFaults
CHECK_DEADLOCK FALSE
SYMMETRY Symmetry
INVARIANTS
    TypeOK
    SafetyInv
    MessagesHaveRows
    DeletedMeansAnswered
    AcceptedNotLost
    RequestsBounded
    DeliveredOnce
