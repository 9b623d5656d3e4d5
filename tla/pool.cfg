SPECIFICATION FairSpec
CONSTANTS
    NoResponse = NoResponse
    NoDelivery = NoDelivery
    Undecodable = Undecodable
    Tasks = {t1, t2}
    Payloads = {t1, t2}
    Responses = {r1}
    Malformed = {t2}
    Msgs = {m1, m2}
    ForeignMsgs = {}
    MaxMessageAttempts = 3
    Debug = FALSE
    MaxReceives = 4
    Instances = {i1}
    Slots = {s1, s2, s3}
    Faults = {}
CHECK_DEADLOCK FALSE
PROPERTIES
    AcceptedIsSettled
