SPECIFICATION FairSpec
CONSTANTS
    NoResponse = NoResponse
    NoDelivery = NoDelivery
    Undecodable = Undecodable
    Tasks = {t1}
    Payloads = {t1}
    Responses = {r1}
    Malformed = {}
    Msgs = {m1, m2}
    ForeignMsgs = {}
    MaxMessageAttempts = 3
    Debug = FALSE
    MaxReceives = 4
    Instances = {i1}
    Slots = {s1, s2, s3}
    Faults = {"duplicate"}
CHECK_DEADLOCK FALSE
PROPERTIES
    DoneIsFinal
