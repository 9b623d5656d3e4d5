SPECIFICATION FairSpec
CONSTANTS
    NoResponse = NoResponse
    NoDelivery = NoDelivery
    Undecodable = Undecodable
    Tasks = {t1, t2}
    Payloads = {t1, t2, x}
    Responses = {r1}
    Malformed = {t2}
    Msgs = {m1, m2, f1}
    ForeignMsgs = {f1}
    MaxMessageAttempts = 2
    Debug = FALSE
    MaxReceives = 3
    Instances = {i1}
    Slots = {s1, s2, s3}
    Faults = {"remote", "send", "timeout", "apicrash", "foreign"}
CHECK_DEADLOCK FALSE
INVARIANTS
    PoolLossBounded
PROPERTIES
    AcceptedIsSettled
    QueueDrains
