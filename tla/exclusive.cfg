SPECIFICATION Spec
CONSTANTS
    NoResponse = NoResponse
    NoDelivery = NoDelivery
    Undecodable = Undecodable
    Tasks = {t1, t2}
    Payloads = {t1, t2}
    Responses = {r1}
    Malformed = {}
    Msgs = {m1, m2}
    ForeignMsgs = {}
    MaxMessageAttempts = 2
    Debug = FALSE
    MaxReceives = 3
    Instances = {i1, i2}
    Slots = {s1, s2}
    Faults <- ExclusiveFaults
CHECK_DEADLOCK FALSE
SYMMETRY Symmetry
INVARIANTS
    OneListenerPerTask
    DeletedMeansDone
    RejectedNeverRuns
PROPERTIES
    DoneIsFinal
    ImplementsLifecycle
