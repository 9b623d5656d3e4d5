SPECIFICATION Spec
CONSTANTS
    IllTyped = IllTyped
    NoAnswer = NoAnswer
    ListedMethods = {"GET", "POST"}
    OtherMethods = {"TRACE"}
    GoodURLs = {"http://a", "http://b"}
    BadURLs = {":"}
    HeaderMaps <- MCHeaderMaps
    BodyMaps <- MCBodyMaps
    Marshal <- MCMarshal
    Canonical <- MCCanonical
    ThirdPartyAnswers <- MCAnswers
    MaxMembers = 4
CHECK_DEADLOCK FALSE
INVARIANTS
    SchemaDecides
    RequestIsPosted
    StatusIsResponse
