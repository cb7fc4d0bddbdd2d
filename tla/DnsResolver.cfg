SPECIFICATION ResolverLiveSpec
CONSTANTS
    Callers = {all1, one1}
    AllCallers = {all1}
    Transports <- MCTransports
    IPs = {"a", "b"}
    CName = CName
    Responses <- MCResponses
    MaxServers = 2
    Enough = 2
    NoIP = NoIP
INVARIANTS EveryServerTried
PROPERTIES AnswersKept ResolutionEnds
CHECK_DEADLOCK FALSE
