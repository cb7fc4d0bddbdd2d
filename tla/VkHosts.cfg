SPECIFICATION HostsLiveSpec
CONSTANTS
    Dialers = {d1}
    Collectors = {m}
    IPs = {"base", "fresh"}
    Baseline <- MCBaseline
    AnswerLists <- MCAnswers
    RTTs = {9}
    FailLimit = 0
    MaxTries = 2
    NoIP = NoIP
PROPERTIES UsableFirst StallsOnlyNested
CHECK_DEADLOCK FALSE
