SPECIFICATION FairSpec
CONSTANTS
    Ids = {a}
    Callers = {c1, c2}
    NoId = NoId
    MaxRecentAcks = 1
    RecentCommandCount = 1
    MaxTentativas = 1
    Falhas = {"queda", "perda", "reboot"}
    MaxFalhas = 1
    FinalAcks = {"EXECUTADO"}
PROPERTIES
    CallEnds
