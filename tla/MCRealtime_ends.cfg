\* Two sockets, three analyses, six tokens, five sessions; one AI request a window.
CONSTANTS
    Uids = {"anonymous", "u", "v", "w", "u:1"}
    Anonymous = "anonymous"
    Sessions = {"anonymous", "u", "v", "w", "u:1"}
    Within <- Within3
    Tokens = {"tu", "tv", "ta", "tw", "tx", "t1"}
    Identity <- IdentityOf
    AdminUids = {"w"}
    None = None
    Ips = {"ip"}
    Limit <- TwoLimits
    Deltas = {"A", "B"}
    Line <- LineOf
    EndLine <- EndOf
    Newline = "nl"
    Nothing = "nothing"
    Sockets = {"k1", "k2"}
    Jobs = {1, 2, 3}
    Clients <- Http
    Wires <- Bodies
    Settings <- Environments
SPECIFICATION Spec
INVARIANTS TypeOK
PROPERTIES ShutsDown
CHECK_DEADLOCK FALSE
