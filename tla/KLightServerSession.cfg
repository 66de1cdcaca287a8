\* Two clients, so that one request can be queued behind another.
CONSTANTS
    Clients = {c1, c2}
    Servers = {s1}
    Terminable = {}
    NoThread = NoThread
SPECIFICATION FairSpec
CHECK_DEADLOCK FALSE
PROPERTY CleanupRepliesToAll
