\* Two clients, one of which may be terminated, and two threads of the server.
CONSTANTS
    Clients = {c1, c2}
    Servers = {s1, s2}
    Terminable = {c1}
    MaxRequests = 2
    NoRequest = NoRequest
    NoThread = NoThread
SPECIFICATION FairSpec
CHECK_DEADLOCK FALSE
INVARIANTS
  ReferencesExact
  WaiterAttended
  AnsweredOnce
  ServerAwake
PROPERTIES
  ClientsReleased
  SessionReclaimed
