\* Two connecting threads and one accepting thread; room for fewer sessions
\* than the resource limit allows.
CONSTANTS
    Clients = {c1, c2}
    Servers = {s1}
    MaxSessions = 2
    SessionLimit = 3
    SlabSize = 3
    NoThread = NoThread
SPECIFICATION FairSpec
CHECK_DEADLOCK FALSE
INVARIANTS
  CountersExact
  ReservationsExact
  NoStrandedSession
  SleepersHaveReason
  PortOutlivesUse
PROPERTIES
  PortReclaimed
