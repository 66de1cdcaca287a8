SPECIFICATION FairSpec
CONSTANTS
  Threads = {t1, t2, t3}
  NoThread = NoThread
  Keys = {m}
  KernelKeys = {}
  Priorities = {1, 2}
  CvKeys = {c}
  NoKey = NoKey
  CvMutex <- OnlyMutex
  Uses <- AllMutexes
  Signallers = {t1}
  Timeouts = {"finite"}
  Reprioritised = {}
  Terminable = {}
  Leavers = {}
  TerminatingThreadPriority = 1
CHECK_DEADLOCK FALSE
PROPERTIES
  LockSpec
  QueuedWaiterGranted
