SPECIFICATION Spec
CONSTANTS
  Threads = {t1, t2, t3, t4, t5}
  Lockers = {t1, t2}
  Nesters = {t3, t4}
  NoThread = NoThread
  Keys = {m, n}
  InnerMutex = m
  KernelKeys = {}
  Priorities = {1, 2}
  CvKeys = {c}
  NoKey = NoKey
  CvMutex <- InnerMutexes
  Uses <- RoleMutexes
  Signallers = {t5}
  Timeouts = {"infinite"}
  Reprioritised = {}
  Terminable = {}
  Leavers = {}
  TerminatingThreadPriority = 1
SYMMETRY Symmetry
CONSTRAINT UrgentLockers
CHECK_DEADLOCK FALSE
INVARIANT WaitersFlagged
