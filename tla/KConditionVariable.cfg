SPECIFICATION Spec
CONSTANTS
  Threads = {t1, t2, t3}
  NoThread = NoThread
  Keys = {m}
  KernelKeys = {}
  Priorities = {1, 2}
  CvKeys = {c}
  NoKey = NoKey
  CvMutex <- OnlyMutex
  Uses <- AllMutexes
  Signallers = {t1, t2, t3}
  Timeouts = {"zero", "finite"}
  Reprioritised = {t1}
  Terminable = {t1}
  Leavers = {t1}
  TerminatingThreadPriority = 1
SYMMETRY Symmetry
CHECK_DEADLOCK FALSE
INVARIANTS
  GuestMutualExclusion
  WaitersPlaced
  WaitersFlagged
  NoDanglingOwner
