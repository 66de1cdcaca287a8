SPECIFICATION FairSpec
CONSTANTS
  Threads = {t1, t2, t3}
  NoThread = NoThread
  Keys = {1}
  KernelKeys = {1}
  Priorities = {1,2}
  SuspendTypes = {Thread, System}
  Suspendable = {t1, t2}
  Terminable = {t1}
  TerminatingThreadPriority = 1
INVARIANTS
  MutualExclusion
  SuspendHonoured
PROPERTIES
  BlockersContinue
  LockSpec
  WaiterWoken
