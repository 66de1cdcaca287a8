SPECIFICATION Spec
CONSTANTS
  Threads = {t1, t2, t3}
  NoThread = NoThread
  Keys = {1}
  KernelKeys = {1}
  Priorities = {1}
  SuspendTypes = {Thread}
  Suspendable = {}
  Terminable = {t1, t2, t3}
  TerminatingThreadPriority = 1
SYMMETRY Symmetry
INVARIANT OwnsHeldLocks
