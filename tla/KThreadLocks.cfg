SPECIFICATION FairLockSpec
CONSTANTS
  Threads = {t1, t2, t3}
  NoThread = NoThread
  Keys = {user, kernel}
  KernelKeys = {kernel}
  Priorities = {1, 2, 3}
INVARIANTS
  PriorityInheritance
  TransitiveInheritance
  WaitOrder
  KernelWaiterCount
PROPERTIES
  RestoreTerminates
