SPECIFICATION Spec
CONSTANTS
  Threads = {t1, t2, t3}
  a = a
  b = b
  Objects = {a, b}
  Null = Null
  WaitLists <- SmallWaitLists
  ArgumentHandleCountMax = 2
  Timeouts = {"zero", "finite"}
  Terminable = {t1}
SYMMETRY Symmetry
CHECK_DEADLOCK FALSE
INVARIANTS
  WaitsConsistent
  NoWaiterOnSignaled
  CancelNotLost
PROPERTIES
  WokenBySignaled
