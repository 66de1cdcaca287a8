\* Three threads, one of which may be terminated; a limit the sum of two
\* amounts may exceed, or overflow.
CONSTANTS
    Threads = {t1, t2, t3}
    Terminable = {t1}
    Values = {1, 3}
    Limits = {1, 3}
    IntMax = 3
    MaxTime = 1
    NoThread = NoThread
SPECIFICATION FairSpec
CHECK_DEADLOCK FALSE
INVARIANTS
  ValuesAccountedFor
  NoMissedRelease
PROPERTIES
  BudgetSpec
  ReserveReturns
