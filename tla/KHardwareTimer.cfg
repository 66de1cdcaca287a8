SPECIFICATION FairSpec
CONSTANTS
  Threads = {t1, t2}
  NoThread = NoThread
  Timing = Timing
  NoEvent = NoEvent
  MaxTime = 2
  Period = 1
CHECK_DEADLOCK FALSE
INVARIANTS
  QuietAfterUnschedule
  DeadlineCovered
PROPERTIES
  TimerServiceSpec
  HostReturns
