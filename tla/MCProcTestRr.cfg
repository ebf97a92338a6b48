\* test_rr(1) called by a process: the fork loop, the wait loop and the
\* return of 0.
CONSTANTS
  NPROC = 3
  c1 = c1
  c2 = c2
  Cpus <- MCOneCpu
  NoCpu = NoCpu
  MaxPid = 3
  MaxTicks = 0
  Priorities = {}
  Bursts = {}
  PolicyArgs = {}
  KillArgs = {}
  InitPolicy = 4
  SleepArgs = {}
  LifetimeArgs = {}
  TimerCpu = c1
  TestRrArgs = {1}
SPECIFICATION Spec
PROPERTY TestRrWaitsForChildren
