CONSTANTS
  NPROC = 3
  c1 = c1
  c2 = c2
  Cpus <- MCOneCpu
  NoCpu = NoCpu
  MaxPid = 4
  MaxTicks = 0
  Priorities = {}
  Bursts = {}
  PolicyArgs = {}
  KillArgs = {}
  InitPolicy = 0
  SleepArgs = {}
  LifetimeArgs = {}
  TimerCpu = c1
  TestRrArgs = {}
SPECIFICATION Spec
PROPERTY FcfsArrivalOrder
