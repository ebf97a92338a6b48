CONSTANTS
  NPROC = 4
  c1 = c1
  c2 = c2
  Cpus <- MCCpus
  NoCpu = NoCpu
  MaxPid = 5
  MaxTicks = 0
  Priorities = {}
  Bursts = {}
  PolicyArgs = {}
  KillArgs = {0, 1, 2, 3, 4, 5}
  InitPolicy = 4
  SleepArgs = {}
  LifetimeArgs = {}
  TimerCpu = c1
  TestRrArgs = {}
SPECIFICATION Spec
INVARIANT NoLostWakeup
INVARIANT ExclusiveRunning
INVARIANT PidsUnique
INVARIANT ParentsLive
PROPERTY LifecycleRefined
