\* kill(1) from any process: initproc notices p->killed at its next trap
\* and calls exit().
CONSTANTS
  NPROC = 2
  c1 = c1
  c2 = c2
  Cpus <- MCOneCpu
  NoCpu = NoCpu
  MaxPid = 2
  MaxTicks = 0
  Priorities = {}
  Bursts = {}
  PolicyArgs = {}
  KillArgs = {1}
  InitPolicy = 4
  SleepArgs = {}
  LifetimeArgs = {}
  TimerCpu = c1
  TestRrArgs = {}
SPECIFICATION Spec
INVARIANT RootNeverExits
