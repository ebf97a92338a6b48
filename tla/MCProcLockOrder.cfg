CONSTANTS
  NPROC = 2
  c1 = c1
  c2 = c2
  Cpus <- MCCpus
  NoCpu = NoCpu
  MaxPid = 2
  MaxTicks = 1
  Priorities = {}
  Bursts = {}
  PolicyArgs = {}
  KillArgs = {}
  InitPolicy = 4
  SleepArgs = {1}
  LifetimeArgs = {1, 2}
  TimerCpu = c1
  TestRrArgs = {}
SPECIFICATION Spec
INVARIANT NoLockOrderDeadlock
