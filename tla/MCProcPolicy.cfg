CONSTANTS
  NPROC = 3
  c1 = c1
  c2 = c2
  Cpus <- MCOneCpu
  NoCpu = NoCpu
  MaxPid = 4
  MaxTicks = 1
  Priorities = {10}
  Bursts <- MCBursts
  PolicyArgs = {1, 2, 5}
  KillArgs = {}
  InitPolicy = 0
  SleepArgs = {}
  LifetimeArgs = {1}
  TimerCpu = c1
  TestRrArgs = {}
SPECIFICATION Spec
INVARIANT TypeOK
PROPERTY PolicyRespected
