\* Round Robin on one CPU under the fairness of LiveSpec (and the sleep and
\* waitx timing invariants, which need no fairness): forks, waits,
\* exits, kill() of children, sleep() and ticks, and timer yields.
CONSTANTS
  NPROC = 3
  c1 = c1
  c2 = c2
  Cpus <- MCOneCpu
  NoCpu = NoCpu
  MaxPid = 4
  MaxTicks = 1
  Priorities = {}
  Bursts = {}
  PolicyArgs = {}
  KillArgs = {2}
  InitPolicy = 4
  SleepArgs = {1}
  LifetimeArgs = {}
  TimerCpu = c1
  TestRrArgs = {1}
SPECIFICATION LiveSpec
PROPERTY RrNoStarvation
PROPERTY KilledExits
INVARIANT NoLostTick
INVARIANT WaitTimeNonNegative
