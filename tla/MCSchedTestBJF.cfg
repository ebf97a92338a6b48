\* The BJF round of run_scheduler_test(): does set_priority(initial_priority)
\* give the child just forked its initial priority?
CONSTANTS
  NPROC = 4
  c1 = c1
  Cpus <- MCOneCpu
  NoCpu = NoCpu
  MaxPid = 12
  MaxTicks = 0
  Priorities = {}
  Bursts = {}
  PolicyArgs = {}
  KillArgs = {}
  InitPolicy = 0
  SleepArgs = {}
  LifetimeArgs = {}
  TimerCpu = c1
  TestRrArgs = {}
  ChildCounts = {2}
  Tester = 2
  StackInit = {0}
  AvgValues <- MCAvgValues
SPECIFICATION STSpec
PROPERTY ChildGetsInitialPriority
