\* schedtest's main() on one CPU: initproc forks the tester, which runs
\* run_scheduler_test() under each of the five policies, with two children
\* (every round can collect them) or three (every round runs out of slots
\* at its third fork() and takes the clean-up path).
CONSTANTS
  NPROC = 4
  c1 = c1
  Cpus <- MCOneCpu
  NoCpu = NoCpu
  MaxPid = 12
  MaxTicks = 0
  Priorities = {}
  Bursts = {}
  PolicyArgs = {}
  KillArgs = {}
  InitPolicy = 0
  SleepArgs = {}
  LifetimeArgs = {}
  TimerCpu = c1
  TestRrArgs = {}
  ChildCounts = {2, 3}
  Tester = 2
  \* results[] is in main()'s frame, on the stack pages exec() has just
  \* allocated and zeroed; nothing runs on them before main().
  StackInit = {0}
  AvgValues <- MCAvgValues
SPECIFICATION STLiveSpec
PROPERTY RoundCollectsAll
PROPERTY SchedTestCompletes
INVARIANT SummaryRowsMeasured
INVARIANT NumDigitsIsWidth
