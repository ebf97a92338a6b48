\* scheduling_comparator on one CPU: init, the comparator and one child
\* per round in three slots; a pid for each of the five children; one
\* tick per sleep.
CONSTANTS
  NPROC = 3
  c1 = c1
  Cpus <- MCOneCpu
  NoCpu = NoCpu
  MaxPid = 7
  MaxTicks = 5
  Priorities = {}
  Bursts = {}
  PolicyArgs = {}
  KillArgs = {}
  InitPolicy = 0
  SleepArgs = {}
  LifetimeArgs = {}
  TimerCpu = c1
  TestRrArgs = {}
  ChildCounts = {1}
  Tester = 2
  StackInit = {0}
  AvgValues <- MCAvgValues
  Uptimes <- MCUptimes
  CmpSleep = 1
  CmpPriority = 10
  CmpBurst = 50
SPECIFICATION CLiveSpec
INVARIANT SeedIsDigitRoot
INVARIANT SuggestionIsFirstBest
PROPERTY RoundMeasured
PROPERTY ComparatorCompletes
