# TLA+ models of the xv6 process table and schedulers

This directory holds TLA+ models of the process management in `src/proc.c` and
of the scheduling system calls in `src/sysproc.c`, and of the user program
`src/schedtest.c` and `src/scheduling_comparator.c` running on that kernel. This is the xv6 kernel
extended with five selectable CPU schedulers: FCFS, SJF, BJF, Random and Round
Robin. TLC checks the models. Each definition is translated from the C source.
`PROJECT.json` names the lines behind each definition under `"map"`.

## 1. The system

| Part | Source | State it keeps | Operations |
|---|---|---|---|
| ptable lock, sleep/wakeup, sched/yield/forkret | proc.c 563-680 | `ptable.lock`, `p->chan`, `c->proc` | `sched`, `yield`, `forkret`, `sleep`, `wakeup1`, `wakeup` |
| process table and lifecycle | proc.c 84-339, 682-703 | `ptable.proc[NPROC]`: `state`, `pid`, `parent`, `killed`, `chan`, `ctime`, `priority`, `estimated_burst`; `nextpid`, `initproc` | `allocproc`, `userinit`, `fork`, `exit`, `wait`, `waitx`, `kill` |
| scheduler loop (one per CPU) | proc.c 394-554 | `c->proc`, `current_scheduler`, `random_seed` | one loop iteration: take the lock, select, `swtch`, clear `c->proc`, release |
| selection policies | proc.c 27-36, 407-551 | none (reads the table) | FCFS, SJF, BJF scans; Random via the `rand()` LCG; RR sweep |
| digit root | sysproc.c 112-127 | locals `num`, `root` | `sys_find_digit_root` |
| scheduling syscalls | sysproc.c 193-205, 321-360 | `current_scheduler`, `p->priority`, `p->estimated_burst` | `setschedpolicy`, `set_priority`, `set_burst_estimate` |
| timed sleep and clock | sysproc.c 73-92 (trap.c is outside src/) | `ticks`, `tickslock` | `sys_sleep`, the timer tick |
| metrics and queries | proc.c 709-778, sysproc.c 96-319 | read only | `procdump`, `ps`, `get_uncle_count`, lifetime, digit root, `test_rr` |
| scheduler comparison program | schedtest.c 140-351 | `pids[]`, `completed`, the round and policy, `results[s].completed` | five rounds: set the policy, fork children, set their priority and burst, collect them with `waitx`, kill what is left; then the comparison table |
| scheduler comparison tool | scheduling_comparator.c 24-190 | `pid`, `results[i].lifetime`, `.rtime`, `.wtime`, the seed and the policy index | seed from `find_digit_root(uptime())`; per policy: set it, fork one child, `sleep(20)`, `get_process_lifetime(pid)`, `waitx`; then the suggestion of the best policy |
| mp.c, headers, user programs | mp.c, *.h, *_test.c, ... | hardware tables / user memory | boot-time discovery, test workloads |

### How the parts interact

- **`ptable.lock` covers a process's whole trip through the scheduler.** The
  scheduler acquires the lock and holds it across `swtch()` into the chosen
  process. That process releases the lock in `forkret()` (first run), in
  `yield()` or after `sleep()`. When a process gives up the CPU
  (`yield`, `sleep`, `exit`), it calls `sched()` with the lock held. The
  scheduler thread then returns from `swtch()`, still holding the lock. It
  clears `c->proc` and releases the lock.
- **`current_scheduler` is read afresh on each loop iteration.** So
  `setschedpolicy()` takes effect at the next selection on every CPU.
- **`set_priority()` and `set_burst_estimate()` take no lock when they write.**
  They write only the caller's own fields while it is RUNNING. The
  scheduler's scans read only RUNNABLE slots, so nothing reads these fields
  at the same time, and the model's atomic scans lose nothing.
- **`kill()` only sets a flag.** trap.c (outside src/) calls `exit()` when a
  killed process next enters or leaves the kernel from user space. For
  initproc, that `exit()` panics.
- **`sys_test_rr()` calls `fork()` and `wait()` from inside the kernel.** Its
  children resume in user space like any forked child.

### Hard behaviours

- Processes on several CPUs interleave with each CPU's scheduler loop.
- Wakeups must not be lost between `exit()` and a parent in `wait()`, or
  between `kill()` and a sleeper.
- Slots are reused after `wait()` reaps a zombie.
- `fork()` can fail after `allocproc()`.
- Ties in FCFS and BJF fall back to a coarse tick counter.

## 2. Modules

### `Policies.tla`: the selection rules as pure operators over a table snapshot

- `ScanBest` is the shared for-loop, written as `FoldLeft` over the table in
  slot order. The comparison is strict, so on a tie the first slot stays.
- `FcfsPick`, `SjfPick` and `BjfPick` instantiate `ScanBest` with the code's
  comparisons.
- `RandomPick(run, k)` is the `k`-th RUNNABLE slot.
- `RrNext` is the next RUNNABLE slot of a Round Robin sweep.
- Next to these are the reference rules of spec.md 4.2: `FcfsAllowed`,
  `SjfAllowed` and `BjfAllowed`.

### `Lifecycle.tla`: the abstract life cycle

This module states what the process table promises, after spec.md 3 and
4.1, without CPUs, locks or kernel threads. Its variables are each slot's
`state` and `parent`. Its steps are:

- `Alloc` and `Abandon`;
- `Publish(p, q)`: a child of the running caller `q`;
- `Run`, `Preempt`, `Block`;
- `Wake(W)`: a set of sleepers;
- `Exit(p, W)`: exit with reparenting to the root;
- `Reap(q, z)`: a ZOMBIE child `z` of the running parent `q`.

`Proc` implements it. `Proc` defines
`Life == INSTANCE Lifecycle WITH Procs <- Slots, Root <- InitSlot, None <- NoProc`,
and the lifecycle run checks `LifecycleRefined == Life!Spec`. The state and
parent variables map one to one.

Some steps of `Proc` do several things at once. Each of them is one
abstract step:

- `Exit` wakes the parent and perhaps init, and reparents the children.
- A Round Robin `SchedContinue` dispatches the next process.
- `Kill` wakes a sleeper.
- `TickWakeup` wakes all sleepers on `&ticks`.

### `Proc.tla`: the process table, the lock, the per-CPU scheduler loops and the syscalls

**State.** One variable per `struct proc` field that the control depends on.
Each is a function over the slots `1..NPROC`. In addition:

- `pc[s]` is where a process will resume when it is next dispatched:
  - `"forkret"`
  - `"yield"`
  - `"wait"` and `"waitx"` (in `sleep()` inside `wait()` or `waitx()`)
  - `"ticks"`, `"sleep"` and `"reacquire"` (the loop test, the sleep and the
    reacquire of tickslock in `sys_sleep()`)
  - `"lifetime"` (ptable.lock held, waiting for tickslock)
  - `"fork"` (between `allocproc` and the commit, outside the lock)
  - `"zombie"`
  - `"panic"` (initproc in `exit()`)
  - `"testrr"` (`sys_test_rr()` between the `fork()` and `wait()` calls of
    its loops)
  - `"user"`
- `rrn[s]` and `rri[s]` are `n` and the number of calls made so far in the
  loops of `sys_test_rr()`. `rrchild[q]` is a history variable: the slot
  whose `sys_test_rr()` forked `q`.
- `child[s]` is the slot allocated by an in-progress `fork()`, or the slot
  found by an in-progress lifetime query.
- `lock` is the CPU that holds `ptable.lock`, or `NoCpu`.
- `cpuproc[c]` is `c->proc`.
- `rrpos[c]` is the position of the current Round Robin sweep. It is 0 when no
  sweep is in progress.

**Model of the lock.** Each section under `ptable.lock` is one atomic action,
guarded by `lock = NoCpu`:

- A process entering `sched()` sets `lock` to its CPU.
- The scheduler's `SchedContinue(c)` requires `lock = c`.
- `ForkRet`, `YieldRet` and `WaitResume` release the lock.

The hand-off is therefore explicit, as it is in the code.

**Actions, one per operation:**

| Action | Code |
|---|---|
| `Schedule(c)` | one scheduler iteration: acquire, select by `current_scheduler`, switch to the process |
| `SchedContinue(c)` | return from `swtch`; the Round Robin branch continues its sweep with the lock held |
| `ForkRet`, `YieldRet`, `WaitResume` | the dispatched process releasing the lock |
| `ForkAlloc`, `ForkFail`, `ForkCommit` | `fork()`: `allocproc`; the failure path of `copyuvm`/`kalloc`; the locked commit that makes the child RUNNABLE |
| `Wait`, `WaitScan` | `wait()`'s loop: reap the lowest ZOMBIE child, return -1, or sleep |
| `Exit` | `exit()`: reparent to init, `wakeup1` the parent (and init), become ZOMBIE, `sched()` |
| `Yield` | `yield()` |
| `Kill(s, k)` | `kill(k)` |
| `SetSchedPolicy`, `SetPriority`, `SetBurstEstimate` | the three syscalls, each with its validation |
| `Waitx` | `waitx()`: the loop of `wait()` plus `*wtime` |
| `SysSleep`, `SleepLoop`, `SleepResume`, `SleepReacquire` | `sys_sleep()` and `sleep(&ticks, &tickslock)` |
| `LifetimeScan`, `LifetimeRead` | `sys_get_process_lifetime()` |
| `TickStart`, `TickWakeup` | the clock interrupt: trap.c (outside src/, modelled from the spec), then `wakeup(&ticks)` |
| `InitExit`, `PanicSpin` | a killed initproc reaching `exit()`; `panic("init exiting")` and its `for(;;)` on a CPU with interrupts off |
| `TestRr`, `TestRrForkFails`, `TestRrDone` | `sys_test_rr()`: clamp `n`, the `-1` return on a failed fork, the final report |

**The killed checkpoint.** Every user-mode system call, and the timer's
`yield()`, is guarded by `Syscall(s)`: in user space and not killed. A
killed process in user space can only `Exit` (or `InitExit`). This is
trap.c's `if(myproc()->killed) exit()`.

**fork() and wait() called by `sys_test_rr()`.** `ForkAlloc` and `Wait`
may also start from `"testrr"`, in the fork loop and the wait loop
respectively. `ReturnTo(s)` returns to the caller: user space, or the loop,
which counts the call. The child of such a fork starts in `forkret()` and
returns to user space, as every forked child does.

**What is abstracted away:**

- Address spaces, file tables and names.
- Which of the user-mode system calls a process makes. This is the
  nondeterministic choice among the actions whose `pc[s] = "user"`.
- The seed sequence of `rand()`. The Random branch may pick any index below the
  runnable count, which covers every value `rand() % count` takes.

**Time, sys_sleep, waitx and lifetime.**

- `tickslock` is modelled like `lock`: it holds the holding CPU or `NoCpu`.
- The clock interrupt on `TimerCpu` (cpu 0) is two actions. trap.c is
  outside src/, so these follow spec.md:
  - `TickStart` takes tickslock, increments `ticks` and charges one tick of
    `runtime` to each RUNNING process.
  - `TickWakeup` is `wakeup(&ticks)`, taken under ptable.lock, followed by
    the release of tickslock.
  - While `intick` holds, `TimerCpu` runs nothing else (`Interrupted`).
    The tick fires only when that CPU holds no spinlock, because holding a
    spinlock disables interrupts.
- `sys_sleep(n)` has these steps:
  - `SysSleep` acquires tickslock.
  - `SleepLoop` runs the loop test. It either returns, or calls
    `sleep(&ticks, &tickslock)`: it acquires ptable.lock and releases
    tickslock.
  - `SleepResume` is the return from `sched()`, which releases ptable.lock.
  - `SleepReacquire` reacquires tickslock.
  - The loop test `ticks - ticks0 < n` compares as unsigned (`UnsignedLess`).
- `waitx()` is `Waitx`. It shares `WaitScan` with `wait()` and also stores
  `wtime`, which is `exittime - createtime - runtime`. `exit()` records
  `exittime`, and `allocproc()` resets `runtime` and `exittime`.
- `sys_get_process_lifetime()` has two steps:
  - `LifetimeScan` keeps ptable.lock.
  - `LifetimeRead` takes tickslock.
- `get_uncle_count()` is the operator `UncleCount`. It sits next to
  `SpecUncleCount`, which states the rule of spec.md 4.3.

### `DigitRoot.tla`

The loop of `sys_find_digit_root()`, one iteration per step (`Iterate`,
`Return`). It is checked against the closed form of the digital root,
`DigitalRoot(n) = 1 + (n-1) mod 9`. It has no run of its own: `Comparator`
instantiates it for the comparator's call `find_digit_root(uptime())`.

### `SchedTest.tla`: schedtest.c running on the kernel

`SchedTest` EXTENDS `Proc` and adds the user program `src/schedtest.c`. Its
state is `upc`, the user-space code point of each slot, and the locals of
`main()` and `run_scheduler_test()`: `pol` (s), `ti` (i), `tj` (j),
`completed`, `pids` and `num_children` (picked once from `ChildCounts`). Each program step is a Proc action, the system call it
makes, conjoined with the change of `upc`. The same pattern covers a kernel
step that returns from a call: the end of `fork()` (`Forked`, `ForkFailed`),
a `waitx()`/`wait()` woken up (`WaitxResume`, `CleanupWait`), and the second
half of `get_process_lifetime()`. The kernel steps no program drives
(`Schedule`, `SchedContinue`, `ForkRet`, `YieldRet`, the timer yield, the tick)
leave the program state alone. The clock is left out of this module. It
changes only `createtime` (the FCFS and BJF order of processes created in
different ticks) and the value `get_process_lifetime()` returns, and no
SchedTest property reads either. With it, the run exceeds its time budget.

- **initproc** forks the tester and then `wait()`s in a loop. If its `fork()`
  fails it calls `exit()`, which panics. init.c is not in the repository, so
  these steps are modelled on xv6's init.
- **The tester** runs five rounds, one per policy in `main()`'s order:
  `setschedpolicy()`, the source-file setup (`open()`/`write()` may fail, and
  the round returns -1), then the fork loop. The fork loop ends in one of
  three ways: the child's pid in `pids[i]`; no free slot, or a failed
  `fork()`, which leads to the clean-up loop; or, under BJF,
  `set_priority(initial_priority)`. The `waitx()` collection loop counts
  reaped children and breaks on -1. The clean-up loop runs `kill(pids[j])`
  (-1 when that pid has already been reaped) then `wait()`. After the last
  round the tester calls `exit()`.
- **A child** calls `get_process_lifetime(getpid())`, then `exit()`. A killed
  child can only exit.

- **The results table.** `rcompleted[s]` is `results[s].completed` and
  `rok[s]` records that `run_scheduler_test()` returned 0 for it.
  `StoreResult` is the store at the end of a round that got through its
  collection loop. A round that returns -1 never writes its entry.
  `main()` declares `results[5]` without an initialiser, so the field starts
  as a choice from `StackInit`. The final table shows a row's averages when
  `results[s].completed > 0` (`RowHasAverages`). It pads the averages with
  `numDigits()`, translated as the recursive `NumDigits`.

Calls that change no modelled state are left out. These are `printf`, `ps`,
`getpid`, `get_uncle_count`, `getnumsyscalls`, `cpu_work`, the file copy,
and the totals and averages of the results table.

### `Comparator.tla`: scheduling_comparator.c running on the kernel

`Comparator` EXTENDS `SchedTest` and reuses its init program, its `upc`, its
round index `pol`, `NextRound`, the child's steps and the tester's `exit()`.
initproc forks the comparator into slot `Tester` (`InitForkedAt("seed")`).
Its own state is `cpid` (the pid `fork()` returned), `measured` (whether
`results[i].lifetime` is not -1), and the locals of the digit-root call.

- **The seed.** `main()` first exits on `argc < 2` (`Usage`). Otherwise
  `Seed` takes `uptime()` from `Uptimes` and starts the loop of
  `sys_find_digit_root()`. The loop is `DR == INSTANCE DigitRoot WITH
  n0 <- dn0, num <- dnum, root <- droot, done <- ddone`, and `SeedLoop`
  takes `DR!Next` steps while the comparator is on its CPU. A timer yield
  may come between two iterations, as trap.c allows in kernel mode.
  `uptime()` returns the uint `ticks` as an int, so over the kernel's life
  it takes every int value, negatives included. `Uptimes` stands for that
  value and is not tied to the model's small clock.
- **A round** per policy: `setschedpolicy()` (never rejected), then
  `set_priority(10)` before BJF or `set_burst_estimate(50)` before SJF.
  Both calls change the comparator's own fields. Then `fork()`; a failure
  `continue`s. `sleep(20)` is Proc's `sys_sleep()` with
  `CmpSleep` ticks. Then `get_process_lifetime(pid)`, which finds the slot
  or returns -1. Then `waitx()`, which may sleep and be woken.
- **The child** runs SchedTest's child steps: its own lifetime query, then
  `exit()`. This stands for `exec()` of the program under test, which runs
  and exits; if `exec()` fails the child exits too.
- **The clock.** `CTick` is Proc's timer, with the tick taken while a
  process sleeps on `&ticks`. A tick at any other time changes only
  `createtime`, `runtime` and the lifetime value. Those set the values in
  the results table and the FCFS/BJF tie-breaks, which the other runs
  check. Leaving them out bounds the clock by the number of sleeps: one
  tick per round. A round's run time is therefore 0 or 1. Either is
  possible, because the child may be on the CPU during the tick. Equal
  times across rounds, the case the choice of the best policy is hardest
  on, are common.
- **The results table and the summary.** `rrtime[i]` and `rwtime[i]` are
  `results[i].rtime` and `.wtime`. They start at -1, as the initialiser
  says. `RecordTimes` stores the reaped child's `runtime` and the `*wtime`
  that `waitx()` wrote. The summary loop is `BestIdx`, a `FoldLeft` over
  the rounds in order. It skips entries whose `rtime` is still -1 and
  replaces the best so far on a strict `<`. It is applied to the run time
  and to the total time.

Left out: `printf`, `getpid`, `get_uncle_count`, `getnumsyscalls`, `ps`, the
lifetime value and the syscall counts. The workload file is never created
(`use_workload` is 0).

### `MCProc.tla`, `MCComparator.tla`

These MC modules hold what a .cfg cannot write:

`MCSchedTest.tla` gives SchedTest its one CPU and the averages `MCAvgValues` that `numDigits()` is checked on. `MCSchedTest.cfg` sets `StackInit` to `{0}`, as explained under `SummaryRowsMeasured`.

- the model values for the CPUs;
- a negative burst;
- the `uptime()` values given to the digit-root loop (`MCComparator`).

## 3. Runs

| Run | Config | Bounds | Checks | Result |
|---|---|---|---|---|
| lifecycle | `MCProcLife.cfg` | 4 slots, 2 CPUs, pids up to 5, RR, `kill` of pids 0..5 | `NoLostWakeup`, `ExclusiveRunning`, `PidsUnique`, `ParentsLive`, `LifecycleRefined` | pass (about 1.6M states, under 1 min) |
| policies | `MCProcPolicy.cfg` | 3 slots, 1 CPU, pids up to 4, one tick, switch to SJF or BJF or to an invalid number, priority 10, bursts {-1, 1}, lifetime of pid 1 | `TypeOK`, `PolicyRespected` | pass (about 1.1M states, under a minute) |
| born_killed | `MCProcBornKilled.cfg` | as lifecycle | `BornUnkilled` | violation |
| fcfs_order | `MCProcFcfs.cfg` | 3 slots, 1 CPU, FCFS, no tick | `FcfsArrivalOrder` | violation |
| lock_order | `MCProcLockOrder.cfg` | 2 slots, 2 CPUs, 1 tick, lifetime of pids 1 and 2 | `NoLockOrderDeadlock` | violation |
| uncle_count | `MCProcUncle.cfg` | 3 slots, 1 CPU | `UncleCountAsSpecified` | violation |
| rr_liveness | `MCProcRR.cfg` | 3 slots, 1 CPU, pids up to 4, RR, 1 tick, `sleep(1)`, `kill(2)`, `test_rr(1)`, `LiveSpec` | `RrNoStarvation`, `KilledExits`, `NoLostTick`, `WaitTimeNonNegative` | pass (about 320k states, about 2 min) |
| kill_init | `MCProcKillInit.cfg` | 2 slots, 1 CPU, `kill(1)` | `RootNeverExits` | violation |
| test_rr_wait | `MCProcTestRr.cfg` | 3 slots, 1 CPU, `test_rr(1)` | `TestRrWaitsForChildren` | violation |
| sched_test | `MCSchedTest.cfg` | 4 slots, 1 CPU, 2 or 3 children per round, pids up to 12, no clock, `STLiveSpec` | `RoundCollectsAll`, `SchedTestCompletes`, `SummaryRowsMeasured`, `NumDigitsIsWidth` | pass (about 96k states, under 30 s) |
| comparator | `MCComparator.cfg` | 3 slots, 1 CPU, pids up to 7, 5 ticks, `sleep(1)`, uptimes 0..200, -7, 999999999, INT_MAX, `CLiveSpec` | `SeedIsDigitRoot`, `SuggestionIsFirstBest`, `RoundMeasured`, `ComparatorCompletes` | pass (about 96k states, under 30 s) |
| sched_test_bjf | `MCSchedTestBJF.cfg` | as sched_test with 2 children, no tick, `STSpec` | `ChildGetsInitialPriority` | violation |

### What the passing runs show

- **`NoLostWakeup`.** A process asleep in `wait()` has no ZOMBIE child and is
  not killed. So `exit()`'s `wakeup1` calls (to the parent, and to init for
  zombies it inherits) and `kill()`'s wakeup are never missed.
- **`ExclusiveRunning`.** No two CPUs hold the same `c->proc`, and every
  RUNNING process is some CPU's `c->proc`.
- **`PidsUnique`.** No two slots outside UNUSED share a pid.
- **`ParentsLive`.** Every process except init has a parent that is neither
  UNUSED, EMBRYO nor ZOMBIE. The reparenting in `exit()` and the clearing in
  `wait()` keep this true across slot reuse.
- **`LifecycleRefined`.** Every step of the kernel changes slot states and
  parent links only as a step of `Lifecycle` allows. So a slot is reaped only
  as a ZOMBIE and only by its running parent, a child is published only by a
  running process, and exit hands the children to init.
- **`RrNoStarvation`.** Under Round Robin, a RUNNABLE process eventually runs.
- **`KilledExits`.** A killed process other than init eventually becomes a
  ZOMBIE (or its slot is freed). The path can go through `wait()`, through
  `sys_sleep()`, or through a `sys_test_rr()` in progress.
- **`PolicyRespected`.** Every selection the scheduler makes under SJF or BJF
  is one the spec's rule allows, ties included.
- **`NoLostTick`.** A process asleep in `sys_sleep()` always still has ticks
  to wait and is not killed, except while a tick is between `ticks++` and
  its wakeup. This depends on the test and the sleep being done under
  tickslock, and on `sleep()` taking ptable.lock before it releases
  tickslock.
- **`WaitTimeNonNegative`.** `waitx()` never reports a negative wait time.
- **`RoundCollectsAll`.** In every round that forks all its children, the
  `waitx()` loop ends with `completed_children = num_children`. Every
  `waitx()` returns one of the round's children; none returns -1 while one
  of them is alive, although initproc's `wait()` and the children's exits run
  beside it.
- **`SchedTestCompletes`.** Once init has started the tester, the tester
  reaches its final `exit()`. This holds under every policy, and whichever
  setup steps or forks fail. With three children every round takes the
  clean-up path. That shows the clean-up loop ends even when `kill()`
  misses a child that an earlier `wait()` reaped.
- **`SummaryRowsMeasured`.** At the end of `main()`, the comparison table
  shows averages exactly for the policies whose round returned 0. Each of
  those averages is taken over all `num_children` children. A round whose
  setup failed, or which took the clean-up path after a failed `fork()`,
  shows N/A. That round never wrote `results[s].completed`, so the row
  depends on the uninitialised field. `StackInit` is `{0}`, because exec()
  gives `main()` freshly zeroed stack pages. With `StackInit = {0, 1}`,
  TLC finds the property violated by a round whose source-file setup
  failed: its row shows averages. That build is what a reused stack would
  give.
- **`NumDigitsIsWidth`.** `numDigits()` returns the printed width of each
  average the table can show. These are means of non-negative times, with
  every width from 1 to 10 digits. `-n` overflows for INT_MIN, which no
  average takes; numDigits(INT_MIN) would return 1.
- **`SuggestionIsFirstBest`.** The suggestion names, by run time and by
  total time, the first-tested policy with the least time. Only rounds
  whose `fork()` and `waitx()` succeeded are candidates. If there are none,
  no policy is named. A round whose `fork()` failed keeps its -1 sentinel
  and is skipped.
- **`SeedIsDigitRoot`.** `find_digit_root(uptime())` returns the digital
  root of the uptime, a single digit, for every value in `Uptimes`.
- **`RoundMeasured`.** Every round whose `fork()` succeeds measures its own
  child and collects it. The comparator sleeps, and the child may already
  have exited. `get_process_lifetime(pid)` still finds the child, because a
  ZOMBIE keeps its slot and pid until its parent reaps it. `waitx()` then
  returns exactly that pid, while initproc's `wait()` runs beside it.
- **`ComparatorCompletes`.** The comparator reaches `exit()`. This needs the
  digit-root loop to exit for every uptime, each `sleep()` to be ended by
  the timer, and each child to run under the policy just set.

### Bounds

- **Four slots** are the fewest that allow init → A → B → C. With these, B can
  exit while C is a zombie, which makes init inherit a zombie. `NoLostWakeup`
  is about exactly this case.
- **Two CPUs** give two scheduler loops competing for the lock.
- **`MaxPid = NPROC + 1`** allows a reused slot with a fresh pid.
- **The policy run needs one tick.** Two processes with different createtimes
  are what the BJF tie-break orders. The policy run switches to SJF, to BJF
  and to an invalid number (5), but not to Random: the Random branch may
  pick any runnable slot, so `PolicyRespected` says nothing about it, and
  the extra branching more than tripled the run. The schedtest run switches
  through all five policies, Random included, so the Random branch of
  `Schedule` is still taken by a passing run.
- **The liveness run has one CPU.** Only there is weak fairness of a
  spinlock acquisition justified. It has one tick, `sleep(1)` and a kill of
  pid 2, so the liveness properties are checked through sleeps, kills and a
  `test_rr` loop. With four slots or two kill targets the run took over
  four minutes. The same run checks `NoLostTick` and `WaitTimeNonNegative`.
  Its tick lets a sleep span a tick: the sleep is woken, tests again and
  returns. `sys_sleep(n)` is admitted only when `ticks + n <= MaxTicks`, so
  every sleep can end within the bound. On one CPU the timer interrupts
  the CPU that runs the sleeper, so the case of the timer on another CPU
  is not covered.

- **The schedtest run uses five rounds and `num_children` of 2 or 3.** The
  code's `num_children = 5` becomes a variable that `STInit` picks from
  `ChildCounts`, so one run checks both instances:
  - Two children are the fewest for which the collection loop waits while
    another child runs.
  - Three children in four slots make the third fork find no slot, which is
    the clean-up path.
  - Running all five policies lets each scheduler drive the test.
  - A pid bound of 12 (the init fork plus at most two child forks per round)
    means no fork fails for want of pids.

### Fairness

The safety runs assume no fairness.

The liveness run uses `LiveSpec == Spec /\ Fairness`. `Fairness` assumes:

- **weak fairness** of each CPU's scheduler loop (`Schedule`,
  `SchedContinue`). The loop runs with interrupts on.
- **weak fairness** of the kernel code a process runs after being switched
  in, up to its next switch or return. This covers `ForkRet`, `YieldRet`,
  `WaitResume`, `SleepLoop`, `SleepResume`, `SleepReacquire`,
  `LifetimeRead`, the end of `fork()`, and the loops of `sys_test_rr()`.
- **strong fairness** of `Yield(s) \/ Exit(s)`. The CPU's timer interrupts
  a process in user space, and trap.c then yields, or exits if the process
  is killed. Strong fairness is needed because a process may return to the
  kernel again and again (a `test_rr` failing at the pid bound, say). Each
  time, `Yield` is briefly disabled, while the timer keeps firing in the
  code.
- **no fairness** for system calls: a process may compute in user space for
  ever.

The schedtest runs use `STLiveSpec == STSpec /\ STFairness`, on one CPU:

- **weak fairness** of the scheduler loop and of the kernel code each slot
  resumes in. By `pc` there is exactly one such
  piece at a time.
- **strong fairness** of each slot's next user-space instruction. That step
  is enabled only while the slot is on the CPU.
- **no timer preemption.** Every program in the test blocks or exits, so
  the property does not need it.

The comparator run uses `CLiveSpec == CSpec /\ CFairness`, on one CPU.
`CFairness` is `STFairness` over the comparator's steps, with two
additions:

- **the digit-root loop** is under the strong fairness of the comparator's
  user steps. A yield may interrupt it, and it goes on once back on the
  CPU.
- **the timer** (`CTick`) is weakly fair. The clock is hardware, and trap.c
  takes its interrupt whenever the CPU holds no spinlock.

## 4. Findings

- **born_killed** (a code bug). `kill()` compares `p->pid` in every slot,
  including UNUSED ones (pid 0, or the stale pid left when `fork()` fails), and
  sets `killed = 1` there. `allocproc()` does not clear `killed`. So the next
  process created in that slot starts already killed. The spec says a kill of
  an unknown pid has no effect.
- **fcfs_order** (the code diverges from the spec). FCFS orders processes by
  `ctime`, which is the tick count. Processes created in the same tick run in
  slot order. After a slot is reused, that puts a newer process ahead of an
  older one. `fcfs_test.c` expects fork order.

- **lock_order** (a code bug). `sys_get_process_lifetime()` takes tickslock
  while it holds ptable.lock (sysproc.c 153, 157). The clock interrupt, and
  `sys_sleep()` entering `sleep()`, take ptable.lock while they hold
  tickslock. TLC reaches a state in which init, on one CPU, holds ptable.lock
  inside the lifetime query, and the timer on cpu 0 holds tickslock and waits
  for ptable.lock. Both CPUs then spin forever.
- **uncle_count** (the code diverges from the spec). `get_uncle_count()`
  returns -1 ("no such process") when the parent pointer is null. That
  covers initproc, and a child before `fork()` sets `np->parent`. The spec
  says 0 there.

- **kill_init** (a code bug). `kill()` accepts pid 1. At its next trap,
  initproc calls `exit()`, which panics with "init exiting". So any process
  can halt the kernel. spec.md 4.1 and 7 call exit of the root process a
  fatal error, and `kill()` does nothing to prevent it.
- **test_rr_wait** (a code bug). The wait loop of `sys_test_rr()` calls
  `wait()` n times, and `wait()` reaps any ZOMBIE child. TLC finds init with
  an older zombie child. `test_rr(1)` reaps that child and returns 0 while the
  process it forked is still RUNNABLE. In addition, the kernel "child"
  branch (sysproc.c 276-298) never runs, because `fork()` returns to user
  space in the child.

- **sched_test_bjf** (a code bug). Under BJF, `run_scheduler_test()`
  prints "Setting initial priority for PID <child> to <p>". It then calls
  `set_priority(initial_priority)`, and `set_priority()` takes no pid: it
  sets the caller's priority. So the tester's priority changes, and every
  child of the BJF round runs with the default priority 60. The BJF round
  therefore never compares priorities.

## 5. Not modelled

- **Liveness under FCFS, SJF and BJF.** spec.md 5 promises only best-effort
  fairness there. A process that yields in a loop keeps the lowest key and
  starves the others.
- **Timer preemption in kernel mode.** trap.c also yields on a timer
  interrupt taken in the kernel. The model yields only from user space, and
  the kernel code between two lock sections runs to its end.
  The one exception is the loop of `sys_find_digit_root()` in `Comparator`.
  It takes no lock, so a yield may come between two of its iterations.
- **`sys_sleep` with a negative argument.** The code converts `n` to unsigned,
  so the sleep lasts about 2^32 ticks. The model admits such arguments:
  `SleepArgs` are ints, and `NoLostTick` states the code's unsigned test.
  No run passes one. In the liveness run initproc could call `sleep(-1)`
  while alone on the CPU, and only a kill wakes it, so the run would end
  in a real deadlock. spec.md says nothing of a negative `n`, so no
  property claims that such a sleep returns.
- **`rand()`.** Its 32-bit products do not fit TLC's integers. The Random
  branch therefore picks any index.

Left out on purpose:

- **`mp.c`** is boot-time parsing of BIOS memory.
- **`procdump` and `sys_ps`** only format output.
- **The other user programs** are clients of the modelled system calls.
  schedtest.c is modelled (`SchedTest`), except for the totals and
  averages of its results table. The field that selects each row is
  modelled, and so is `numDigits()`.
  scheduling_comparator.c is modelled (`Comparator`), except for the
  lifetime value and the syscall counts of its results table.
- **`growproc`** and the address-space copying in `fork` appear only as the
  fork failure path.
