-------------------------------- MODULE Proc --------------------------------
(***************************************************************************)
(* The process table, the per-CPU scheduler loop and the blocking          *)
(* primitives of src/proc.c, with the scheduling system calls of           *)
(* src/sysproc.c that change them.                                         *)
(*                                                                         *)
(* Each CPU runs either its scheduler thread or the kernel thread of the   *)
(* process in cpuproc[c] (c->proc).  ptable.lock is `lock`: the CPU that   *)
(* holds it, or NoCpu.  A process gives up its CPU with sched() while the *)
(* lock is held, and the scheduler thread of that CPU continues with the   *)
(* lock still held; a newly dispatched process starts holding the lock and *)
(* releases it in forkret() or at the end of yield()/sleep().  pc[s] is    *)
(* the kernel code point at which process s resumes.                       *)
(*                                                                         *)
(* Steps taken under ptable.lock are atomic actions whose guard includes   *)
(* lock = NoCpu (acquire ... release).  Code between two lock sections,    *)
(* and writes the code performs without the lock, are actions of their    *)
(* own.                                                                    *)
(***************************************************************************)
EXTENDS Integers, FiniteSets, SequencesExt, Policies

CONSTANTS
  Cpus,          \* the CPUs, model values
  NoCpu,         \* model value: ptable.lock is free
  MaxPid,        \* bound: the last pid nextpid may hand out
  MaxTicks,      \* bound: the last value of the tick counter
  Priorities,    \* values user code passes to set_priority()
  Bursts,        \* values user code passes to set_burst_estimate()
  PolicyArgs,    \* values user code passes to setschedpolicy()
  KillArgs,      \* pids user code passes to kill()
  SleepArgs,     \* tick counts user code passes to sleep()
  LifetimeArgs,  \* pids user code passes to get_process_lifetime()
  InitPolicy,    \* current_scheduler when the schedulers start
  TimerCpu,      \* the CPU whose timer interrupt advances ticks (cpu 0)
  TestRrArgs     \* values of n user code passes to test_rr()

ASSUME /\ NoCpu \notin Cpus
       /\ MaxPid \in Nat /\ MaxTicks \in Nat
       /\ InitPolicy \in SCHED_FCFS..SCHED_RR
       /\ Bursts \subseteq Int
       /\ SleepArgs \subseteq Int
       /\ TimerCpu \in Cpus
       /\ TestRrArgs \subseteq Int

VARIABLES
  state,              \* p->state
  pid,                \* p->pid
  parent,             \* p->parent, a slot or NoProc
  killed,             \* p->killed
  chan,               \* p->chan: NoChan, or the slot a wait() sleeps on
  createtime,         \* p->createtime
  priority,           \* p->priority
  estimated_burst,    \* p->estimated_burst
  pc,                 \* where the kernel thread of a slot resumes
  child,              \* fork(): np, the slot allocated for the child
  nextpid,            \* nextpid
  ticks,              \* ticks (advanced by the timer, trap.c)
  current_scheduler,  \* current_scheduler
  lock,               \* holder of ptable.lock, or NoCpu
  cpuproc,            \* c->proc
  rrpos,              \* RR branch of scheduler(): slot of the loop variable
                      \* p while a sweep is in progress, 0 otherwise
  tickslock,          \* holder of tickslock, or NoCpu
  intick,             \* the timer interrupt of TimerCpu holds tickslock and
                      \* has yet to wakeup(&ticks)
  runtime,            \* p->runtime
  exittime,           \* p->exittime
  wtime,              \* *wtime as the last waitx() of the slot stored it
  ticks0,             \* sys_sleep(): local ticks0
  sleepn,             \* sys_sleep(): argument n
  rrn,                \* sys_test_rr(): n after clamping, 0 outside the call
  rri,                \* sys_test_rr(): calls of its loops made so far, the
                      \* n fork()s and then the n wait()s
  rrchild             \* history: the slot whose sys_test_rr() forked the
                      \* process in a slot, or NoProc

vars == <<state, pid, parent, killed, chan, createtime, priority,
          estimated_burst, pc, child, nextpid, ticks, current_scheduler,
          lock, cpuproc, rrpos, tickslock, intick, runtime, exittime, wtime,
          ticks0, sleepn, rrn, rri, rrchild>>

\* The variables of the clock, sys_sleep() and waitx().
timevars == <<tickslock, intick, runtime, exittime, wtime, ticks0, sleepn>>

\* The variables of sys_test_rr().
trrvars == <<rrn, rri, rrchild>>

\* enum procstate (proc.h).
UNUSED == "UNUSED"  EMBRYO == "EMBRYO"  SLEEPING == "SLEEPING"
RUNNABLE == "RUNNABLE"  RUNNING == "RUNNING"  ZOMBIE == "ZOMBIE"
States == {UNUSED, EMBRYO, SLEEPING, RUNNABLE, RUNNING, ZOMBIE}

NoChan   == 0
TicksChan == NPROC + 1 \* &ticks, an address no slot has
InitSlot == 1          \* initproc: userinit() takes the first free slot
DefaultPriority == 60
DefaultBurst    == 5

\* Resume points of a kernel thread.
PCs == {"user",        \* in user space, may make a system call
        "forkret",     \* new process: first dispatch enters forkret()
        "fork",        \* fork() between allocproc() and the commit
        "yield",       \* switched out in yield()
        "wait",        \* switched out in sleep() called from wait()
        "waitx",       \* switched out in sleep() called from waitx()
        "ticks",       \* sys_sleep() at its loop test, tickslock held
        "sleep",       \* switched out in sleep(&ticks, &tickslock)
        "reacquire",   \* end of that sleep(): acquire(&tickslock)
        "lifetime",    \* get_process_lifetime(): ptable.lock held,
                       \* acquire(&tickslock)
        "testrr",      \* sys_test_rr() between the calls of its loops
        "zombie",      \* switched out in exit(), never resumes
        "panic"}       \* initproc in exit(): panic("init exiting")

Live(s) == state[s] /= UNUSED

\* The CPU whose current process is s.
CpuOf(s) == CHOOSE c \in Cpus : cpuproc[c] = s

\* CPU c is in the timer interrupt handler (trap.c) and runs nothing else.
Interrupted(c) == intick /\ c = TimerCpu

\* s is the RUNNING process of some CPU and its kernel thread executes.
Running(s) ==
  /\ state[s] = RUNNING
  /\ \E c \in Cpus : cpuproc[c] = s /\ ~Interrupted(c)

\* s is in user space on a CPU that runs it.
InUser(s) == Running(s) /\ pc[s] = "user"

\* s enters the kernel with a system call or a timer interrupt and goes on
\* into it: trap.c calls exit() first when p->killed is set, so a killed
\* process in user space can only exit.
Syscall(s) == InUser(s) /\ ~killed[s]

\* sys_test_rr() of s is in its fork loop (i < n) or its wait loop.
TestRrForks(s) == Running(s) /\ pc[s] = "testrr" /\ rri[s] < rrn[s]
TestRrWaits(s) ==
  Running(s) /\ pc[s] = "testrr" /\ rrn[s] <= rri[s] /\ rri[s] < 2 * rrn[s]

\* fork() or wait() returns to its caller: the system call returns to
\* user space, or the loop of sys_test_rr() goes on to its next call.
ReturnTo(s) ==
  /\ pc' = [pc EXCEPT ![s] = IF rrn[s] = 0 THEN "user" ELSE "testrr"]
  /\ rri' = IF rrn[s] = 0 THEN rri ELSE [rri EXCEPT ![s] = @ + 1]

\* a < b between two ints converted to uint (32-bit two's complement):
\* the non-negative ones come first, in order, then the negative ones.
UnsignedLess(a, b) == IF (a >= 0) = (b >= 0) THEN a < b ELSE a >= 0

\* The CPU runs its scheduler thread: it has no process, or its process
\* has switched out with sched() (state no longer RUNNING).
InScheduler(c) == cpuproc[c] \in Slots => state[cpuproc[c]] /= RUNNING

Runnable == {q \in Slots : state[q] = RUNNABLE}

(***************************************************************************)
(* Boot: userinit() has made initproc (pid 1) RUNNABLE in the first slot;  *)
(* every other slot is still zero.                                         *)
(***************************************************************************)
Init ==
  /\ state = [q \in Slots |-> IF q = InitSlot THEN RUNNABLE ELSE UNUSED]
  /\ pid = [q \in Slots |-> IF q = InitSlot THEN 1 ELSE 0]
  /\ parent = [q \in Slots |-> NoProc]
  /\ killed = [q \in Slots |-> FALSE]
  /\ chan = [q \in Slots |-> NoChan]
  /\ createtime = [q \in Slots |-> 0]
  /\ priority = [q \in Slots |-> IF q = InitSlot THEN DefaultPriority ELSE 0]
  /\ estimated_burst = [q \in Slots |-> IF q = InitSlot THEN DefaultBurst ELSE 0]
  /\ pc = [q \in Slots |-> IF q = InitSlot THEN "forkret" ELSE "user"]
  /\ child = [q \in Slots |-> NoProc]
  /\ nextpid = 2
  /\ ticks = 0
  /\ current_scheduler = InitPolicy
  /\ lock = NoCpu
  /\ cpuproc = [c \in Cpus |-> NoProc]
  /\ rrpos = [c \in Cpus |-> 0]
  /\ tickslock = NoCpu
  /\ intick = FALSE
  /\ runtime = [q \in Slots |-> 0]
  /\ exittime = [q \in Slots |-> 0]
  /\ wtime = [q \in Slots |-> 0]
  /\ ticks0 = [q \in Slots |-> 0]
  /\ sleepn = [q \in Slots |-> 0]
  /\ rrn = [q \in Slots |-> 0]
  /\ rri = [q \in Slots |-> 0]
  /\ rrchild = [q \in Slots |-> NoProc]

-----------------------------------------------------------------------------
(***************************************************************************)
(* The scheduler thread of CPU c.                                          *)
(***************************************************************************)

\* Bind p to CPU c and switch to it, keeping ptable.lock (held by c).
Dispatch(c, p) ==
  /\ cpuproc' = [cpuproc EXCEPT ![c] = p]
  /\ state' = [state EXCEPT ![p] = RUNNING]
  /\ lock' = c

\* One iteration of the loop of scheduler(): acquire ptable.lock, select
\* under current_scheduler and switch to the selected process.  An
\* iteration that selects nothing acquires and releases the lock and
\* changes nothing, so it is a stuttering step.  The Random branch's
\* rand() % runnable_count is abstracted to any index below the count.
Schedule(c) ==
  /\ lock = NoCpu
  /\ InScheduler(c)
  /\ ~Interrupted(c)
  /\ Runnable /= {}
  /\ \/ /\ current_scheduler = SCHED_FCFS
        /\ Dispatch(c, FcfsPick(Runnable, createtime))
        /\ UNCHANGED rrpos
     \/ /\ current_scheduler = SCHED_SJF
        /\ Dispatch(c, SjfPick(Runnable, estimated_burst))
        /\ UNCHANGED rrpos
     \/ /\ current_scheduler = SCHED_BJF
        /\ Dispatch(c, BjfPick(Runnable, createtime, priority))
        /\ UNCHANGED rrpos
     \/ /\ current_scheduler = SCHED_RANDOM
        /\ \E k \in 0..(Cardinality(Runnable) - 1) :
             Dispatch(c, RandomPick(Runnable, k))
        /\ UNCHANGED rrpos
     \/ /\ current_scheduler = SCHED_RR
        /\ LET p == RrNext(Runnable, 0)
           IN /\ Dispatch(c, p)
              /\ rrpos' = [rrpos EXCEPT ![c] = p]
  /\ UNCHANGED <<pid, parent, killed, chan, createtime, priority,
                 estimated_burst, pc, child, nextpid, ticks, current_scheduler>>
  /\ UNCHANGED timevars
  /\ UNCHANGED trrvars

\* Mutant: the release path forgets c->proc = 0.
SchedContinueKeepProc(c) ==
  /\ lock = c
  /\ cpuproc[c] /= NoProc
  /\ state[cpuproc[c]] /= RUNNING
  /\ LET next == RrNext(Runnable, rrpos[c])
     IN IF rrpos[c] /= 0 /\ next /= NoProc
        THEN /\ Dispatch(c, next)
             /\ rrpos' = [rrpos EXCEPT ![c] = next]
        ELSE /\ lock' = NoCpu
             /\ rrpos' = [rrpos EXCEPT ![c] = 0]
             /\ UNCHANGED <<state, cpuproc>>
  /\ UNCHANGED <<pid, parent, killed, chan, createtime, priority,
                 estimated_burst, pc, child, nextpid, ticks, current_scheduler>>
  /\ UNCHANGED timevars
  /\ UNCHANGED trrvars

\* The scheduler thread after swtch() returns from a process, still holding
\* ptable.lock: switchkvm(), c->proc = 0, then either release the lock or,
\* inside a Round Robin sweep, go on to the next RUNNABLE slot.
SchedContinue(c) ==
  /\ lock = c
  /\ cpuproc[c] /= NoProc
  /\ state[cpuproc[c]] /= RUNNING
  /\ LET next == RrNext(Runnable, rrpos[c])
     IN IF rrpos[c] /= 0 /\ next /= NoProc
        THEN /\ Dispatch(c, next)
             /\ rrpos' = [rrpos EXCEPT ![c] = next]
        ELSE /\ cpuproc' = [cpuproc EXCEPT ![c] = NoProc]
             /\ lock' = NoCpu
             /\ rrpos' = [rrpos EXCEPT ![c] = 0]
             /\ UNCHANGED state
  /\ UNCHANGED <<pid, parent, killed, chan, createtime, priority,
                 estimated_burst, pc, child, nextpid, ticks, current_scheduler>>
  /\ UNCHANGED timevars
  /\ UNCHANGED trrvars

-----------------------------------------------------------------------------
(***************************************************************************)
(* Code a process runs when it is switched back in, with ptable.lock held  *)
(* by its CPU.                                                             *)
(***************************************************************************)
Resumes(s, at) ==
  /\ Running(s)
  /\ pc[s] = at
  /\ lock = CpuOf(s)

\* forkret(): release ptable.lock and return to user space.
ForkRet(s) ==
  /\ Resumes(s, "forkret")
  /\ lock' = NoCpu
  /\ pc' = [pc EXCEPT ![s] = "user"]
  /\ UNCHANGED <<state, pid, parent, killed, chan, createtime, priority,
                 estimated_burst, child, nextpid, ticks, current_scheduler,
                 cpuproc, rrpos>>
  /\ UNCHANGED timevars
  /\ UNCHANGED trrvars

\* The end of yield(): release(&ptable.lock).
YieldRet(s) ==
  /\ Resumes(s, "yield")
  /\ lock' = NoCpu
  /\ pc' = [pc EXCEPT ![s] = "user"]
  /\ UNCHANGED <<state, pid, parent, killed, chan, createtime, priority,
                 estimated_burst, child, nextpid, ticks, current_scheduler,
                 cpuproc, rrpos>>
  /\ UNCHANGED timevars
  /\ UNCHANGED trrvars

-----------------------------------------------------------------------------
(***************************************************************************)
(* wait().                                                                 *)
(***************************************************************************)

\* Free a zombie's slot: kfree, freevm, then pid, parent, name, killed
\* cleared and state UNUSED.
Reap(z) ==
  /\ pid' = [pid EXCEPT ![z] = 0]
  /\ parent' = [parent EXCEPT ![z] = NoProc]
  /\ killed' = [killed EXCEPT ![z] = FALSE]
  /\ state' = [state EXCEPT ![z] = UNUSED]

\* waitx(): *wtime = p->exittime - p->createtime - p->runtime, computed
\* on uints and stored in an int: the int with the bits of the difference
\* modulo 2^32, which is the difference itself for every value below
\* 2^31 in magnitude (all of them here: the times are at most MaxTicks).
WaitTime(z) == exittime[z] - createtime[z] - runtime[z]

\* Mutant: the loop of wait() frees the first child whatever its state.
WaitScanAnyChild(s, ch, at) ==
  LET kids    == {q \in Slots : parent[q] = s}
  IN \/ /\ kids /= {}
        /\ Reap(Min(kids))
        /\ lock' = NoCpu
        /\ ReturnTo(s)
        /\ chan' = ch
        /\ UNCHANGED wtime
     \/ /\ kids = {}
        /\ lock' = NoCpu
        /\ ReturnTo(s)
        /\ chan' = ch
        /\ UNCHANGED <<pid, parent, killed, state, wtime>>

\* Mutant: the loop of wait() without the curproc->killed test.
WaitScanIgnoreKilled(s, ch, at) ==
  LET kids    == {q \in Slots : parent[q] = s}
      zombies == {q \in kids : state[q] = ZOMBIE}
  IN \/ /\ zombies /= {}
        /\ Reap(Min(zombies))
        /\ lock' = NoCpu
        /\ ReturnTo(s)
        /\ chan' = ch
        /\ wtime' = IF at = "waitx"
                    THEN [wtime EXCEPT ![s] = WaitTime(Min(zombies))]
                    ELSE wtime
     \/ /\ zombies = {}
        /\ kids = {}
        /\ lock' = NoCpu
        /\ ReturnTo(s)
        /\ chan' = ch
        /\ UNCHANGED <<pid, parent, killed, state, wtime>>
     \/ /\ zombies = {}
        /\ kids /= {}
        /\ chan' = [ch EXCEPT ![s] = s]
        /\ state' = [state EXCEPT ![s] = SLEEPING]
        /\ pc' = [pc EXCEPT ![s] = at]
        /\ lock' = CpuOf(s)
        /\ UNCHANGED <<pid, parent, killed, wtime, rri>>

\* Mutant: the loop of wait() returns -1 instead of sleeping when no
\* child is a ZOMBIE yet.
WaitScanNoSleep(s, ch, at) ==
  LET kids    == {q \in Slots : parent[q] = s}
      zombies == {q \in kids : state[q] = ZOMBIE}
  IN \/ /\ zombies /= {}
        /\ Reap(Min(zombies))
        /\ lock' = NoCpu
        /\ ReturnTo(s)
        /\ chan' = ch
        /\ wtime' = IF at = "waitx"
                    THEN [wtime EXCEPT ![s] = WaitTime(Min(zombies))]
                    ELSE wtime
     \/ /\ zombies = {}
        /\ lock' = NoCpu
        /\ ReturnTo(s)
        /\ chan' = ch
        /\ UNCHANGED <<pid, parent, killed, state, wtime>>

\* One pass of the for(;;) loop of wait() (at = "wait") or waitx() (at =
\* "waitx"), lock held by s's CPU, with p->chan already `ch`: reap the
\* first ZOMBIE child in table order (waitx() also stores *wtime), or
\* return -1 if s has no children or was killed, or sleep(curproc,
\* &ptable.lock): SLEEPING on channel s, sched() keeps the lock.
WaitScan(s, ch, at) ==
  LET kids    == {q \in Slots : parent[q] = s}
      zombies == {q \in kids : state[q] = ZOMBIE}
  IN \/ /\ zombies /= {}
        /\ Reap(Min(zombies))
        /\ lock' = NoCpu
        /\ ReturnTo(s)
        /\ chan' = ch
        /\ wtime' = IF at = "waitx"
                    THEN [wtime EXCEPT ![s] = WaitTime(Min(zombies))]
                    ELSE wtime
     \/ /\ zombies = {}
        /\ kids = {} \/ killed[s]
        /\ lock' = NoCpu
        /\ ReturnTo(s)
        /\ chan' = ch
        /\ UNCHANGED <<pid, parent, killed, state, wtime>>
     \/ /\ zombies = {}
        /\ kids /= {}
        /\ ~killed[s]
        /\ chan' = [ch EXCEPT ![s] = s]
        /\ state' = [state EXCEPT ![s] = SLEEPING]
        /\ pc' = [pc EXCEPT ![s] = at]
        /\ lock' = CpuOf(s)
        /\ UNCHANGED <<pid, parent, killed, wtime, rri>>

\* wait() system call: acquire ptable.lock, then the loop.
Wait(s) ==
  /\ Syscall(s) \/ TestRrWaits(s)
  /\ lock = NoCpu
  /\ WaitScan(s, chan, "wait")
  /\ UNCHANGED <<createtime, priority, estimated_burst, child, nextpid,
                 ticks, current_scheduler, cpuproc, rrpos, tickslock, intick,
                 runtime, exittime, ticks0, sleepn, rrn,
                 rrchild>>

\* Mutant: waitx() returns -1 instead of sleeping while its children
\* are still alive.
WaitxNoSleep(s) ==
  /\ Syscall(s)
  /\ lock = NoCpu
  /\ WaitScanNoSleep(s, chan, "waitx")
  /\ UNCHANGED <<createtime, priority, estimated_burst, child, nextpid,
                 ticks, current_scheduler, cpuproc, rrpos, tickslock, intick,
                 runtime, exittime, ticks0, sleepn, rrn,
                 rrchild>>

\* waitx() system call: the same loop as wait().
Waitx(s) ==
  /\ Syscall(s)
  /\ lock = NoCpu
  /\ WaitScan(s, chan, "waitx")
  /\ UNCHANGED <<createtime, priority, estimated_burst, child, nextpid,
                 ticks, current_scheduler, cpuproc, rrpos, tickslock, intick,
                 runtime, exittime, ticks0, sleepn, rrn,
                 rrchild>>

\* Back from sleep() inside wait() or waitx(): p->chan = 0 (the sleeptime
\* update only feeds ps), and since lk is ptable.lock the loop goes on
\* with the lock held.
WaitResume(s) ==
  /\ Running(s)
  /\ pc[s] \in {"wait", "waitx"}
  /\ lock = CpuOf(s)
  /\ WaitScan(s, [chan EXCEPT ![s] = NoChan], pc[s])
  /\ UNCHANGED <<createtime, priority, estimated_burst, child, nextpid,
                 ticks, current_scheduler, cpuproc, rrpos, tickslock, intick,
                 runtime, exittime, ticks0, sleepn, rrn,
                 rrchild>>

-----------------------------------------------------------------------------
(***************************************************************************)
(* fork(), exit(), yield(), kill().                                        *)
(***************************************************************************)

\* Mutant: allocproc() without nextpid++.
ForkAllocSamePid(s) ==
  /\ Syscall(s) \/ TestRrForks(s)
  /\ lock = NoCpu
  /\ \E q \in Slots : state[q] = UNUSED
  /\ LET np == Min({q \in Slots : state[q] = UNUSED})
     IN /\ state' = [state EXCEPT ![np] = EMBRYO]
        /\ pid' = [pid EXCEPT ![np] = nextpid]
        /\ createtime' = [createtime EXCEPT ![np] = ticks]
        /\ priority' = [priority EXCEPT ![np] = DefaultPriority]
        /\ estimated_burst' = [estimated_burst EXCEPT ![np] = DefaultBurst]
        /\ pc' = [pc EXCEPT ![np] = "forkret", ![s] = "fork"]
        /\ child' = [child EXCEPT ![s] = np]
        /\ runtime' = [runtime EXCEPT ![np] = 0]
        /\ exittime' = [exittime EXCEPT ![np] = 0]
        /\ rrchild' = [rrchild EXCEPT ![np] = NoProc]
  /\ UNCHANGED <<nextpid, parent, killed, chan, ticks, current_scheduler, lock,
                 cpuproc, rrpos>>
  /\ UNCHANGED <<tickslock, intick, wtime, ticks0, sleepn>>
  /\ UNCHANGED <<rrn, rri>>

\* fork() up to the release in allocproc(): the first UNUSED slot becomes
\* EMBRYO with the next pid, reset scheduling and time fields, and a
\* context that starts in forkret().  When no slot is free allocproc()
\* returns 0 and fork() returns -1 with nothing changed.  (The bound
\* MaxPid stops forking at nextpid = MaxPid + 1.)
ForkAlloc(s) ==
  /\ Syscall(s) \/ TestRrForks(s)
  /\ lock = NoCpu
  /\ nextpid <= MaxPid
  /\ \E q \in Slots : state[q] = UNUSED
  /\ LET np == Min({q \in Slots : state[q] = UNUSED})
     IN /\ state' = [state EXCEPT ![np] = EMBRYO]
        /\ pid' = [pid EXCEPT ![np] = nextpid]
        /\ createtime' = [createtime EXCEPT ![np] = ticks]
        /\ priority' = [priority EXCEPT ![np] = DefaultPriority]
        /\ estimated_burst' = [estimated_burst EXCEPT ![np] = DefaultBurst]
        /\ pc' = [pc EXCEPT ![np] = "forkret", ![s] = "fork"]
        /\ child' = [child EXCEPT ![s] = np]
        /\ runtime' = [runtime EXCEPT ![np] = 0]
        /\ exittime' = [exittime EXCEPT ![np] = 0]
        /\ rrchild' = [rrchild EXCEPT ![np] = NoProc]
  /\ nextpid' = nextpid + 1
  /\ UNCHANGED <<parent, killed, chan, ticks, current_scheduler, lock,
                 cpuproc, rrpos>>
  /\ UNCHANGED <<tickslock, intick, wtime, ticks0, sleepn>>
  /\ UNCHANGED <<rrn, rri>>

\* kalloc() fails in allocproc(), or copyuvm() fails in fork(): the slot
\* goes back to UNUSED, without the lock, and fork() returns -1.
ForkFail(s) ==
  /\ Running(s)
  /\ pc[s] = "fork"
  /\ state' = [state EXCEPT ![child[s]] = UNUSED]
  /\ pc' = [pc EXCEPT ![s] = "user"]
  /\ child' = [child EXCEPT ![s] = NoProc]
  /\ UNCHANGED <<pid, parent, killed, chan, createtime, priority,
                 estimated_burst, nextpid, ticks, current_scheduler, lock,
                 cpuproc, rrpos>>
  /\ UNCHANGED timevars
  /\ rrn' = [rrn EXCEPT ![s] = 0]
  /\ rri' = [rri EXCEPT ![s] = 0]
  /\ UNCHANGED rrchild

\* The rest of fork(): np->parent = curproc, then under ptable.lock
\* np->state = RUNNABLE; returns the child's pid.
ForkCommit(s) ==
  /\ Running(s)
  /\ pc[s] = "fork"
  /\ lock = NoCpu
  /\ parent' = [parent EXCEPT ![child[s]] = s]
  /\ state' = [state EXCEPT ![child[s]] = RUNNABLE]
  /\ ReturnTo(s)
  /\ rrchild' = [rrchild EXCEPT ![child[s]] = IF rrn[s] = 0 THEN NoProc ELSE s]
  /\ child' = [child EXCEPT ![s] = NoProc]
  /\ UNCHANGED <<pid, killed, chan, createtime, priority, estimated_burst,
                 nextpid, ticks, current_scheduler, lock, cpuproc, rrpos>>
  /\ UNCHANGED timevars
  /\ UNCHANGED rrn

\* wakeup1(chan): every SLEEPING slot on one of the channels in `chans`
\* becomes RUNNABLE.
Wakeup1(st, chans) ==
  [q \in Slots |-> IF st[q] = SLEEPING /\ chan[q] \in chans
                   THEN RUNNABLE ELSE st[q]]

\* Mutant: exit() without wakeup1(initproc) for a ZOMBIE child it hands on.
ExitNoInitWakeup(s) ==
  /\ InUser(s)
  /\ s /= InitSlot
  /\ lock = NoCpu
  /\ LET kids == {q \in Slots : parent[q] = s}
     IN /\ parent' = [q \in Slots |-> IF q \in kids THEN InitSlot ELSE parent[q]]
        /\ state' = [Wakeup1(state, {parent[s]}) EXCEPT ![s] = ZOMBIE]
  /\ pc' = [pc EXCEPT ![s] = "zombie"]
  /\ lock' = CpuOf(s)
  /\ exittime' = [exittime EXCEPT ![s] = ticks]
  /\ UNCHANGED <<tickslock, intick, runtime, wtime, ticks0, sleepn>>
  /\ UNCHANGED <<pid, killed, chan, createtime, priority, estimated_burst,
                 child, nextpid, ticks, current_scheduler, cpuproc, rrpos>>
  /\ UNCHANGED trrvars

\* Mutant: exit() without the loop that passes children to initproc.
ExitNoReparent(s) ==
  /\ InUser(s)
  /\ s /= InitSlot
  /\ lock = NoCpu
  /\ state' = [Wakeup1(state, {parent[s]}) EXCEPT ![s] = ZOMBIE]
  /\ pc' = [pc EXCEPT ![s] = "zombie"]
  /\ lock' = CpuOf(s)
  /\ exittime' = [exittime EXCEPT ![s] = ticks]
  /\ UNCHANGED <<tickslock, intick, runtime, wtime, ticks0, sleepn>>
  /\ UNCHANGED <<parent, pid, killed, chan, createtime, priority,
                 estimated_burst, child, nextpid, ticks, current_scheduler,
                 cpuproc, rrpos>>
  /\ UNCHANGED trrvars

\* Mutant: exit() without curproc->exittime = ticks.
ExitNoExitTime(s) ==
  /\ InUser(s)
  /\ s /= InitSlot
  /\ lock = NoCpu
  /\ LET kids  == {q \in Slots : parent[q] = s}
         woken == {parent[s]} \cup
                    (IF \E q \in kids : state[q] = ZOMBIE
                     THEN {InitSlot} ELSE {})
     IN /\ parent' = [q \in Slots |-> IF q \in kids THEN InitSlot ELSE parent[q]]
        /\ state' = [Wakeup1(state, woken) EXCEPT ![s] = ZOMBIE]
  /\ pc' = [pc EXCEPT ![s] = "zombie"]
  /\ lock' = CpuOf(s)
  /\ UNCHANGED <<pid, killed, chan, createtime, priority, estimated_burst,
                 child, nextpid, ticks, current_scheduler, cpuproc, rrpos>>
  /\ UNCHANGED timevars
  /\ UNCHANGED trrvars

\* exit() of a process other than initproc (which panics).  Closing files
\* and the cwd comes first and touches nothing modelled here.  Under
\* ptable.lock: wake the parent, pass the children to initproc (waking
\* initproc if one of them is a ZOMBIE), record exittime, become ZOMBIE
\* and sched(), which hands the lock to the scheduler thread.
Exit(s) ==
  /\ InUser(s)
  /\ s /= InitSlot
  /\ lock = NoCpu
  /\ LET kids  == {q \in Slots : parent[q] = s}
         woken == {parent[s]} \cup
                    (IF \E q \in kids : state[q] = ZOMBIE
                     THEN {InitSlot} ELSE {})
     IN /\ parent' = [q \in Slots |-> IF q \in kids THEN InitSlot ELSE parent[q]]
        /\ state' = [Wakeup1(state, woken) EXCEPT ![s] = ZOMBIE]
  /\ pc' = [pc EXCEPT ![s] = "zombie"]
  /\ lock' = CpuOf(s)
  /\ exittime' = [exittime EXCEPT ![s] = ticks]
  /\ UNCHANGED <<tickslock, intick, runtime, wtime, ticks0, sleepn>>
  /\ UNCHANGED <<pid, killed, chan, createtime, priority, estimated_burst,
                 child, nextpid, ticks, current_scheduler, cpuproc, rrpos>>
  /\ UNCHANGED trrvars

\* A killed initproc in user space: trap.c calls exit(), whose first test
\* is curproc == initproc: panic("init exiting") disables interrupts and
\* spins in for(;;) on initproc's CPU, releasing nothing.
InitExit ==
  /\ InUser(InitSlot)
  /\ killed[InitSlot]
  /\ pc' = [pc EXCEPT ![InitSlot] = "panic"]
  /\ UNCHANGED <<state, pid, parent, killed, chan, createtime, priority,
                 estimated_burst, child, nextpid, ticks, current_scheduler,
                 lock, cpuproc, rrpos>>
  /\ UNCHANGED timevars
  /\ UNCHANGED trrvars

\* CPU c spins in panic() with interrupts off.
Halted(c) == cpuproc[c] \in Slots /\ pc[cpuproc[c]] = "panic"

\* The for(;;) of panic(): a halted CPU steps without changing anything.
PanicSpin == \E c \in Cpus : Halted(c) /\ UNCHANGED vars

\* yield(), from the yield() system call or from a timer interrupt in
\* user mode (trap.c): RUNNABLE under ptable.lock, then sched().
Yield(s) ==
  /\ Syscall(s)
  /\ lock = NoCpu
  /\ state' = [state EXCEPT ![s] = RUNNABLE]
  /\ pc' = [pc EXCEPT ![s] = "yield"]
  /\ lock' = CpuOf(s)
  /\ UNCHANGED <<pid, parent, killed, chan, createtime, priority,
                 estimated_burst, child, nextpid, ticks, current_scheduler,
                 cpuproc, rrpos>>
  /\ UNCHANGED timevars
  /\ UNCHANGED trrvars

\* kill(k): the first slot in table order whose p->pid equals k, whatever
\* its state, gets killed = 1 and is woken if SLEEPING; kill() returns 0.
\* Without such a slot kill() returns -1 and changes nothing.
Kill(s, k) ==
  /\ Syscall(s)
  /\ lock = NoCpu
  /\ \E q \in Slots : pid[q] = k
  /\ LET t == Min({q \in Slots : pid[q] = k})
     IN /\ killed' = [killed EXCEPT ![t] = TRUE]
        /\ state' = IF state[t] = SLEEPING
                    THEN [state EXCEPT ![t] = RUNNABLE] ELSE state
  /\ UNCHANGED <<pid, parent, chan, createtime, priority, estimated_burst,
                 pc, child, nextpid, ticks, current_scheduler, lock,
                 cpuproc, rrpos>>
  /\ UNCHANGED timevars
  /\ UNCHANGED trrvars

-----------------------------------------------------------------------------
(***************************************************************************)
(* Scheduling configuration system calls (sysproc.c) and the timer.        *)
(***************************************************************************)

\* sys_setschedpolicy(): values outside SCHED_FCFS..SCHED_RR return -1;
\* a valid one is stored under ptable.lock.
SetSchedPolicy(s, policy) ==
  /\ Syscall(s)
  /\ lock = NoCpu
  /\ policy \in SCHED_FCFS..SCHED_RR
  /\ current_scheduler' = policy
  /\ UNCHANGED <<state, pid, parent, killed, chan, createtime, priority,
                 estimated_burst, pc, child, nextpid, ticks, lock, cpuproc,
                 rrpos>>
  /\ UNCHANGED timevars
  /\ UNCHANGED trrvars

\* sys_set_priority(): any value, written without ptable.lock.
SetPriority(s, v) ==
  /\ Syscall(s)
  /\ priority' = [priority EXCEPT ![s] = v]
  /\ UNCHANGED <<state, pid, parent, killed, chan, createtime,
                 estimated_burst, pc, child, nextpid, ticks, current_scheduler,
                 lock, cpuproc, rrpos>>
  /\ UNCHANGED timevars
  /\ UNCHANGED trrvars

\* Mutant: sys_set_burst_estimate() without the check for negative values.
SetBurstEstimateUnchecked(s, v) ==
  /\ Syscall(s)
  /\ estimated_burst' = [estimated_burst EXCEPT ![s] = v]
  /\ UNCHANGED <<state, pid, parent, killed, chan, createtime, priority,
                 pc, child, nextpid, ticks, current_scheduler, lock, cpuproc,
                 rrpos>>
  /\ UNCHANGED timevars
  /\ UNCHANGED trrvars

\* sys_set_burst_estimate(): negative values return -1; written without
\* ptable.lock.
SetBurstEstimate(s, v) ==
  /\ Syscall(s)
  /\ v >= 0
  /\ estimated_burst' = [estimated_burst EXCEPT ![s] = v]
  /\ UNCHANGED <<state, pid, parent, killed, chan, createtime, priority,
                 pc, child, nextpid, ticks, current_scheduler, lock, cpuproc,
                 rrpos>>
  /\ UNCHANGED timevars
  /\ UNCHANGED trrvars

-----------------------------------------------------------------------------
(***************************************************************************)
(* sys_sleep(), sys_get_process_lifetime() and the clock interrupt: the    *)
(* code that holds tickslock.  Holding a spinlock disables interrupts on   *)
(* the holder's CPU.                                                       *)
(***************************************************************************)

\* sys_sleep(n): acquire(&tickslock), ticks0 = ticks.  The bound MaxTicks
\* admits only sleeps that can end before the last tick.
SysSleep(s, n) ==
  /\ Syscall(s)
  /\ tickslock = NoCpu
  /\ ticks + n <= MaxTicks
  /\ tickslock' = CpuOf(s)
  /\ ticks0' = [ticks0 EXCEPT ![s] = ticks]
  /\ sleepn' = [sleepn EXCEPT ![s] = n]
  /\ pc' = [pc EXCEPT ![s] = "ticks"]
  /\ UNCHANGED <<state, pid, parent, killed, chan, createtime, priority,
                 estimated_burst, child, nextpid, ticks, current_scheduler,
                 lock, cpuproc, rrpos, intick, runtime, exittime, wtime>>
  /\ UNCHANGED trrvars

\* Mutant: the loop test with <=.
SleepMoreInclusive(s) ==
  ~UnsignedLess(sleepn[s], ticks - ticks0[s])

\* The test of the while loop of sys_sleep(): ticks - ticks0 < n, the
\* left side a uint and n converted to uint.
SleepMore(s) == UnsignedLess(ticks - ticks0[s], sleepn[s])

\* One test of the loop of sys_sleep(), tickslock held: return 0 once n
\* ticks have passed, -1 if killed, otherwise sleep(&ticks, &tickslock):
\* acquire ptable.lock, release tickslock, SLEEPING on &ticks, sched().
SleepLoop(s) ==
  /\ Running(s)
  /\ pc[s] = "ticks"
  /\ tickslock = CpuOf(s)
  /\ \/ /\ ~SleepMore(s) \/ killed[s]
        /\ tickslock' = NoCpu
        /\ pc' = [pc EXCEPT ![s] = "user"]
        /\ UNCHANGED <<state, chan, lock>>
     \/ /\ SleepMore(s)
        /\ ~killed[s]
        /\ lock = NoCpu
        /\ tickslock' = NoCpu
        /\ chan' = [chan EXCEPT ![s] = TicksChan]
        /\ state' = [state EXCEPT ![s] = SLEEPING]
        /\ pc' = [pc EXCEPT ![s] = "sleep"]
        /\ lock' = CpuOf(s)
  /\ UNCHANGED <<pid, parent, killed, createtime, priority, estimated_burst,
                 child, nextpid, ticks, current_scheduler, cpuproc, rrpos,
                 intick, runtime, exittime, wtime, ticks0, sleepn>>
  /\ UNCHANGED trrvars

\* Back in sleep(&ticks, &tickslock) after sched(): p->chan = 0 and
\* release(&ptable.lock).
SleepResume(s) ==
  /\ Resumes(s, "sleep")
  /\ chan' = [chan EXCEPT ![s] = NoChan]
  /\ lock' = NoCpu
  /\ pc' = [pc EXCEPT ![s] = "reacquire"]
  /\ UNCHANGED <<state, pid, parent, killed, createtime, priority,
                 estimated_burst, child, nextpid, ticks, current_scheduler,
                 cpuproc, rrpos>>
  /\ UNCHANGED timevars
  /\ UNCHANGED trrvars

\* The end of sleep(): acquire(&tickslock), back to the loop test.
SleepReacquire(s) ==
  /\ Running(s)
  /\ pc[s] = "reacquire"
  /\ tickslock = NoCpu
  /\ tickslock' = CpuOf(s)
  /\ pc' = [pc EXCEPT ![s] = "ticks"]
  /\ UNCHANGED <<state, pid, parent, killed, chan, createtime, priority,
                 estimated_burst, child, nextpid, ticks, current_scheduler,
                 lock, cpuproc, rrpos, intick, runtime, exittime, wtime,
                 ticks0, sleepn>>
  /\ UNCHANGED trrvars

\* Mutant: the scan of get_process_lifetime() passes over ZOMBIE slots.
LifetimeFindsUnexited(k) ==
  \E q \in Slots : Live(q) /\ state[q] /= ZOMBIE /\ pid[q] = k

\* The test of the scan of sys_get_process_lifetime(): some slot that is
\* not UNUSED has pid k.
LifetimeFinds(k) == \E q \in Slots : Live(q) /\ pid[q] = k

\* sys_get_process_lifetime(k): acquire(&ptable.lock) and find the first
\* slot not UNUSED with pid k; keep ptable.lock and go on to take
\* tickslock.  When no slot matches it releases the lock and returns -1,
\* a step that changes nothing.
LifetimeScan(s, k) ==
  /\ Syscall(s)
  /\ lock = NoCpu
  /\ LifetimeFinds(k)
  /\ lock' = CpuOf(s)
  /\ child' = [child EXCEPT ![s] = Min({q \in Slots : Live(q) /\ pid[q] = k})]
  /\ pc' = [pc EXCEPT ![s] = "lifetime"]
  /\ UNCHANGED <<state, pid, parent, killed, chan, createtime, priority,
                 estimated_burst, nextpid, ticks, current_scheduler, cpuproc,
                 rrpos>>
  /\ UNCHANGED timevars
  /\ UNCHANGED trrvars

\* The rest of it, with ptable.lock held: acquire(&tickslock), read
\* ticks - p->createtime, release tickslock and ptable.lock, return.
LifetimeRead(s) ==
  /\ Running(s)
  /\ pc[s] = "lifetime"
  /\ tickslock = NoCpu
  /\ lock' = NoCpu
  /\ child' = [child EXCEPT ![s] = NoProc]
  /\ pc' = [pc EXCEPT ![s] = "user"]
  /\ UNCHANGED <<state, pid, parent, killed, chan, createtime, priority,
                 estimated_burst, nextpid, ticks, current_scheduler, cpuproc,
                 rrpos>>
  /\ UNCHANGED timevars
  /\ UNCHANGED trrvars

\* sys_test_rr(n): n clamped to 1..8 (argint() fails only on a bad user
\* stack, and the default 3 is one more value of TestRrArgs), start_time
\* read under tickslock, then the fork loop.  The banner is cprintf().
TestRr(s, n) ==
  /\ Syscall(s)
  /\ tickslock = NoCpu
  /\ rrn' = [rrn EXCEPT ![s] = IF n < 1 THEN 1 ELSE IF n > 8 THEN 8 ELSE n]
  /\ rri' = [rri EXCEPT ![s] = 0]
  /\ pc' = [pc EXCEPT ![s] = "testrr"]
  /\ UNCHANGED <<state, pid, parent, killed, chan, createtime, priority,
                 estimated_burst, child, nextpid, ticks, current_scheduler,
                 lock, cpuproc, rrpos, rrchild>>
  /\ UNCHANGED timevars

\* A fork() of the loop in which allocproc() finds no UNUSED slot returns
\* -1, and sys_test_rr() returns -1 at once, leaving the children it has
\* forked to run and be waited for by someone else.  Past the bound
\* MaxPid the model takes the same path (allocproc() also returns 0 when
\* kalloc() fails).
TestRrForkFails(s) ==
  /\ TestRrForks(s)
  /\ lock = NoCpu
  /\ nextpid > MaxPid \/ \A q \in Slots : state[q] /= UNUSED
  /\ pc' = [pc EXCEPT ![s] = "user"]
  /\ rrn' = [rrn EXCEPT ![s] = 0]
  /\ rri' = [rri EXCEPT ![s] = 0]
  /\ UNCHANGED <<state, pid, parent, killed, chan, createtime, priority,
                 estimated_burst, child, nextpid, ticks, current_scheduler,
                 lock, cpuproc, rrpos, rrchild>>
  /\ UNCHANGED timevars

\* After n wait()s: elapsed time read under tickslock, the report printed,
\* and sys_test_rr() returns 0.
TestRrDone(s) ==
  /\ Running(s)
  /\ pc[s] = "testrr"
  /\ rrn[s] /= 0
  /\ rri[s] = 2 * rrn[s]
  /\ tickslock = NoCpu
  /\ pc' = [pc EXCEPT ![s] = "user"]
  /\ rrn' = [rrn EXCEPT ![s] = 0]
  /\ rri' = [rri EXCEPT ![s] = 0]
  /\ UNCHANGED <<state, pid, parent, killed, chan, createtime, priority,
                 estimated_burst, child, nextpid, ticks, current_scheduler,
                 lock, cpuproc, rrpos, rrchild>>
  /\ UNCHANGED timevars

\* The clock interrupt on TimerCpu (trap.c), when that CPU holds no
\* spinlock: acquire(&tickslock), ticks++, and the RUNNING processes are
\* charged one tick of runtime.
TickStart ==
  /\ ticks < MaxTicks
  /\ ~Halted(TimerCpu)
  /\ ~intick
  /\ tickslock = NoCpu
  /\ lock /= TimerCpu
  /\ tickslock' = TimerCpu
  /\ intick' = TRUE
  /\ ticks' = ticks + 1
  /\ runtime' = [q \in Slots |-> IF state[q] = RUNNING
                                 THEN runtime[q] + 1 ELSE runtime[q]]
  /\ UNCHANGED <<state, pid, parent, killed, chan, createtime, priority,
                 estimated_burst, pc, child, nextpid, current_scheduler, lock,
                 cpuproc, rrpos, exittime, wtime, ticks0, sleepn>>
  /\ UNCHANGED trrvars

\* The rest of the handler: wakeup(&ticks), which takes ptable.lock, then
\* release(&tickslock).
TickWakeup ==
  /\ intick
  /\ lock = NoCpu
  /\ state' = Wakeup1(state, {TicksChan})
  /\ tickslock' = NoCpu
  /\ intick' = FALSE
  /\ UNCHANGED <<pid, parent, killed, chan, createtime, priority,
                 estimated_burst, pc, child, nextpid, ticks, current_scheduler,
                 lock, cpuproc, rrpos, runtime, exittime, wtime, ticks0, sleepn>>
  /\ UNCHANGED trrvars

-----------------------------------------------------------------------------
(***************************************************************************)
(* get_uncle_count(k), under ptable.lock, as the value it returns.         *)
(***************************************************************************)

\* The slot the first loop of get_uncle_count() finds for pid k, or NoProc.
FindPid(k) ==
  LET found == {q \in Slots : Live(q) /\ pid[q] = k}
  IN IF found = {} THEN NoProc ELSE Min(found)

\* -1 when the pid is not found or its parent pointer is null; 0 when the
\* parent's parent is null; otherwise the slots in use whose parent is the
\* grandparent, the parent excluded.
UncleCount(k) ==
  LET par == IF FindPid(k) = NoProc THEN NoProc ELSE parent[FindPid(k)]
      gp  == IF par = NoProc THEN NoProc ELSE parent[par]
  IN IF par = NoProc THEN -1
     ELSE IF gp = NoProc THEN 0
     ELSE Cardinality({q \in Slots : Live(q) /\ parent[q] = gp /\ q /= par})

\* The rule of spec.md 4.3: "not found" only when the pid does not
\* resolve; 0 when the parent or the grandparent is absent.
SpecUncleCount(k) ==
  LET p   == FindPid(k)
      par == IF p = NoProc THEN NoProc ELSE parent[p]
      gp  == IF par = NoProc THEN NoProc ELSE parent[par]
  IN IF p = NoProc THEN -1
     ELSE IF gp = NoProc THEN 0
     ELSE Cardinality({q \in Slots : Live(q) /\ parent[q] = gp /\ q /= par})

-----------------------------------------------------------------------------
Next ==
  \/ \E c \in Cpus : Schedule(c) \/ SchedContinue(c)
  \/ \E s \in Slots :
       \/ ForkRet(s) \/ YieldRet(s) \/ WaitResume(s)
       \/ Wait(s) \/ Waitx(s) \/ ForkAlloc(s) \/ ForkFail(s) \/ ForkCommit(s)
       \/ Exit(s) \/ Yield(s)
       \/ SleepLoop(s) \/ SleepResume(s) \/ SleepReacquire(s) \/ LifetimeRead(s)
       \/ \E n \in SleepArgs : SysSleep(s, n)
       \/ \E k \in LifetimeArgs : LifetimeScan(s, k)
       \/ \E k \in KillArgs : Kill(s, k)
       \/ \E n \in TestRrArgs : TestRr(s, n)
       \/ TestRrForkFails(s) \/ TestRrDone(s)
       \/ \E pol \in PolicyArgs : SetSchedPolicy(s, pol)
       \/ \E v \in Priorities : SetPriority(s, v)
       \/ \E v \in Bursts : SetBurstEstimate(s, v)
  \/ TickStart \/ TickWakeup
  \/ InitExit \/ PanicSpin

Spec == Init /\ [][Next]_vars

\* A step of the loops of sys_test_rr(), kernel code that goes on by
\* itself: a fork() or wait() it calls, its failure return or its end.
TestRrStep(s) ==
  \/ TestRrForks(s) /\ ForkAlloc(s)
  \/ TestRrWaits(s) /\ Wait(s)
  \/ TestRrForkFails(s) \/ TestRrDone(s)

\* The fairness the code justifies on one CPU.  Weak fairness: the
\* scheduler loop runs with interrupts on and takes ptable.lock whenever
\* no process holds it; kernel code after a switch back in runs to its
\* next switch or return; fork() and the loops of sys_test_rr() go on.
\* Strong fairness for the timer: a process that is in user space again
\* and again is eventually interrupted there by its CPU's timer, after
\* which trap.c calls yield() (or exit() if killed).  System calls get
\* no fairness: a process may stay in user space computing.
Fairness ==
  /\ \A c \in Cpus : WF_vars(Schedule(c)) /\ WF_vars(SchedContinue(c))
  /\ \A s \in Slots :
       /\ WF_vars(ForkRet(s)) /\ WF_vars(YieldRet(s)) /\ WF_vars(WaitResume(s))
       /\ WF_vars(ForkFail(s) \/ ForkCommit(s))
       /\ WF_vars(SleepLoop(s)) /\ WF_vars(SleepResume(s))
       /\ WF_vars(SleepReacquire(s)) /\ WF_vars(LifetimeRead(s))
       /\ SF_vars(Yield(s) \/ Exit(s))
       /\ WF_vars(TestRrStep(s))
  /\ WF_vars(TickStart) /\ WF_vars(TickWakeup)

LiveSpec == Spec /\ Fairness

-----------------------------------------------------------------------------
(***************************************************************************)
(* Properties.                                                             *)
(***************************************************************************)

TypeOK ==
  /\ state \in [Slots -> States]
  /\ pid \in [Slots -> 0..MaxPid]
  /\ parent \in [Slots -> Slots \cup {NoProc}]
  /\ killed \in [Slots -> BOOLEAN]
  /\ chan \in [Slots -> Slots \cup {NoChan, TicksChan}]
  /\ createtime \in [Slots -> 0..MaxTicks]
  /\ priority \in [Slots -> Priorities \cup {0, DefaultPriority}]
  /\ estimated_burst \in [Slots -> Nat]
  /\ pc \in [Slots -> PCs]
  /\ child \in [Slots -> Slots \cup {NoProc}]
  /\ nextpid \in 2..(MaxPid + 1)
  /\ ticks \in 0..MaxTicks
  /\ current_scheduler \in SCHED_FCFS..SCHED_RR
  /\ lock \in Cpus \cup {NoCpu}
  /\ cpuproc \in [Cpus -> Slots \cup {NoProc}]
  /\ rrpos \in [Cpus -> 0..NPROC]
  /\ tickslock \in Cpus \cup {NoCpu}
  /\ intick \in BOOLEAN
  /\ runtime \in [Slots -> 0..MaxTicks]
  /\ exittime \in [Slots -> 0..MaxTicks]
  /\ wtime \in [Slots -> Int]
  /\ ticks0 \in [Slots -> 0..MaxTicks]
  /\ sleepn \in [Slots -> SleepArgs \cup {0}]
  /\ rrn \in [Slots -> 0..8]
  /\ rri \in [Slots -> 0..16]
  /\ rrchild \in [Slots -> Slots \cup {NoProc}]

\* No lost wakeup between wait() and exit()/kill(): a process asleep in
\* wait() has no ZOMBIE child and has not been killed.  exit() wakes the
\* parent, wakes initproc when it hands it a ZOMBIE child, and kill()
\* wakes a sleeper; all three, and wait()'s check before sleep(), happen
\* under ptable.lock.
NoLostWakeup ==
  \A s \in Slots :
    state[s] = SLEEPING /\ chan[s] = s =>
      /\ ~killed[s]
      /\ ~\E q \in Slots : parent[q] = s /\ state[q] = ZOMBIE

\* One kernel thread per CPU: no slot is c->proc of two CPUs, and every
\* RUNNING slot is c->proc of some CPU.  Depends on the scheduler clearing
\* c->proc after every swtch() back from a process and on the lock being
\* held from state change to swtch().
ExclusiveRunning ==
  /\ \A c, d \in Cpus :
       c /= d /\ cpuproc[c] /= NoProc => cpuproc[c] /= cpuproc[d]
  /\ \A s \in Slots : state[s] = RUNNING => \E c \in Cpus : cpuproc[c] = s

\* Slots in use carry pairwise distinct pids (allocproc()'s nextpid++,
\* wait() clearing p->pid).
PidsUnique ==
  \A s, t \in Slots :
    s /= t /\ Live(s) /\ Live(t) => pid[s] /= pid[t]

\* Every process but initproc that fork() has published has a parent that
\* is a live, non-ZOMBIE process: exit() hands its children to initproc
\* before it becomes a ZOMBIE, and wait() clears parent when it frees a
\* slot, so no parent link dangles.
ParentsLive ==
  \A q \in Slots \ {InitSlot} :
    state[q] \notin {UNUSED, EMBRYO} =>
      /\ parent[q] \in Slots
      /\ state[parent[q]] \notin {UNUSED, EMBRYO, ZOMBIE}

\* The process table implements the lifecycle of spec.md 3 and 4.1 that
\* Lifecycle states: every step of the kernel threads, the schedulers and
\* the timer changes slot states and parent links only as one of its
\* steps (allocate, abandon, publish a child of the running caller, run,
\* preempt, block, wake sleepers, exit with reparenting to initproc, reap
\* a ZOMBIE child of the running parent), or leaves them alone.
Life == INSTANCE Lifecycle WITH Procs <- Slots, Root <- InitSlot, None <- NoProc

LifecycleRefined == Life!Spec

\* A selection by the SJF or BJF branch of scheduler() picks a process the
\* rules of spec.md 4.2 allow among the RUNNABLE ones: SJF the first one
\* of least estimated_burst, BJF one of least priority and, among those,
\* least createtime.  (Round Robin continuations set rrpos and are not
\* selections.)
Selected(c) ==
  cpuproc'[c] /= cpuproc[c] /\ cpuproc'[c] /= NoProc /\ rrpos'[c] = 0

PolicyRespected ==
  [][\A c \in Cpus :
       Selected(c) =>
         /\ current_scheduler = SCHED_SJF =>
              cpuproc'[c] \in SjfAllowed(Runnable, estimated_burst)
         /\ current_scheduler = SCHED_BJF =>
              cpuproc'[c] \in BjfAllowed(Runnable, createtime, priority)]_vars

\* FCFS runs processes in the order they were created (spec.md 4.2 and
\* section 8; fcfs_test.c expects its children to finish in fork order):
\* an FCFS selection never picks a process while one created before it,
\* i.e. with a smaller pid, is RUNNABLE.
FcfsArrivalOrder ==
  [][\A c \in Cpus :
       Selected(c) /\ current_scheduler = SCHED_FCFS =>
         \A q \in Runnable : pid[q] >= pid[cpuproc'[c]]]_vars

\* A process that allocproc() hands out is never already killed (spec.md 3:
\* a reclaimed slot keeps no state of its previous use; spec.md 7: kill()
\* of an unknown pid has no effect).
BornUnkilled ==
  [][\A q \in Slots :
       state[q] = UNUSED /\ state'[q] = EMBRYO => ~killed'[q]]_vars

\* No lost tick: a process asleep in sys_sleep() on &ticks still has
\* ticks to wait and has not been killed, unless the timer is between
\* ticks++ and its wakeup(&ticks).  sys_sleep() tests under tickslock and
\* takes ptable.lock before it lets tickslock go; the timer increments
\* under tickslock and wakes under ptable.lock; kill() wakes sleepers.
NoLostTick ==
  \A s \in Slots :
    state[s] = SLEEPING /\ chan[s] = TicksChan /\ ~intick =>
      /\ ~killed[s]
      /\ UnsignedLess(ticks - ticks0[s], sleepn[s])

\* waitx() never reports a negative wait time: for the child it reaps,
\* runtime (charged by the timer while RUNNING) is at most exittime -
\* createtime, which needs allocproc() to reset runtime and exittime in a
\* reused slot and exit() to record exittime (spec.md 4.1, Waitx).
WaitTimeNonNegative ==
  \A s \in Slots : wtime[s] >= 0

\* Lock order between ptable.lock and tickslock: no CPU holds ptable.lock
\* and waits for tickslock (get_process_lifetime()) while the holder of
\* tickslock waits for ptable.lock (the timer's wakeup(&ticks), or
\* sys_sleep() entering sleep()).  Such a state is a deadlock of both.
WaitsForPtableLock(c) ==
  \/ Interrupted(c)
  \/ \E s \in Slots : cpuproc[c] = s /\ pc[s] = "ticks" /\ state[s] = RUNNING
                      /\ SleepMore(s) /\ ~killed[s]

NoLockOrderDeadlock ==
  ~\E c, d \in Cpus :
     /\ lock = c /\ cpuproc[c] \in Slots /\ pc[cpuproc[c]] = "lifetime"
     /\ tickslock = d /\ WaitsForPtableLock(d)

\* No starvation under Round Robin (spec.md 4.2: each RUNNABLE process in
\* turn): a RUNNABLE process eventually runs.  The sweep of scheduler()
\* goes on from its loop variable after each switch back, and a new
\* sweep starts at the first slot, so every RUNNABLE slot is reached.
RrNoStarvation ==
  \A s \in Slots : state[s] = RUNNABLE ~> state[s] = RUNNING

\* kill() takes effect (spec.md 4.1, 7): a killed process other than
\* initproc eventually exits.  It needs trap.c's exit() for a killed
\* process in user space, wait() returning when killed instead of
\* sleeping again, sys_sleep()'s killed test, kill() waking a sleeper,
\* and the scheduler running the process to its next checkpoint.
KilledExits ==
  \A s \in Slots \ {InitSlot} : killed[s] ~> state[s] \in {ZOMBIE, UNUSED}

\* sys_test_rr() returns 0 ("All processes completed") only once every
\* process it forked has finished: the comment of its wait loop says the
\* parent waits for all children, and the children are to exit() in the
\* kernel branch of the loop.  A child forked there returns to user space
\* instead (fork() copies the trap frame), and wait() reaps any child.
TestRrWaitsForChildren ==
  [][\A s \in Slots :
       pc[s] = "testrr" /\ pc'[s] = "user" /\ rri[s] = 2 * rrn[s] =>
         \A q \in Slots : rrchild[q] = s => state[q] \in {ZOMBIE, UNUSED}]_vars

\* exit() is never called on initproc: spec.md 4.1 and 7 make exit of the
\* root process a fatal error of the surrounding system.  kill() accepts
\* every pid and trap.c turns p->killed into exit() at the next trap.
RootNeverExits == pc[InitSlot] /= "panic"

\* get_uncle_count() answers as spec.md 4.3 says for every pid: -1 only
\* for a pid no process has, 0 for a process without a grandparent.
UncleCountAsSpecified ==
  \A k \in 1..MaxPid : UncleCount(k) = SpecUncleCount(k)


=============================================================================
