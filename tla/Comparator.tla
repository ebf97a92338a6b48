----------------------------- MODULE Comparator -----------------------------
(***************************************************************************)
(* The user program src/scheduling_comparator.c run on the kernel of Proc: *)
(* initproc forks the comparator in slot Tester; main() computes its seed *)
(* with find_digit_root(uptime()), then under each of the five policies   *)
(* forks one child, sleeps, measures the child with                      *)
(* get_process_lifetime(pid), and collects it with waitx().  The child    *)
(* measures itself and exec()s the program under test, which runs and     *)
(* exits.  The digit-root loop is the DigitRoot module, instantiated on   *)
(* the comparator's locals.  The summary at the end picks the best       *)
(* policy from the times waitx() reported.  Calls that change no modelled *)
(* state (printf, getpid, get_uncle_count, getnumsyscalls, ps) are left   *)
(* out.                                                                    *)
(***************************************************************************)
EXTENDS SchedTest

CONSTANTS
  Uptimes,     \* values uptime() may return: (int)ticks, a uint that wraps
  CmpSleep,    \* the argument of sleep(20), scaled down with the clock
  CmpPriority, \* set_priority(10) before the BJF round
  CmpBurst     \* set_burst_estimate(50) before the SJF round

VARIABLES
  cpid,      \* pid, the value fork() returned in this round
  measured,  \* results[i].lifetime is not -1: the lifetime query found pid
  dn0,       \* the argument of find_digit_root()
  dnum,      \* its num
  droot,     \* its root
  ddone,     \* its loop has exited
  rrtime,    \* results[i].rtime, -1 until waitx() succeeds in round i
  rwtime     \* results[i].wtime, likewise

cvars == <<cpid, measured, dn0, dnum, droot, ddone, rrtime, rwtime>>
allvars == <<vars, svars, cvars>>

DR == INSTANCE DigitRoot WITH Inputs <- Uptimes, n0 <- dn0, num <- dnum,
                              root <- droot, done <- ddone

CUPCs == UPCs \cup {"seed", "seeding", "setburst", "sleep", "sleeping",
                    "life", "lifing"}

\* The locals of main() that stay fixed in a step of the comparator.
Keep == UNCHANGED <<num_children, ti, tj, completed, pids, rcompleted, rok>>

CInit ==
  /\ STInit
  /\ cpid = -1 /\ measured = FALSE
  /\ dn0 = 0 /\ dnum = 0 /\ droot = 0 /\ ddone = FALSE
  /\ rrtime = [i \in RoundIdx |-> -1] /\ rwtime = [i \in RoundIdx |-> -1]

-----------------------------------------------------------------------------
(* main(): the seed.                                                        *)

\* argc < 2: the usage message, then exit().
Usage ==
  /\ upc[Tester] = "seed"
  /\ InUser(Tester)
  /\ Go(Tester, "exit")
  /\ UNCHANGED <<vars, pol, cvars>> /\ Keep

\* seed = find_digit_root(uptime()): uptime() reads ticks under tickslock,
\* and the system call starts its loop on that value.
Seed ==
  /\ upc[Tester] = "seed"
  /\ Syscall(Tester)
  /\ \E u \in Uptimes : dn0' = u /\ dnum' = u
  /\ droot' = 0 /\ ddone' = FALSE
  /\ Go(Tester, "seeding")
  /\ UNCHANGED <<vars, pol, cpid, measured, rrtime, rwtime>> /\ Keep

\* One iteration of the loop of sys_find_digit_root(), or its exit, on
\* the comparator's CPU.
SeedLoop ==
  /\ upc[Tester] = "seeding"
  /\ Running(Tester)
  /\ DR!Next
  /\ UNCHANGED <<vars, svars, cpid, measured, rrtime, rwtime>>

\* The system call returns root, which main() only prints.
Seeded ==
  /\ upc[Tester] = "seeding"
  /\ Running(Tester)
  /\ ddone
  /\ Go(Tester, "setpolicy")
  /\ dn0' = 0 /\ dnum' = 0 /\ droot' = 0 /\ ddone' = FALSE
  /\ UNCHANGED <<vars, pol, cpid, measured, rrtime, rwtime>> /\ Keep

-----------------------------------------------------------------------------
(* main(): one round of the loop over results[].                           *)

\* setschedpolicy(results[i].policy), always valid; then set_priority(10)
\* for BJF and set_burst_estimate(50) for SJF, on the comparator itself.
CSetPolicy ==
  /\ upc[Tester] = "setpolicy"
  /\ SetSchedPolicy(Tester, PolicyOrder[pol + 1])
  /\ Go(Tester, CASE PolicyOrder[pol + 1] = SCHED_BJF -> "setprio"
                  [] PolicyOrder[pol + 1] = SCHED_SJF -> "setburst"
                  [] OTHER -> "fork")
  /\ UNCHANGED <<pol, cvars>> /\ Keep

CSetPrio ==
  /\ upc[Tester] = "setprio"
  /\ SetPriority(Tester, CmpPriority)
  /\ Go(Tester, "fork")
  /\ UNCHANGED <<pol, cvars>> /\ Keep

CSetBurst ==
  /\ upc[Tester] = "setburst"
  /\ SetBurstEstimate(Tester, CmpBurst)
  /\ Go(Tester, "fork")
  /\ UNCHANGED <<pol, cvars>> /\ Keep

CForkCall ==
  /\ upc[Tester] = "fork"
  /\ ForkAlloc(Tester)
  /\ Go(Tester, "forking")
  /\ UNCHANGED <<pol, cvars>> /\ Keep

\* fork() returns the child's pid; the child starts measuring itself.
CForked ==
  /\ upc[Tester] = "forking"
  /\ ForkCommit(Tester)
  /\ cpid' = pid[child[Tester]]
  /\ measured' = FALSE
  /\ upc' = [upc EXCEPT ![Tester] = "sleep", ![child[Tester]] = "child"]
  /\ UNCHANGED <<pol, dn0, dnum, droot, ddone, rrtime, rwtime>> /\ Keep

\* fork() fails: `continue` with the next policy.
CForkFailed ==
  /\ upc[Tester] = "forking"
  /\ ForkFail(Tester)
  /\ cpid' = -1
  /\ NextRound
  /\ UNCHANGED <<measured, dn0, dnum, droot, ddone, rrtime, rwtime>> /\ Keep

\* sleep(20): sys_sleep() takes ticks0 and goes to its loop.
CSleep ==
  /\ upc[Tester] = "sleep"
  /\ SysSleep(Tester, CmpSleep)
  /\ Go(Tester, "sleeping")
  /\ UNCHANGED <<pol, cvars>> /\ Keep

\* The loop test of sys_sleep(); when it returns, main() goes on.
CSleepLoop ==
  /\ upc[Tester] = "sleeping"
  /\ SleepLoop(Tester)
  /\ IF pc'[Tester] = "user" THEN Go(Tester, "life") ELSE UNCHANGED upc
  /\ UNCHANGED <<pol, cvars>> /\ Keep

\* results[i].lifetime = get_process_lifetime(pid): the scan finds the
\* slot and goes on under ptable.lock, or returns -1.
CLife ==
  /\ upc[Tester] = "life"
  /\ IF LifetimeFinds(cpid)
     THEN /\ LifetimeScan(Tester, cpid)
          /\ UNCHANGED measured
          /\ Go(Tester, "lifing")
     ELSE /\ Syscall(Tester) /\ lock = NoCpu
          /\ UNCHANGED vars
          /\ measured' = FALSE
          /\ Go(Tester, "waitx")
  /\ UNCHANGED <<pol, cpid, dn0, dnum, droot, ddone, rrtime, rwtime>> /\ Keep

CLifeRead ==
  /\ upc[Tester] = "lifing"
  /\ LifetimeRead(Tester)
  /\ measured' = TRUE
  /\ Go(Tester, "waitx")
  /\ UNCHANGED <<pol, cpid, dn0, dnum, droot, ddone, rrtime, rwtime>> /\ Keep

\* waitx() has returned (or slept again); the round ends either way.
CAfterWaitx ==
  IF pc'[Tester] /= "user"
  THEN Go(Tester, "inwaitx") /\ UNCHANGED pol
  ELSE NextRound

CWaitx ==
  \/ upc[Tester] = "waitx" /\ Waitx(Tester) /\ CAfterWaitx
  \/ upc[Tester] = "inwaitx" /\ WaitResume(Tester) /\ CAfterWaitx

\* waitx() returned the child's pid: results[i].wtime = wtime and
\* results[i].rtime = rtime, the reaped child's runtime (the syscall
\* counts are not modelled).  On -1 both stay -1.
RecordTimes ==
  IF Reaped /= {}
  THEN /\ rrtime' = [rrtime EXCEPT ![pol] = runtime[CHOOSE q \in Reaped : TRUE]]
       /\ rwtime' = [rwtime EXCEPT ![pol] = wtime'[Tester]]
  ELSE UNCHANGED <<rrtime, rwtime>>

CWaitxStep ==
  /\ CWaitx
  /\ RecordTimes
  /\ UNCHANGED <<cpid, measured, dn0, dnum, droot, ddone>> /\ Keep

-----------------------------------------------------------------------------
(* The summary: the loop over results[] after the rounds, which prints     *)
(* them and picks the best policy by run time and by total time.           *)

RoundSeq == [k \in 1..Len(PolicyOrder) |-> k - 1]

\* Mutant: the best-so-far test with <=, so a later policy wins a tie.
BestIdxLast(key) ==
  FoldLeft(LAMBDA b, i : IF rrtime[i] /= -1 /\ (b = -1 \/ key[i] <= key[b])
                         THEN i ELSE b,
           -1, RoundSeq)

\* best_rtime_idx or best_total_time_idx: a result with rtime != -1
\* replaces the best so far when there is none yet or its key is smaller
\* (best_rtime and best_total_time hold key[best]).
BestIdx(key) ==
  FoldLeft(LAMBDA b, i : IF rrtime[i] /= -1 /\ (b = -1 \/ key[i] < key[b])
                         THEN i ELSE b,
           -1, RoundSeq)

\* results[i].rtime, and total_time = results[i].rtime + results[i].wtime.
RunTime == rrtime
TotalTime == [i \in RoundIdx |-> rrtime[i] + rwtime[i]]

\* The reference: among the policies whose round was measured, the first
\* tested of those with the least key; -1 when none was measured.
FirstBest(key) ==
  LET ran == {i \in RoundIdx : rrtime[i] /= -1}
  IN IF ran = {} THEN -1
     ELSE Min({i \in ran : \A j \in ran : key[i] <= key[j]})

-----------------------------------------------------------------------------
\* The clock: a tick is taken while a process sleeps on &ticks, so the
\* times of a round come from ticks during the comparator's sleep (see
\* the README for why the other ticks are left out).
CTick ==
  \/ TickStart /\ \E q \in Slots : state[q] = SLEEPING /\ chan[q] = TicksChan
  \/ TickWakeup

ComparatorStep ==
  \/ Usage \/ Seed \/ CSetPolicy \/ CSetPrio \/ CSetBurst \/ CForkCall \/ CSleep
  \/ CLife \/ CWaitxStep \/ SeedLoop \/ Seeded
  \/ TesterExit /\ UNCHANGED cvars

CUserStep(s) ==
  \/ s = InitSlot /\ (InitFork \/ InitWait \/ InitPanic) /\ UNCHANGED cvars
  \/ s = Tester /\ ComparatorStep
  \/ (ChildLifetime(s) \/ ChildExit(s)) /\ UNCHANGED cvars

CKernelReturn(s) ==
  \/ s = InitSlot /\ InitForkedAt("seed") /\ UNCHANGED cvars
  \/ s = Tester /\ (CForked \/ CForkFailed \/ CSleepLoop \/ CLifeRead)
  \/ s = Tester /\ (SleepResume(s) \/ SleepReacquire(s))
     /\ UNCHANGED <<svars, cvars>>
  \/ ChildLifeRead(s) /\ UNCHANGED cvars

CNext ==
  \/ \E c \in Cpus : (Schedule(c) \/ SchedContinue(c)) /\ UNCHANGED <<svars, cvars>>
  \/ PanicSpin /\ UNCHANGED <<svars, cvars>>
  \/ CTick /\ UNCHANGED <<svars, cvars>>
  \/ \E s \in Slots : KernelStep(s) /\ UNCHANGED cvars
  \/ \E s \in Slots : CUserStep(s) \/ CKernelReturn(s)

CSpec == CInit /\ [][CNext]_allvars

\* The fairness of STFairness, and the timer interrupt: its tick and its
\* wakeup(&ticks) are weakly fair (the clock is hardware; trap.c takes
\* the interrupt whenever the CPU holds no spinlock).  The digit-root
\* loop runs in user-visible steps of the comparator, which a timer
\* yield may interrupt, so it is under the strong fairness of CUserStep.
CFairness ==
  /\ \A c \in Cpus : WF_allvars((Schedule(c) \/ SchedContinue(c)) /\ UNCHANGED <<svars, cvars>>)
  /\ \A s \in Slots :
       /\ WF_allvars(((ForkRet(s) \/ YieldRet(s)) /\ UNCHANGED <<svars, cvars>>)
                     \/ CKernelReturn(s))
       /\ SF_allvars(CUserStep(s))
  /\ WF_allvars(CTick /\ UNCHANGED <<svars, cvars>>)

CLiveSpec == CSpec /\ CFairness

-----------------------------------------------------------------------------
CTypeOK ==
  /\ upc \in [Slots -> CUPCs]
  /\ pol \in 0..(Len(PolicyOrder) - 1)
  /\ cpid \in {-1} \cup 1..MaxPid
  /\ measured \in BOOLEAN
  /\ ddone \in BOOLEAN
  /\ rrtime \in [RoundIdx -> -1..MaxTicks]
  /\ rwtime \in [RoundIdx -> -1..MaxTicks]

\* find_digit_root(uptime()) returns the digital root of the uptime, a
\* single digit (the header comment of sys_find_digit_root()), for every
\* value uptime() can return once ticks has wrapped into a negative int.
SeedIsDigitRoot == DR!ReturnsDigitRoot

\* Every round whose fork() succeeded measures its own child and collects
\* it: get_process_lifetime(pid), after sleep(), finds the child (it
\* cannot have been reaped, since only its parent reaps it and the
\* parent has not called waitx() yet), and waitx() returns that pid, not
\* -1 or another process, while initproc's wait() runs beside it.
RoundMeasured ==
  [][upc[Tester] \in {"waitx", "inwaitx"} /\ upc'[Tester] \notin {"waitx", "inwaitx"}
       => measured /\ WaitResult = cpid]_allvars

\* The suggestion printed at the end names, by run time and by total
\* time, the first policy tested among those with the least time whose
\* round was measured (results[i].rtime != -1: fork() and waitx()
\* succeeded), and none when no round was measured; each round's times
\* are those waitx() reported for that round's own child.
SuggestionIsFirstBest ==
  upc[Tester] \in {"exit", "exited"} =>
    /\ BestIdx(RunTime) = FirstBest(RunTime)
    /\ BestIdx(TotalTime) = FirstBest(TotalTime)

\* The comparator finishes: the seed loop returns for every uptime, each
\* sleep() ends by the timer, every child exits and is collected, and
\* main() reaches exit().
ComparatorCompletes == upc[Tester] = "seed" ~> upc[Tester] = "exited"

=============================================================================
