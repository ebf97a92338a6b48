------------------------------ MODULE SchedTest ------------------------------
(***************************************************************************)
(* The user program src/schedtest.c run on the kernel of Proc: initproc   *)
(* forks the process that runs it (the tester), the tester runs           *)
(* run_scheduler_test() under each of the five policies in turn, and each *)
(* of its children runs child_workload().  upc[s] is where the user code  *)
(* of slot s is; a program step is the kernel action of the system call  *)
(* it makes, and the kernel steps that return from a call (the end of    *)
(* fork(), a wait() woken up, the second half of get_process_lifetime()) *)
(* move upc on.  Calls that change no modelled state (printf, ps,        *)
(* getpid, get_uncle_count, getnumsyscalls and the file system calls of   *)
(* the copy) are left out; the file setup is a step that may fail.        *)
(***************************************************************************)
EXTENDS Proc

CONSTANTS
  ChildCounts,  \* values of num_children to check (5 in the code)
  Tester,       \* the slot init's fork() gives the tester
  StackInit,    \* what an unwritten results[s].completed can hold
  AvgValues     \* averages the table may print

VARIABLES
  num_children, \* run_scheduler_test(): num_children, fixed for a behaviour
  upc,        \* user-space code point of each slot
  pol,        \* main(): index s of the policy under test, from 0
  ti,         \* run_scheduler_test(): i, children forked so far
  tj,         \* run_scheduler_test(): j of the clean-up loop
  completed,  \* run_scheduler_test(): completed_children
  pids,       \* run_scheduler_test(): pids[0..i-1], as a sequence
  rcompleted, \* main(): results[s].completed, for s in 0..4
  rok         \* main(): run_scheduler_test() for results[s] returned 0

svars == <<num_children, upc, pol, ti, tj, completed, pids, rcompleted, rok>>
stvars == <<vars, svars>>

\* results[s].policy of main(), in the order it tests them.
PolicyOrder == <<SCHED_FCFS, SCHED_SJF, SCHED_BJF, SCHED_RANDOM, SCHED_RR>>

\* The indices s of results[], main()'s local array: its fields other
\* than name and policy are never initialised.
RoundIdx == 0..(Len(PolicyOrder) - 1)

UPCs == {"none", "initfork", "initforking", "initwait", "initexit",
         "setpolicy", "setup", "fork", "forking", "setprio", "waitx",
         "inwaitx", "cleanup", "cleanupwait", "incleanupwait", "exit",
         "child", "childlife", "childexit", "exited"}

Go(s, at) == upc' = [upc EXCEPT ![s] = at]

\* The slots a wait() of this step frees, and the pid it returns.
Reaped == {q \in Slots : state[q] = ZOMBIE /\ state'[q] = UNUSED}
WaitResult == IF Reaped = {} THEN -1 ELSE pid[CHOOSE q \in Reaped : TRUE]

STInit ==
  /\ Init
  /\ num_children \in ChildCounts
  /\ upc = [q \in Slots |-> IF q = InitSlot THEN "initfork" ELSE "none"]
  /\ pol = 0 /\ ti = 0 /\ tj = 0 /\ completed = 0 /\ pids = <<>>
  /\ rcompleted \in [RoundIdx -> StackInit]
  /\ rok = [s \in RoundIdx |-> FALSE]

-----------------------------------------------------------------------------
(* initproc: fork the shell that runs schedtest, then wait() for ever.     *)

InitFork ==
  /\ upc[InitSlot] = "initfork"
  /\ ForkAlloc(InitSlot)
  /\ Go(InitSlot, "initforking")
  /\ UNCHANGED <<num_children, pol, ti, tj, completed, pids, rcompleted, rok>>

\* The end of init's fork(): the child starts the program at `at`.
InitForkedAt(at) ==
  /\ upc[InitSlot] = "initforking"
  /\ \/ /\ ForkCommit(InitSlot)
        /\ upc' = [upc EXCEPT ![InitSlot] = "initwait",
                              ![child[InitSlot]] = at]
     \/ ForkFail(InitSlot) /\ Go(InitSlot, "initexit")
  /\ UNCHANGED <<num_children, pol, ti, tj, completed, pids, rcompleted, rok>>

InitForked == InitForkedAt("setpolicy")

\* A failed fork() makes init call exit(), and exit() of initproc is
\* panic("init exiting").
InitPanic ==
  /\ upc[InitSlot] = "initexit"
  /\ InUser(InitSlot)
  /\ pc' = [pc EXCEPT ![InitSlot] = "panic"]
  /\ UNCHANGED <<state, pid, parent, killed, chan, createtime, priority,
                 estimated_burst, child, nextpid, ticks, current_scheduler,
                 lock, cpuproc, rrpos>>
  /\ UNCHANGED timevars
  /\ UNCHANGED trrvars
  /\ UNCHANGED svars

InitWait ==
  /\ upc[InitSlot] = "initwait"
  /\ Wait(InitSlot) \/ WaitResume(InitSlot)
  /\ UNCHANGED svars

-----------------------------------------------------------------------------
(* The tester: main() and run_scheduler_test().                            *)

\* The end of run_scheduler_test() (return 0 or -1): main() goes on with
\* the next policy, or leaves its loop and exit()s.
NextRound ==
  IF pol + 1 < Len(PolicyOrder)
  THEN Go(Tester, "setpolicy") /\ pol' = pol + 1
  ELSE Go(Tester, "exit") /\ UNCHANGED pol

\* setschedpolicy(results[s].policy): always a valid policy, so it never
\* takes the `continue`.
SetPolicy ==
  /\ upc[Tester] = "setpolicy"
  /\ SetSchedPolicy(Tester, PolicyOrder[pol + 1])
  /\ Go(Tester, "setup")
  /\ UNCHANGED <<num_children, pol, ti, tj, completed, pids, rcompleted, rok>>

\* The source file is unlinked, created and written; open() or write()
\* may fail, and run_scheduler_test() returns -1 before forking.
Setup ==
  /\ upc[Tester] = "setup"
  /\ Syscall(Tester)
  /\ \/ /\ Go(Tester, "fork")
        /\ ti' = 0 /\ tj' = 0 /\ completed' = 0 /\ pids' = <<>>
        /\ UNCHANGED pol
     \/ /\ NextRound
        /\ UNCHANGED <<ti, tj, completed, pids, rcompleted, rok>>
  /\ UNCHANGED <<num_children, vars, rcompleted, rok>>

\* One fork() of the loop, up to the switch to the new child's slot.
ForkCall ==
  /\ upc[Tester] = "fork"
  /\ ForkAlloc(Tester)
  /\ Go(Tester, "forking")
  /\ UNCHANGED <<num_children, pol, ti, tj, completed, pids, rcompleted, rok>>

\* fork() finds no UNUSED slot and returns -1: clean up.
ForkNoSlot ==
  /\ upc[Tester] = "fork"
  /\ Syscall(Tester)
  /\ lock = NoCpu
  /\ \A q \in Slots : state[q] /= UNUSED
  /\ Go(Tester, "cleanup")
  /\ tj' = 0
  /\ UNCHANGED <<num_children, pol, ti, completed, pids, rcompleted, rok>>
  /\ UNCHANGED vars

\* i++ and the loop test of the fork loop.
ForkLoopNext ==
  /\ ti' = ti + 1
  /\ Go(Tester, IF ti + 1 < num_children THEN "fork" ELSE "waitx")

\* fork() returns the child's pid, stored in pids[i], and the child
\* starts in child_workload(); under BJF the tester then calls
\* set_priority(), otherwise it goes on with i++.
Forked ==
  /\ upc[Tester] = "forking"
  /\ ForkCommit(Tester)
  /\ pids' = Append(pids, pid[child[Tester]])
  /\ LET at == IF PolicyOrder[pol + 1] = SCHED_BJF THEN "setprio"
               ELSE IF ti + 1 < num_children THEN "fork" ELSE "waitx"
     IN upc' = [upc EXCEPT ![Tester] = at, ![child[Tester]] = "child"]
  /\ ti' = IF PolicyOrder[pol + 1] = SCHED_BJF THEN ti ELSE ti + 1
  /\ UNCHANGED <<num_children, pol, tj, completed, rcompleted, rok>>

\* fork() fails after allocproc(): clean up.
ForkFailed ==
  /\ upc[Tester] = "forking"
  /\ ForkFail(Tester)
  /\ Go(Tester, "cleanup")
  /\ tj' = 0
  /\ UNCHANGED <<num_children, pol, ti, completed, pids, rcompleted, rok>>

\* set_priority(initial_priority) with initial_priority = (i % 3) + 1.
SetPrio ==
  /\ upc[Tester] = "setprio"
  /\ SetPriority(Tester, (ti % 3) + 1)
  /\ ForkLoopNext
  /\ UNCHANGED <<num_children, pol, tj, completed, pids, rcompleted, rok>>

\* Mutant: results stored from completed_children before the last waitx()
\* is counted.
StoreResultStale(c) ==
  /\ rcompleted' = [rcompleted EXCEPT ![pol] = completed]
  /\ rok' = [rok EXCEPT ![pol] = TRUE]

\* The end of run_scheduler_test() after its collection loop:
\* result->completed = completed_children (the totals and averages are
\* not modelled), then return 0.
StoreResult(c) ==
  /\ rcompleted' = [rcompleted EXCEPT ![pol] = c]
  /\ rok' = [rok EXCEPT ![pol] = TRUE]

\* A waitx() of the collection loop has returned (or slept again): count
\* a reaped child and loop while completed_children < num_children;
\* break on -1.
AfterWaitx ==
  IF pc'[Tester] /= "user"
  THEN Go(Tester, "inwaitx") /\ UNCHANGED <<pol, completed, rcompleted, rok>>
  ELSE IF Reaped /= {} /\ completed + 1 < num_children
  THEN /\ completed' = completed + 1 /\ Go(Tester, "waitx")
       /\ UNCHANGED <<pol, rcompleted, rok>>
  ELSE /\ completed' = IF Reaped = {} THEN completed ELSE completed + 1
       /\ StoreResult(completed')
       /\ NextRound

WaitxCall ==
  /\ upc[Tester] = "waitx"
  /\ Waitx(Tester)
  /\ AfterWaitx
  /\ UNCHANGED <<num_children, ti, tj, pids>>

WaitxResume ==
  /\ upc[Tester] = "inwaitx"
  /\ WaitResume(Tester)
  /\ AfterWaitx
  /\ UNCHANGED <<num_children, ti, tj, pids>>

\* Clean-up loop after a failed fork: kill(pids[j]) (-1 when no slot has
\* that pid any more), then wait(); return -1 after i rounds.
Cleanup ==
  /\ upc[Tester] = "cleanup"
  /\ \/ /\ tj < Len(pids)
        /\ \/ Kill(Tester, pids[tj + 1])
           \/ /\ Syscall(Tester) /\ lock = NoCpu
              /\ ~\E q \in Slots : pid[q] = pids[tj + 1]
              /\ UNCHANGED vars
        /\ Go(Tester, "cleanupwait")
        /\ UNCHANGED pol
     \/ /\ tj = Len(pids)
        /\ NextRound
        /\ UNCHANGED vars
  /\ UNCHANGED <<num_children, ti, tj, completed, pids, rcompleted, rok>>

\* Mutant: the clean-up loop without j++.
AfterWaitNoIncrement ==
  IF pc'[Tester] /= "user"
  THEN Go(Tester, "incleanupwait") /\ UNCHANGED tj
  ELSE UNCHANGED tj /\ Go(Tester, "cleanup")

AfterWait ==
  IF pc'[Tester] /= "user"
  THEN Go(Tester, "incleanupwait") /\ UNCHANGED tj
  ELSE tj' = tj + 1 /\ Go(Tester, "cleanup")

CleanupWait ==
  \/ upc[Tester] = "cleanupwait" /\ Wait(Tester) /\ AfterWait
  \/ upc[Tester] = "incleanupwait" /\ WaitResume(Tester) /\ AfterWait

CleanupWaitStep ==
  /\ CleanupWait
  /\ UNCHANGED <<num_children, pol, ti, completed, pids, rcompleted, rok>>

\* The exit() at the end of main().
TesterExit ==
  /\ upc[Tester] = "exit"
  /\ Exit(Tester)
  /\ Go(Tester, "exited")
  /\ UNCHANGED <<num_children, pol, ti, tj, completed, pids, rcompleted, rok>>

-----------------------------------------------------------------------------
(* main(): the comparison table printed after the five rounds.  Printing  *)
(* changes no state; the table's choices are operators over results[].    *)

\* A row shows the averages when results[s].completed > 0, N/A otherwise.
RowHasAverages(s) == rcompleted[s] > 0

\* Mutant: numDigits() without its n == 0 case.
NumDigitsNoZero(n) ==
  LET RECURSIVE Count(_, _)
      Count(m, k) == IF m > 0 THEN Count(m \div 10, k + 1) ELSE k
  IN IF n < 0 THEN Count(-n, 1) ELSE Count(n, 0)

\* numDigits(n), the width of %d of n that pads the columns: 1 for 0,
\* otherwise one per division by 10 until n reaches 0, plus the sign.
\* (-n is undefined for INT_MIN, an argument the averages never take.)
NumDigits(n) ==
  LET RECURSIVE Count(_, _)
      Count(m, k) == IF m > 0 THEN Count(m \div 10, k + 1) ELSE k
  IN IF n = 0 THEN 1
     ELSE IF n < 0 THEN Count(-n, 1) ELSE Count(n, 0)

\* The reference: the number of characters of n written in decimal.
DecimalWidth(n) ==
  LET a == IF n < 0 THEN -n ELSE n
  IN (IF n < 0 THEN 1 ELSE 0)
     + (IF a = 0 THEN 1 ELSE CHOOSE k \in 1..10 : a \div 10^(k - 1) \in 1..9)

-----------------------------------------------------------------------------
(* A child: child_workload().  A killed child can only exit (trap.c).      *)

ChildLifetime(c) ==
  /\ upc[c] = "child"
  /\ LifetimeScan(c, pid[c])
  /\ Go(c, "childlife")
  /\ UNCHANGED <<num_children, pol, ti, tj, completed, pids, rcompleted, rok>>

ChildLifeRead(c) ==
  /\ upc[c] = "childlife"
  /\ LifetimeRead(c)
  /\ Go(c, "childexit")
  /\ UNCHANGED <<num_children, pol, ti, tj, completed, pids, rcompleted, rok>>

ChildExit(c) ==
  /\ upc[c] = "childexit" \/ (upc[c] = "child" /\ killed[c])
  /\ Exit(c)
  /\ Go(c, "exited")
  /\ UNCHANGED <<num_children, pol, ti, tj, completed, pids, rcompleted, rok>>

-----------------------------------------------------------------------------
\* The kernel steps no program drives, and the program steps of slot s.
\* The clock is left out: it changes only createtime and the value
\* get_process_lifetime() returns, which nothing here reads (the Proc
\* runs check it).
KernelStep(s) ==
  /\ ForkRet(s) \/ YieldRet(s) \/ Yield(s)
  /\ UNCHANGED svars

TesterStep ==
  \/ SetPolicy \/ Setup \/ ForkCall \/ ForkNoSlot \/ SetPrio \/ WaitxCall
  \/ Cleanup \/ CleanupWaitStep \/ TesterExit

UserStep(s) ==
  \/ s = InitSlot /\ (InitFork \/ InitWait \/ InitPanic)
  \/ s = Tester /\ TesterStep
  \/ ChildLifetime(s) \/ ChildExit(s)

\* Kernel code that goes on by itself after a switch or inside a call.
KernelReturn(s) ==
  \/ s = InitSlot /\ InitForked
  \/ s = Tester /\ (Forked \/ ForkFailed \/ WaitxResume)
  \/ ChildLifeRead(s)

STNext ==
  \/ \E c \in Cpus : (Schedule(c) \/ SchedContinue(c)) /\ UNCHANGED svars
  \/ PanicSpin /\ UNCHANGED svars
  \/ \E s \in Slots : KernelStep(s) \/ UserStep(s) \/ KernelReturn(s)

STSpec == STInit /\ [][STNext]_stvars

\* Fairness: the scheduler loop and the kernel code a slot resumes in (exactly one of which is enabled, by
\* pc) are weakly fair; a process that is put on the CPU again and again
\* eventually executes its next user-space instruction (strong fairness,
\* since that step is disabled while it is off the CPU or in the kernel).
\* Timer preemption is not assumed: every program here blocks or exits.
STFairness ==
  /\ \A c \in Cpus : WF_stvars((Schedule(c) \/ SchedContinue(c)) /\ UNCHANGED svars)
  /\ \A s \in Slots :
       /\ WF_stvars(((ForkRet(s) \/ YieldRet(s)) /\ UNCHANGED svars) \/ KernelReturn(s))
       /\ SF_stvars(UserStep(s))

STLiveSpec == STSpec /\ STFairness

-----------------------------------------------------------------------------
STTypeOK ==
  /\ num_children \in ChildCounts
  /\ upc \in [Slots -> UPCs]
  /\ pol \in 0..(Len(PolicyOrder) - 1)
  /\ ti \in 0..num_children /\ tj \in 0..num_children
  /\ completed \in 0..num_children
  /\ pids \in Seq(2..MaxPid) /\ Len(pids) <= num_children
  /\ rcompleted \in [RoundIdx -> StackInit \cup 0..num_children]
  /\ rok \in [RoundIdx -> BOOLEAN]

\* main() fills results[s] for every policy whose round forked all of its
\* children with completed = num_children: every waitx() of the
\* collection loop reaps a child of this round, and none returns -1 (the
\* `break`) while one of them is still alive.  This rests on wait() and
\* waitx() reaping only the caller's own children, while initproc's
\* wait() runs beside them.
RoundCollectsAll ==
  [][upc[Tester] \in {"waitx", "inwaitx"} /\ upc'[Tester] \notin {"waitx", "inwaitx"}
       => completed' = num_children]_stvars

\* run_scheduler_test() under BJF: "Setting initial priority for PID
\* <child> to (i % 3) + 1" is printed, then set_priority(initial_priority)
\* is called; the child just forked should have that priority after it.
ChildGetsInitialPriority ==
  [][upc[Tester] = "setprio" /\ upc'[Tester] /= "setprio"
       => \A q \in Slots : Live(q) /\ pid[q] = Last(pids)
                           => priority'[q] = (ti % 3) + 1]_stvars

\* The comparison table of main() shows averages exactly for the policies
\* whose run_scheduler_test() returned 0, each taken over all
\* num_children children; a policy whose round returned -1 (the source
\* file could not be written, or a fork() failed and the clean-up ran)
\* shows N/A.  Such a round never writes results[s].completed, so its row
\* depends on what the uninitialised field holds.
SummaryRowsMeasured ==
  upc[Tester] \in {"exit", "exited"} =>
    \A s \in RoundIdx :
      RowHasAverages(s) <=> rok[s] /\ rcompleted[s] = num_children

\* The columns of the table, printed before main()'s exit(), are padded by
\* 14 - numDigits(avg): numDigits() is the printed width of every average the table can show (a mean of
\* non-negative wait and run times, up to INT_MAX).
NumDigitsIsWidth ==
  upc[Tester] \in {"exit", "exited"} =>
    \A n \in AvgValues : NumDigits(n) = DecimalWidth(n)

\* Once init has started it, the scheduler comparison finishes: under
\* every policy the children run to exit(), the tester's waitx() and
\* wait() calls return, and main() reaches its exit().
SchedTestCompletes == upc[Tester] = "setpolicy" ~> upc[Tester] = "exited"

=============================================================================
