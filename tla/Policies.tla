------------------------------ MODULE Policies ------------------------------
(***************************************************************************)
(* The five selection rules of scheduler() in src/proc.c, as pure         *)
(* operators over a snapshot of the process table, next to the reference  *)
(* rules that spec.md (section 4.2) states for them.                       *)
(*                                                                         *)
(* A snapshot is given by: run, the set of RUNNABLE slots; and the         *)
(* functions ct (createtime), pr (priority) and eb (estimated_burst) from  *)
(* slots to integers.  Slots are 1..NPROC in table order; NoProc (0)       *)
(* stands for the null pointer that the scans start from.                  *)
(***************************************************************************)
EXTENDS Integers, FiniteSets, SequencesExt

CONSTANT NPROC

ASSUME NPROC \in Nat \ {0}

\* Scheduling policy numbers, src/fcntl.h.
SCHED_FCFS   == 0
SCHED_SJF    == 1
SCHED_BJF    == 2
SCHED_RANDOM == 3
SCHED_RR     == 4

Slots   == 1..NPROC
NoProc  == 0

\* The table in the order the for-loops of scheduler() walk it.
TableOrder == [i \in Slots |-> i]

(***************************************************************************)
(* The scan shared by the FCFS, SJF and BJF branches: walk the table,     *)
(* skip slots that are not RUNNABLE, and replace the candidate when there  *)
(* is none yet or when the slot's key is strictly smaller.  Ties therefore *)
(* stay with the first slot found.  A key is a tuple of integers compared  *)
(* lexicographically: BJF's "lower priority, or equal priority and earlier *)
(* createtime" is the key <<priority, createtime>>.                        *)
(***************************************************************************)
RECURSIVE KeyLess(_, _)
KeyLess(a, b) ==
  /\ a /= <<>>
  /\ \/ Head(a) < Head(b)
     \/ Head(a) = Head(b) /\ KeyLess(Tail(a), Tail(b))

ScanBest(run, key) ==
  FoldLeft(LAMBDA best, p :
             IF p \in run /\ (best = NoProc \/ KeyLess(key[p], key[best]))
             THEN p ELSE best,
           NoProc, TableOrder)

FcfsPick(run, ct) == ScanBest(run, [p \in Slots |-> <<ct[p]>>])

SjfPick(run, eb) == ScanBest(run, [p \in Slots |-> <<eb[p]>>])

\* Mutant: BJF without the createtime tie-break.
BjfPickNoTieBreak(run, ct, pr) == ScanBest(run, [p \in Slots |-> <<pr[p]>>])

BjfPick(run, ct, pr) == ScanBest(run, [p \in Slots |-> <<pr[p], ct[p]>>])

\* The Random branch: the target_idx-th RUNNABLE slot in table order,
\* counting from 0.  The index is rand() % runnable_count.
RandomPick(run, k) == CHOOSE q \in run : Cardinality({r \in run : r < q}) = k

\* Mutant: the Round Robin loop resumes at its loop variable instead of
\* the slot after it (p++ dropped).
RrNextInclusive(run, after) ==
  LET later == {q \in run : q >= after}
  IN IF later = {} THEN NoProc ELSE Min(later)

\* The Round Robin loop: the first RUNNABLE slot after slot `after`
\* (after = 0 at the start of a sweep), or NoProc at the end of the table.
RrNext(run, after) ==
  LET later == {q \in run : q > after}
  IN IF later = {} THEN NoProc ELSE Min(later)

(***************************************************************************)
(* Reference rules of spec.md 4.2: the sets of slots each rule allows.     *)
(***************************************************************************)
ArgMins(S, key(_)) == {q \in S : \A r \in S : key(q) <= key(r)}

\* FCFS: minimum createtime.
FcfsAllowed(run, ct) == ArgMins(run, LAMBDA q : ct[q])

\* SJF: minimum estimated_burst, ties to the first one in scan order.
SjfAllowed(run, eb) ==
  LET m == ArgMins(run, LAMBDA q : eb[q]) IN IF m = {} THEN {} ELSE {Min(m)}

\* BJF: minimum priority, then minimum createtime among equal priority.
BjfAllowed(run, ct, pr) ==
  ArgMins(ArgMins(run, LAMBDA q : pr[q]), LAMBDA q : ct[q])

=============================================================================
