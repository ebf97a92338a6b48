------------------------------ MODULE Lifecycle ------------------------------
(***************************************************************************)
(* What the process table promises about the life of a slot (spec.md 3    *)
(* and 4.1), without CPUs, locks or kernel threads: the state of every     *)
(* slot and its parent link, and the steps that may change them.  Proc    *)
(* implements this specification (the refinement is checked by the        *)
(* lifecycle run: Life!Spec is one of its properties).                    *)
(***************************************************************************)
CONSTANTS
  Procs,   \* the slots of the table
  Root,    \* the boot process, the root of the parent forest
  None     \* no parent

VARIABLES state, parent

vars == <<state, parent>>

UNUSED == "UNUSED"  EMBRYO == "EMBRYO"  SLEEPING == "SLEEPING"
RUNNABLE == "RUNNABLE"  RUNNING == "RUNNING"  ZOMBIE == "ZOMBIE"

Init ==
  /\ state = [p \in Procs |-> IF p = Root THEN RUNNABLE ELSE UNUSED]
  /\ parent = [p \in Procs |-> None]

\* Allocation takes an unused slot.
Alloc(p) ==
  /\ state[p] = UNUSED
  /\ state' = [state EXCEPT ![p] = EMBRYO]
  /\ UNCHANGED parent

\* A failed allocation or fork gives the slot back.
Abandon(p) ==
  /\ state[p] = EMBRYO
  /\ state' = [state EXCEPT ![p] = UNUSED]
  /\ UNCHANGED parent

\* Fork publishes the child of the running caller q.
Publish(p, q) ==
  /\ state[p] = EMBRYO
  /\ state[q] = RUNNING
  /\ state' = [state EXCEPT ![p] = RUNNABLE]
  /\ parent' = [parent EXCEPT ![p] = q]

\* A CPU starts running p.
Run(p) ==
  /\ state[p] = RUNNABLE
  /\ state' = [state EXCEPT ![p] = RUNNING]
  /\ UNCHANGED parent

\* p gives up its CPU and stays runnable.
Preempt(p) ==
  /\ state[p] = RUNNING
  /\ state' = [state EXCEPT ![p] = RUNNABLE]
  /\ UNCHANGED parent

\* p blocks.
Block(p) ==
  /\ state[p] = RUNNING
  /\ state' = [state EXCEPT ![p] = SLEEPING]
  /\ UNCHANGED parent

\* Some sleeping processes are woken.
Wake(W) ==
  /\ W /= {}
  /\ \A p \in W : state[p] = SLEEPING
  /\ state' = [p \in Procs |-> IF p \in W THEN RUNNABLE ELSE state[p]]
  /\ UNCHANGED parent

\* A running process other than the root exits: its children pass to the
\* root, some sleepers are woken, and it becomes a zombie.
Exit(p, W) ==
  /\ state[p] = RUNNING
  /\ p /= Root
  /\ \A q \in W : state[q] = SLEEPING
  /\ state' = [q \in Procs |-> IF q = p THEN ZOMBIE
                               ELSE IF q \in W THEN RUNNABLE ELSE state[q]]
  /\ parent' = [q \in Procs |-> IF parent[q] = p THEN Root ELSE parent[q]]

\* The running parent q reclaims its zombie child z.
Reap(q, z) ==
  /\ state[q] = RUNNING
  /\ state[z] = ZOMBIE
  /\ parent[z] = q
  /\ state' = [state EXCEPT ![z] = UNUSED]
  /\ parent' = [parent EXCEPT ![z] = None]

Next ==
  \/ \E p \in Procs : Alloc(p) \/ Abandon(p) \/ Run(p) \/ Preempt(p) \/ Block(p)
  \/ \E p, q \in Procs : Publish(p, q) \/ Reap(q, p)
  \/ \E W \in SUBSET Procs : Wake(W) \/ \E p \in Procs : Exit(p, W)

Spec == Init /\ [][Next]_vars

=============================================================================
