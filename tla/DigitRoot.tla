----------------------------- MODULE DigitRoot -----------------------------
(***************************************************************************)
(* sys_find_digit_root() of src/sysproc.c: the loop that sums decimal      *)
(* digits until one digit is left, one iteration per step, next to the     *)
(* closed form of the digital root.  The loop runs in the calling process  *)
(* alone and touches no shared state, so it is a module of its own;        *)
(* Comparator instantiates it on the locals of the comparator's call.      *)
(***************************************************************************)
EXTENDS Integers

CONSTANT Inputs    \* the int arguments the caller may pass

ASSUME Inputs \subseteq -2147483647..2147483647  \* int

VARIABLES
  n0,      \* the argument
  num,     \* num
  root,    \* root
  done     \* the loop has exited and root is returned

vars == <<n0, num, root, done>>

\* Mutant: the loop test without the carry into the next round.
LoopGoesOnNoCarry(n, r) == n > 0

\* Mutant: the loop test that also goes on at root = 9.
LoopGoesOnAtNine(n, r) == n > 0 \/ r >= 9

\* while (num > 0 || root > 9)
LoopGoesOn(n, r) == n > 0 \/ r > 9

Init ==
  /\ n0 \in Inputs
  /\ num = n0
  /\ root = 0
  /\ done = FALSE

\* One iteration: when the digits of num are used up, start a new round
\* on root; then add the last digit of num to root and drop it.  num is
\* never negative inside the loop, so C's / and % are \div and %.
Iterate ==
  /\ ~done
  /\ LoopGoesOn(num, root)
  /\ LET n == IF num = 0 THEN root ELSE num
         r == IF num = 0 THEN 0 ELSE root
     IN /\ root' = r + (n % 10)
        /\ num' = n \div 10
  /\ UNCHANGED <<n0, done>>

\* The loop test fails: return root.
Return ==
  /\ ~done
  /\ ~LoopGoesOn(num, root)
  /\ done' = TRUE
  /\ UNCHANGED <<n0, num, root>>

Next == Iterate \/ Return

\* The loop runs on the CPU of the caller until it exits.
Spec == Init /\ [][Next]_vars /\ WF_vars(Next)

-----------------------------------------------------------------------------
\* The digital root: 0 for 0, otherwise 1 + (n - 1) mod 9.  Negative
\* arguments skip the loop and get 0.
DigitalRoot(n) == IF n <= 0 THEN 0 ELSE 1 + ((n - 1) % 9)

TypeOK ==
  /\ n0 \in Inputs
  /\ num \in Nat \cup Inputs
  /\ root \in Nat
  /\ done \in BOOLEAN

\* What the header comment of sys_find_digit_root() promises: the value
\* returned is a single digit, the digital root of the argument.
ReturnsDigitRoot ==
  done => root = DigitalRoot(n0) /\ root \in 0..9

=============================================================================
