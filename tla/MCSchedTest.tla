---------------------------- MODULE MCSchedTest ----------------------------
(* Instantiation of SchedTest for TLC: one CPU. *)
EXTENDS SchedTest

CONSTANT c1

MCOneCpu == {c1}

\* Averages total / completed of non-negative times (WaitTimeNonNegative):
\* every width from 1 to 10 digits.
MCAvgValues ==
  (0..120) \cup {10^k - 1 : k \in 3..9} \cup {10^k : k \in 3..9} \cup {2147483647}

=============================================================================
