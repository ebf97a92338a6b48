---------------------------- MODULE MCComparator ----------------------------
(* Instantiation of Comparator for TLC. *)
EXTENDS Comparator

CONSTANT c1

MCOneCpu == {c1}

\* uptime() values: every int up to 200 (one, two and three digits,
\* several rounds of carry), a negative one (ticks past 2^31), and large
\* ones up to INT_MAX.
MCUptimes == (0..200) \cup {-7, 999999999, 2147483647}


\* The schedtest averages are not printed by this program.
MCAvgValues == {0}

=============================================================================
