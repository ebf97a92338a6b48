------------------------------- MODULE MCProc -------------------------------
(* Instantiation of Proc for TLC. *)
EXTENDS Proc

CONSTANTS c1, c2

MCCpus == {c1, c2}

MCOneCpu == {c1}

\* set_burst_estimate() arguments: one rejected (negative), one accepted.
MCBursts == {-1, 1}

=============================================================================
