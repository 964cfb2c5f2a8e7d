--------------------------- MODULE MCServiceTime ---------------------------
(* Values of the constants of ServiceTime for TLC. *)
EXTENDS ServiceTime

\* Every phase of a cycle of 27 ticks
OneCycle == 108..134
=============================================================================
