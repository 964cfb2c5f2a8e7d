------------------------------ MODULE MCSocket ------------------------------
(* Values of the constants of Socket for TLC. *)
EXTENDS Socket

\* A copy comes at once, a turn late at the end of the SEND slice of the next
\* turn, where the gate of its sender is open again, or later than that and
\* between two SEND slices.
BeyondNextTurn == {0, 40, 51}
=============================================================================
