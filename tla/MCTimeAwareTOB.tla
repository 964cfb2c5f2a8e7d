--------------------------- MODULE MCTimeAwareTOB ---------------------------
(* Values of the constants of TimeAwareTOB for TLC. *)
EXTENDS TimeAwareTOB

\* The nodes whose process runs initially
Nobody     == {}
Everybody  == Node
AllButLast == Node \ {AMOUNT_NODES - 1}

\* The slices in which a process may be started
AnySlot    == Node \X Slices
FirstTurn  == {0} \X Slices       \* the slices of one turn of every cycle
CyclePause == {<<0, "PAUSE">>}   \* one slice of every cycle
=============================================================================
