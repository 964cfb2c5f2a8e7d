-------------------------- MODULE CycleWatchProofs --------------------------
(***************************************************************************)
(* A theorem about CycleWatch: the watchdog of increase_cycle never fires. *)
(***************************************************************************)
EXTENDS CycleWatch, TLAPS

\* stuck_membership stays in the range of a uint8_t, below the threshold.
InEightBits == running = TRUE /\ stuck_membership \in 0..255

\* Whatever the membership does and however long it has two members:
\* increase_cycle does not shut the process down, the counter with its eight
\* bits never reaches the threshold.
THEOREM NeverShutsDown == WatchSpec => []running
<1>1. WatchInit => InEightBits
  BY DEF WatchInit, InEightBits
<1>2. InEightBits /\ [WatchNext]_watchVars => InEightBits'
  <2> SUFFICES ASSUME InEightBits, [WatchNext]_watchVars
               PROVE  InEightBits'
    OBVIOUS
  <2>1. CASE NewCycle
    <3>1. stuck_membership # TWO_NODES_THRESHOLD
      BY DEF InEightBits, TWO_NODES_THRESHOLD
    <3>2. running' = TRUE
      BY <2>1, <3>1 DEF NewCycle, CountTwoNodes
    <3>3. stuck_membership' \in 0..255
      BY <2>1 DEF NewCycle, CountTwoNodes, InEightBits
    <3> QED
      BY <3>2, <3>3 DEF InEightBits
  <2>2. CASE ChangeMembership \/ UNCHANGED watchVars
    BY <2>2 DEF ChangeMembership, watchVars, InEightBits
  <2> QED
    BY <2>1, <2>2 DEF WatchNext
<1>3. InEightBits => running
  BY DEF InEightBits
<1> QED
  BY <1>1, <1>2, <1>3, PTL DEF WatchSpec
=============================================================================
