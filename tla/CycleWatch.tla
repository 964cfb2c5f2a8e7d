----------------------------- MODULE CycleWatch -----------------------------
(***************************************************************************)
(* What increase_cycle (prototype/src/service_time.c) does about a         *)
(* membership of two.  Two members never take a membership decision, so    *)
(* one of them may be dead without the other noticing; the code counts the *)
(* cycles spent with two members in order to shut the process down.        *)
(***************************************************************************)
EXTENDS Integers

CONSTANT MembCounts    \* the values memb_count takes

ASSUME MembCountsAssumption == MembCounts \subseteq Int

VARIABLES
  running,          \* the process has not been shut down
  memb_count,       \* number of members in its view
  stuck_membership  \* static uint8_t of increase_cycle

watchVars == <<running, memb_count, stuck_membership>>

TWO_NODES_THRESHOLD == 1000

WatchInit ==
  /\ running = TRUE
  /\ memb_count \in MembCounts
  /\ stuck_membership = 0

\* At the start of a cycle of the process: the counter is compared with the
\* threshold, counts in eight bits and falls back to 0 with the membership.
CountTwoNodes ==
  /\ running' = ~(memb_count = 2 /\ stuck_membership = TWO_NODES_THRESHOLD)
  /\ stuck_membership' = IF memb_count = 2 THEN (stuck_membership + 1) % 256 ELSE 0

NewCycle == running /\ CountTwoNodes /\ UNCHANGED memb_count

\* The slice handlers change the membership.
ChangeMembership ==
  /\ running
  /\ memb_count' \in MembCounts
  /\ UNCHANGED <<running, stuck_membership>>

WatchNext == NewCycle \/ ChangeMembership

\* Cycles follow one another as long as the process runs.
WatchSpec == WatchInit /\ [][WatchNext]_watchVars /\ WF_watchVars(NewCycle)

\* A faulty member does not block operations: a process that stays in a
\* membership of two is shut down in the end (increase_cycle).
TwoNodesEnd == <>[](memb_count = 2) => <>~running
=============================================================================
