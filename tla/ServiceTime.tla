---------------------------- MODULE ServiceTime ----------------------------
(***************************************************************************)
(* How one process follows the TDMA cycle (prototype/src/service_time.c    *)
(* and the main loop): it wakes up, reads the clock, derives turn and      *)
(* slice from it, runs the handler of the slice and sleeps until the start *)
(* of the next slice.  Wake-ups may be late by up to MaxDelay, which stands *)
(* for scheduling delays and for handlers that overrun.                    *)
(*                                                                         *)
(* Times are absolute and in ticks.  They are far from 0, as microseconds  *)
(* since the epoch are: this matters, because check_slice_skip adds two    *)
(* absolute times.                                                         *)
(***************************************************************************)
EXTENDS CycleWatch

CONSTANTS
  AMOUNT_NODES,
  Requested,   \* the cycle durations the process may be started with
  InitTimes,   \* the times at which it may be started
  MaxDelay,    \* how late a wake-up may be
  Horizon      \* wake-ups after this time are not modelled

ASSUME TimeAssumption ==
  /\ AMOUNT_NODES \in 3..8 /\ Requested \subseteq Nat \ {0} /\ MaxDelay \in Nat
  /\ Horizon \in Nat /\ \A t \in InitTimes : t \in Nat /\ Horizon < 2 * t

VARIABLES
  CYCLE_DURATION,
  context,  \* cycle, cycle_start_time, epoch_us, time_remaining, turn, slice
  wake,     \* the time the process has asked to be woken up at
  born      \* history: the time at which it was started

vars == <<watchVars, CYCLE_DURATION, context, wake, born>>

SLICES_IN_TURN  == 3
MEMBERSHIP      == 0
SEND            == 1
SLICES_IN_CYCLE == AMOUNT_NODES * SLICES_IN_TURN
TURN_DURATION   == CYCLE_DURATION \div AMOUNT_NODES
SLICE_DURATION  == TURN_DURATION \div SLICES_IN_TURN

\* Variant: a remainder is ignored.
SetCycleDuration_AsIs(duration) == duration

\* set_cycle_duration: the next multiple of the number of slices.
SetCycleDuration(duration) ==
  IF duration % SLICES_IN_CYCLE = 0 THEN duration
  ELSE SLICES_IN_CYCLE * (duration \div SLICES_IN_CYCLE + 1)

\* init_time; the rest of the context is zeroed memory
Init ==
  /\ WatchInit
  /\ \E duration \in Requested : CYCLE_DURATION = SetCycleDuration(duration)
  /\ \E t \in InitTimes :
       /\ context = [cycle |-> 0, cycle_start_time |-> t, epoch_us |-> t,
                     time_remaining |-> 0, turn |-> 0, slice |-> MEMBERSHIP]
       /\ wake = t
       /\ born = t

\* Variant: the cycle does not wrap after the last slice.
NextSliceTime_SameTurn(epoch, turn, slice) ==
  (epoch - (epoch % CYCLE_DURATION))
    + SLICE_DURATION * (turn * SLICES_IN_TURN + ((slice + 1) % SLICES_IN_TURN))

\* next_slice_time with abs set: the slice after the given one, in the cycle
\* of the given time.
NextSliceTime(epoch, turn, slice) ==
  LET next_slice == (slice + 1) % SLICES_IN_TURN
      next_turn  == IF next_slice = 0 THEN turn + 1 ELSE turn
  IN  (epoch - (epoch % CYCLE_DURATION))
        + SLICE_DURATION * (next_turn * SLICES_IN_TURN + next_slice)

\* check_slice_skip; only the pause slice may be missed.
LateBy(current, slices) ==
  current >= context.epoch_us + context.time_remaining + slices * SLICE_DURATION

SkipEnds(current) ==
  LateBy(current, 1) /\ ~(context.slice = SEND /\ ~LateBy(current, 2))

\* Variant: a cycle is over one slice early.
NewCycleAt_Early(current) ==
  context.cycle_start_time + CYCLE_DURATION - SLICE_DURATION <= current

NewCycleAt(current) == context.cycle_start_time + CYCLE_DURATION <= current

\* update_time: time_remaining is computed from the turn and the slice of the
\* wake-up before.  cycle is only ever compared with 0 and stays at most 1.
UpdateTime(current) ==
  LET cycle_time == current % CYCLE_DURATION
  IN  /\ context' =
           [ cycle            |-> IF NewCycleAt(current) THEN 1 ELSE context.cycle,
             cycle_start_time |-> IF NewCycleAt(current) THEN current
                                  ELSE context.cycle_start_time,
             epoch_us         |-> current,
             time_remaining   |-> NextSliceTime(current, context.turn, context.slice),
             turn             |-> cycle_time \div TURN_DURATION,
             slice            |-> (cycle_time % TURN_DURATION) \div SLICE_DURATION ]
      /\ IF NewCycleAt(current) THEN CountTwoNodes
                                ELSE UNCHANGED <<running, stuck_membership>>

\* The times at which the process may wake up: clock_nanosleep returns at once
\* when the requested time is past.
Ready == IF wake < context.epoch_us THEN context.epoch_us ELSE wake

WakeTimes == {t \in Ready..(Ready + MaxDelay) : t <= Horizon}

\* update_time shuts the process down.
SkipSlice ==
  /\ running
  /\ \E current \in WakeTimes : SkipEnds(current)
  /\ running' = FALSE
  /\ UNCHANGED <<memb_count, stuck_membership, CYCLE_DURATION, context, wake, born>>

\* update_time, slice_switch and sleep_next_slice; the handler may change the
\* membership.
WakeUp ==
  /\ running
  /\ \E current \in WakeTimes : ~SkipEnds(current) /\ UpdateTime(current)
  /\ memb_count' \in MembCounts
  /\ wake' = NextSliceTime(context'.epoch_us, context'.turn, context'.slice)
  /\ UNCHANGED <<CYCLE_DURATION, born>>

\* 'q' on the terminal
Quit ==
  /\ running
  /\ running' = FALSE
  /\ UNCHANGED <<memb_count, stuck_membership, CYCLE_DURATION, context, wake, born>>

Next == WakeUp \/ SkipSlice \/ Quit

Spec == Init /\ [][Next]_vars
-----------------------------------------------------------------------------
\* The number of the slice a time falls in, counted from time 0.
SliceAt(t) == t \div SLICE_DURATION

Awake == context.time_remaining > 0   \* it has woken up at least once

\* The sender of a slice is one of the nodes (it indexes node_states), and a
\* cycle lasts a whole number of slices and no less than was asked for
\* (set_cycle_duration, update_time).
ClockInRange ==
  /\ context.turn < AMOUNT_NODES /\ context.slice < SLICES_IN_TURN
  /\ SLICE_DURATION * SLICES_IN_CYCLE = CYCLE_DURATION

\* However late it wakes up, a process never runs the handlers of a slice
\* twice: it would send or deliver twice (sleep_next_slice).
NoSliceTwice ==
  [][context' # context /\ Awake =>
       SliceAt(context'.epoch_us) > SliceAt(context.epoch_us)]_vars

\* Whatever went before, a process that is woken up less than a slice late runs
\* the slice that follows the last one it ran (main loop, sleep_next_slice).
EverySliceInOrder ==
  [][context' # context /\ Awake /\ context'.epoch_us < Ready + SLICE_DURATION =>
       SliceAt(context'.epoch_us) = SliceAt(context.epoch_us) + 1]_vars

\* Whether a process may send its initialization message, context.cycle > 0,
\* follows from the number of slices it has lived through, except in the one
\* slice a cycle after its start (increase_cycle, send_operation).
AgeTellsCycle ==
  Awake =>
    LET age == SliceAt(context.epoch_us) - SliceAt(born)
    IN  /\ age < SLICES_IN_CYCLE => context.cycle = 0
        /\ age > SLICES_IN_CYCLE => context.cycle > 0

\* A skipped slice is noticed: a process goes on only with the next slice or,
\* past a pause slice, the one after it (check_slice_skip).
SkippedSliceEnds ==
  [][context' # context /\ Awake =>
       \/ SliceAt(context'.epoch_us) = SliceAt(context.epoch_us) + 1
       \/ context.slice = SEND /\ SliceAt(context'.epoch_us) = SliceAt(context.epoch_us) + 2]_vars
=============================================================================
