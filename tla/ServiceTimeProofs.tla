------------------------- MODULE ServiceTimeProofs -------------------------
(***************************************************************************)
(* Theorems about ServiceTime, for any number of nodes, any cycle duration *)
(* and any delays: what update_time and sleep_next_slice promise whatever  *)
(* the moments a process wakes up at.                                      *)
(***************************************************************************)
EXTENDS ServiceTime, TLAPS

-----------------------------------------------------------------------------
(* Division                                                                 *)

LEMMA Division ==
  ASSUME NEW d \in Nat \ {0}, NEW x \in Int
  PROVE  /\ x \div d \in Int /\ x % d \in 0..(d - 1)
         /\ x = d * (x \div d) + (x % d)
OBVIOUS

LEMMA DivisionNatural ==
  ASSUME NEW d \in Nat \ {0}, NEW x \in Nat
  PROVE  x \div d \in Nat
OBVIOUS

\* q and r are quotient and remainder.
Divided(x, d, q, r) == q = x \div d /\ r = x % d

LEMMA Split ==
  ASSUME NEW d \in Nat \ {0}, NEW x \in Int, NEW q, NEW r, Divided(x, d, q, r)
  PROVE  q \in Int /\ r \in 0..(d - 1) /\ x = d * q + r
BY Division DEF Divided

LEMMA DivisionUnique ==
  ASSUME NEW d \in Nat \ {0}, NEW q \in Int, NEW r \in 0..(d - 1)
  PROVE  (d * q + r) \div d = q
OBVIOUS

LEMMA DivisionMonotone ==
  ASSUME NEW d \in Nat \ {0}, NEW x \in Int, NEW k \in Int
  PROVE  /\ d * k <= x => k <= x \div d
         /\ x < d * k => x \div d < k
OBVIOUS

-----------------------------------------------------------------------------
(* Durations                                                                *)

\* A cycle is made of equal slices.
DurationOK ==
  /\ SLICE_DURATION \in Nat \ {0}
  /\ TURN_DURATION = 3 * SLICE_DURATION
  /\ CYCLE_DURATION = SLICE_DURATION * SLICES_IN_CYCLE

LEMMA SlicesInCycle == SLICES_IN_CYCLE \in Nat \ {0} /\ SLICES_IN_CYCLE = 3 * AMOUNT_NODES
                       /\ AMOUNT_NODES \in Nat \ {0}
BY TimeAssumption DEF TimeAssumption, SLICES_IN_CYCLE, SLICES_IN_TURN

LEMMA WholeSlices ==
  ASSUME NEW s \in Nat \ {0}, CYCLE_DURATION = SLICES_IN_CYCLE * s
  PROVE  DurationOK
<1>1. CYCLE_DURATION = AMOUNT_NODES * (3 * s) + 0
  BY SlicesInCycle
<1>2. TURN_DURATION = 3 * s
  BY <1>1, SlicesInCycle, DivisionUnique DEF TURN_DURATION
<1>3. (3 * s + 0) \div 3 = s
  BY DivisionUnique
<1>4. SLICE_DURATION = s
  BY <1>2, <1>3 DEF SLICE_DURATION, SLICES_IN_TURN
<1> QED
  BY <1>2, <1>4, SlicesInCycle DEF DurationOK

\* set_cycle_duration
LEMMA RoundedUp ==
  ASSUME NEW duration \in Nat \ {0}, CYCLE_DURATION = SetCycleDuration(duration)
  PROVE  DurationOK
<1>1. PICK d \in Nat \ {0} : d = SLICES_IN_CYCLE
  BY SlicesInCycle
<1>2. PICK q : q = duration \div d
  OBVIOUS
<1>3. PICK r : r = duration % d
  OBVIOUS
<1>4. q \in Int /\ r \in 0..(d - 1) /\ duration = d * q + r
  <2>1. Divided(duration, d, q, r) /\ duration \in Int
    BY <1>2, <1>3 DEF Divided
  <2> QED
    BY <2>1, Split
<1>5. q >= 0
  BY <1>2, DivisionNatural
<1>6. CYCLE_DURATION = IF r = 0 THEN duration ELSE d * (q + 1)
  BY <1>1, <1>2, <1>3 DEF SetCycleDuration
<1>7. CASE r = 0
  <2>1. q # 0 /\ duration = d * q
    BY <1>4, <1>7
  <2> QED
    BY <1>1, <1>4, <1>5, <1>6, <1>7, <2>1, WholeSlices
<1>8. CASE r # 0
  <2>1. CYCLE_DURATION = d * (q + 1) /\ q + 1 \in Nat \ {0}
    BY <1>4, <1>5, <1>6, <1>8
  <2>2. PICK w \in Nat \ {0} : w = q + 1
    BY <2>1
  <2> QED
    BY <1>1, <2>1, <2>2, WholeSlices
<1> QED
  BY <1>7, <1>8

\* update_time and next_slice_time: the turn and the slice of a time, and the
\* beginning of the slice that follows.  Here in plain numbers: n turns of three
\* slices of length s.
SliceParts(s, n, t, C, T, c, u, turn, slice) ==
  /\ C = s * (3 * n) /\ T = 3 * s
  /\ c = t % C /\ turn = c \div T
  /\ u = c % T /\ slice = u \div s

\* The next slice begins one slice after the one t falls in.
SliceFound(s, n, t, C, c, turn, slice) ==
  /\ turn \in 0..(n - 1) /\ slice \in 0..2 /\ c \in 0..(C - 1)
  /\ (t - c) + s * (3 * turn + slice + 1) = s * ((t \div s) + 1)

LEMMA SliceArithmetic ==
  ASSUME NEW s \in Nat \ {0}, NEW n \in Nat \ {0}, NEW t \in Nat,
         NEW C, NEW T, NEW c, NEW u, NEW turn, NEW slice,
         SliceParts(s, n, t, C, T, c, u, turn, slice)
  PROVE  SliceFound(s, n, t, C, c, turn, slice)
<1>1. /\ C = s * (3 * n) /\ T = 3 * s /\ c = t % C /\ turn = c \div T
      /\ u = c % T /\ slice = u \div s
  BY DEF SliceParts
<1>2. T \in Nat \ {0} /\ C \in Nat \ {0} /\ C = T * n
  BY <1>1
<1>3. PICK Q : Q = t \div C
  OBVIOUS
<1>4. Q \in Int /\ c \in 0..(C - 1) /\ t = C * Q + c
  <2>1. Divided(t, C, Q, c) /\ t \in Int
    BY <1>1, <1>3 DEF Divided
  <2> QED
    BY <1>2, <2>1, Split
<1>5. turn \in Int /\ u \in 0..(T - 1) /\ c = T * turn + u
  <2>1. Divided(c, T, turn, u)
    BY <1>1 DEF Divided
  <2>2. c \in Int
    BY <1>2, <1>4
  <2> QED
    BY <1>2, <2>1, <2>2, Split
<1>6. PICK r : r = u % s
  OBVIOUS
<1>7. slice \in Int /\ r \in 0..(s - 1) /\ u = s * slice + r
  <2>1. Divided(u, s, slice, r)
    BY <1>1, <1>6 DEF Divided
  <2>2. u \in Int
    BY <1>2, <1>5
  <2> QED
    BY <2>1, <2>2, Split
<1>8. turn \in 0..(n - 1)
  <2>1. T * 0 <= c /\ c < T * n /\ c \in Int /\ turn = c \div T
    BY <1>1, <1>2, <1>4
  <2>2. 0 <= turn /\ turn < n
    BY <1>2, <2>1, DivisionMonotone
  <2> QED
    BY <1>5, <2>2
<1>9. slice \in 0..2
  <2>1. s * 0 <= u /\ u < s * 3 /\ u \in Int /\ slice = u \div s
    BY <1>1, <1>2, <1>5
  <2>2. 0 <= slice /\ slice < 3
    BY <2>1, DivisionMonotone
  <2> QED
    BY <1>7, <2>2
<1>10. PICK a \in Int : a = (3 * n) * Q
  BY <1>4
<1>11. PICK b \in Int : b = 3 * turn
  BY <1>5
<1>12. C * Q = s * a
  BY <1>1, <1>4, <1>10
<1>13. T * turn = s * b
  BY <1>1, <1>5, <1>11
<1>14. PICK m \in Int : m = a + b + slice
  BY <1>7
<1>15. s * m = s * a + s * b + s * slice
  BY <1>7, <1>14
<1>16. t = s * m + r
  BY <1>2, <1>4, <1>5, <1>7, <1>12, <1>13, <1>15
<1>17. t \div s = m
  <2>1. (s * m + r) \div s = m
    BY <1>7, DivisionUnique
  <2> QED
    BY <1>16, <2>1
<1>18. (t - c) + s * (b + slice + 1) = s * (m + 1)
  <2>1. t - c = s * a
    BY <1>2, <1>4, <1>12
  <2>2. s * (b + slice + 1) = s * b + s * slice + s
    BY <1>7
  <2>3. s * (m + 1) = s * m + s
    OBVIOUS
  <2> QED
    BY <1>7, <1>15, <2>1, <2>2, <2>3
<1> QED
  BY <1>4, <1>8, <1>9, <1>11, <1>17, <1>18 DEF SliceFound

LEMMA NextSliceStart ==
  ASSUME DurationOK, NEW t \in Nat,
         NEW turn, turn = (t % CYCLE_DURATION) \div TURN_DURATION,
         NEW slice, slice = ((t % CYCLE_DURATION) % TURN_DURATION) \div SLICE_DURATION
  PROVE  /\ turn \in 0..(AMOUNT_NODES - 1) /\ slice \in 0..2
         /\ NextSliceTime(t, turn, slice) = SLICE_DURATION * (SliceAt(t) + 1)
<1>1. /\ SLICE_DURATION \in Nat \ {0} /\ AMOUNT_NODES \in Nat \ {0}
      /\ CYCLE_DURATION = SLICE_DURATION * (3 * AMOUNT_NODES)
      /\ TURN_DURATION = 3 * SLICE_DURATION
  BY SlicesInCycle DEF DurationOK
<1>2. PICK c : c = t % CYCLE_DURATION
  OBVIOUS
<1>3. PICK u : u = c % TURN_DURATION
  OBVIOUS
<1>4. turn = c \div TURN_DURATION /\ slice = u \div SLICE_DURATION
  BY <1>2, <1>3
<1>5. /\ turn \in 0..(AMOUNT_NODES - 1) /\ slice \in 0..2 /\ c \in 0..(CYCLE_DURATION - 1)
      /\ (t - c) + SLICE_DURATION * (3 * turn + slice + 1)
            = SLICE_DURATION * ((t \div SLICE_DURATION) + 1)
  <2>1. PICK S : S = SLICE_DURATION
    OBVIOUS
  <2>2. PICK n : n = AMOUNT_NODES
    OBVIOUS
  <2>3. PICK C : C = CYCLE_DURATION
    OBVIOUS
  <2>4. PICK T : T = TURN_DURATION
    OBVIOUS
  <2>5. S \in Nat \ {0} /\ n \in Nat \ {0} /\ t \in Nat
    BY <1>1, <2>1, <2>2
  <2>6. SliceParts(S, n, t, C, T, c, u, turn, slice)
    BY <1>1, <1>2, <1>3, <1>4, <2>1, <2>2, <2>3, <2>4, Zenon DEF SliceParts
  <2>7. SliceFound(S, n, t, C, c, turn, slice)
    BY <2>5, <2>6, SliceArithmetic
  <2> QED
    BY <2>1, <2>2, <2>3, <2>7, Zenon DEF SliceFound
<1>6. NextSliceTime(t, turn, slice) = (t - c) + SLICE_DURATION * (3 * turn + slice + 1)
  <2>1. CASE slice = 2
    BY <1>2, <1>5, <2>1 DEF NextSliceTime, SLICES_IN_TURN
  <2>2. CASE slice \in 0..1
    BY <1>2, <1>5, <2>2 DEF NextSliceTime, SLICES_IN_TURN
  <2> QED
    BY <1>5, <2>1, <2>2
<1> QED
  BY <1>5, <1>6 DEF SliceAt

-----------------------------------------------------------------------------
(* The invariant                                                            *)

\* A process that has woken up is to be woken at the beginning of the next slice.
WakeAtNextSlice == Awake => wake = SLICE_DURATION * (SliceAt(context.epoch_us) + 1)

\* increase_cycle has counted a cycle iff one has passed since the start.
CycleCounted ==
  /\ context.cycle = 0 =>
       context.cycle_start_time = born /\ context.epoch_us < born + CYCLE_DURATION
  /\ context.cycle = 1 => born + CYCLE_DURATION <= context.epoch_us

ClockTypes ==
  /\ context.cycle \in {0, 1} /\ context.cycle_start_time \in Nat
  /\ context.epoch_us \in Nat /\ context.turn \in 0..(AMOUNT_NODES - 1)
  /\ context.slice \in 0..2 /\ wake \in Nat /\ born \in Nat
  /\ born <= context.epoch_us /\ born <= context.cycle_start_time

TimeInv == DurationOK /\ ClockTypes /\ WakeAtNextSlice /\ CycleCounted

LEMMA TimeInit == Init => TimeInv
<1> SUFFICES ASSUME Init PROVE TimeInv
  OBVIOUS
<1>1. PICK duration \in Requested : CYCLE_DURATION = SetCycleDuration(duration)
  BY DEF Init
<1>2. PICK t \in InitTimes :
        /\ context = [cycle |-> 0, cycle_start_time |-> t, epoch_us |-> t,
                      time_remaining |-> 0, turn |-> 0, slice |-> MEMBERSHIP]
        /\ wake = t /\ born = t
  BY DEF Init
<1>3. duration \in Nat \ {0} /\ t \in Nat
  BY TimeAssumption DEF TimeAssumption
<1>4. DurationOK
  BY <1>1, <1>3, RoundedUp
<1>5. CYCLE_DURATION \in Nat \ {0}
  BY <1>4, SlicesInCycle DEF DurationOK
<1>6. ClockTypes
  BY <1>2, <1>3, SlicesInCycle DEF ClockTypes, MEMBERSHIP
<1>7. WakeAtNextSlice
  BY <1>2 DEF WakeAtNextSlice, Awake
<1>8. CycleCounted
  BY <1>2, <1>3, <1>5 DEF CycleCounted
<1> QED
  BY <1>4, <1>6, <1>7, <1>8 DEF TimeInv

\* The times at which a process wakes up: never before the one it asked for.
LEMMA WakesInTime ==
  ASSUME TimeInv, NEW current \in WakeTimes
  PROVE  /\ current \in Nat /\ context.epoch_us <= current /\ wake <= current
         /\ SliceAt(context.epoch_us) \in Int /\ SliceAt(current) \in Int
         /\ Awake => /\ Ready = SLICE_DURATION * (SliceAt(context.epoch_us) + 1)
                     /\ Ready <= current
<1>1. SLICE_DURATION \in Nat \ {0} /\ ClockTypes
  BY DEF TimeInv, DurationOK
<1>2. MaxDelay \in Nat
  BY TimeAssumption DEF TimeAssumption
<1>3. Ready \in Nat /\ context.epoch_us <= Ready /\ wake <= Ready
  BY <1>1 DEF ClockTypes, Ready
<1>4. current \in Nat /\ Ready <= current
  BY <1>2, <1>3 DEF WakeTimes
<1>5. PICK e \in Nat : e = context.epoch_us
  BY <1>1 DEF ClockTypes
<1>6. PICK s \in Nat \ {0} : s = SLICE_DURATION
  BY <1>1
<1>7. PICK k : k = SliceAt(e)
  OBVIOUS
<1>8. k \in Int /\ e < s * (k + 1)
  <2>1. k = e \div s
    BY <1>6, <1>7 DEF SliceAt
  <2>2. PICK r : r = e % s
    OBVIOUS
  <2>3. Divided(e, s, k, r) /\ e \in Int
    BY <2>1, <2>2 DEF Divided
  <2>4. k \in Int /\ r \in 0..(s - 1) /\ e = s * k + r
    BY <2>3, Split
  <2>5. s * (k + 1) = s * k + s
    BY <2>4
  <2> QED
    BY <2>4, <2>5
<1>9. SliceAt(current) \in Int
  BY <1>1, <1>4, Division DEF SliceAt
<1>10. ASSUME Awake PROVE Ready = s * (k + 1)
  <2>1. wake = s * (k + 1)
    BY <1>5, <1>6, <1>7, <1>10 DEF TimeInv, WakeAtNextSlice
  <2>2. wake \in Nat
    BY <1>1 DEF ClockTypes
  <2> QED
    BY <1>5, <1>8, <2>1, <2>2 DEF Ready
<1>11. wake <= Ready
  BY <1>1 DEF ClockTypes, Ready
<1>12. wake <= current
  BY <1>1, <1>3, <1>4, <1>11 DEF ClockTypes
<1>13. context.epoch_us <= current
  BY <1>1, <1>3, <1>4 DEF ClockTypes
<1>14. SliceAt(context.epoch_us) = k
  BY <1>5, <1>7
<1> QED
  BY <1>4, <1>6, <1>8, <1>9, <1>10, <1>12, <1>13, <1>14, Zenon

LEMMA WakeUpStays ==
  ASSUME TimeInv, NEW current \in WakeTimes, UpdateTime(current),
         wake' = NextSliceTime(context'.epoch_us, context'.turn, context'.slice),
         UNCHANGED <<CYCLE_DURATION, born>>
  PROVE  TimeInv'
<1>1. current \in Nat /\ context.epoch_us <= current /\ ClockTypes /\ DurationOK
  BY WakesInTime DEF TimeInv
<1>2. CYCLE_DURATION \in Nat \ {0} /\ SLICE_DURATION \in Nat \ {0}
  BY <1>1, SlicesInCycle DEF DurationOK
<1>3. /\ context'.epoch_us = current
      /\ context'.cycle = IF NewCycleAt(current) THEN 1 ELSE context.cycle
      /\ context'.cycle_start_time = IF NewCycleAt(current) THEN current
                                     ELSE context.cycle_start_time
      /\ context'.turn = (current % CYCLE_DURATION) \div TURN_DURATION
      /\ context'.slice = ((current % CYCLE_DURATION) % TURN_DURATION) \div SLICE_DURATION
  BY DEF UpdateTime
<1>4. /\ context'.turn \in 0..(AMOUNT_NODES - 1) /\ context'.slice \in 0..2
      /\ NextSliceTime(current, context'.turn, context'.slice)
            = SLICE_DURATION * (SliceAt(current) + 1)
  BY <1>1, <1>3, NextSliceStart
<1>5. /\ SLICE_DURATION' = SLICE_DURATION /\ TURN_DURATION' = TURN_DURATION
      /\ SliceAt(current)' = SliceAt(current)
      /\ CYCLE_DURATION' = CYCLE_DURATION /\ born' = born
  BY DEF SLICE_DURATION, TURN_DURATION, SliceAt
<1>6. DurationOK'
  BY <1>1, <1>5 DEF DurationOK
<1>7. wake' = SLICE_DURATION * (SliceAt(current) + 1) /\ wake' \in Nat
  <2>1. wake' = SLICE_DURATION * (SliceAt(current) + 1)
    BY <1>3, <1>4
  <2>2. PICK k : k = SliceAt(current)
    OBVIOUS
  <2>3. PICK s \in Nat \ {0} : s = SLICE_DURATION
    BY <1>2
  <2>4. k = current \div s
    BY <2>2, <2>3 DEF SliceAt
  <2>5. k \in Nat
    BY <1>1, <2>4, DivisionNatural
  <2>6. s * (k + 1) \in Nat
    BY <2>5
  <2> QED
    BY <2>1, <2>2, <2>3, <2>6
<1>8. ClockTypes'
  BY <1>1, <1>3, <1>4, <1>5, <1>7 DEF ClockTypes
<1>9. WakeAtNextSlice'
  BY <1>3, <1>5, <1>7 DEF WakeAtNextSlice, SliceAt
<1>10. CycleCounted'
  <2>1. CASE NewCycleAt(current)
    BY <1>1, <1>2, <1>3, <1>5, <2>1 DEF NewCycleAt, CycleCounted, ClockTypes
  <2>2. CASE ~NewCycleAt(current)
    <3>1. CycleCounted
      BY DEF TimeInv
    <3> QED
      BY <1>1, <1>2, <1>3, <1>5, <2>2, <3>1 DEF NewCycleAt, CycleCounted, ClockTypes
  <2> QED
    BY <2>1, <2>2
<1> QED
  BY <1>6, <1>8, <1>9, <1>10 DEF TimeInv

LEMMA TimeNext == TimeInv /\ [Next]_vars => TimeInv'
<1> SUFFICES ASSUME TimeInv, [Next]_vars PROVE TimeInv'
  OBVIOUS
<1>1. CASE WakeUp
  <2>1. PICK current \in WakeTimes : UpdateTime(current)
    BY <1>1 DEF WakeUp
  <2> QED
    BY <1>1, <2>1, WakeUpStays DEF WakeUp
<1>2. CASE SkipSlice \/ Quit \/ UNCHANGED vars
  BY <1>2 DEF SkipSlice, Quit, vars, TimeInv, DurationOK, ClockTypes, WakeAtNextSlice,
     CycleCounted, Awake, SliceAt, SLICE_DURATION, TURN_DURATION
<1> QED
  BY <1>1, <1>2 DEF Next

LEMMA TimeInvariant == Spec => []TimeInv
BY TimeInit, TimeNext, PTL DEF Spec

-----------------------------------------------------------------------------
(* The theorems                                                             *)

\* The sender of a slice is always one of the nodes, and a cycle consists of
\* whole slices, whatever duration was asked for (set_cycle_duration,
\* update_time).
THEOREM TurnsInRange == Spec => []ClockInRange
<1>1. TimeInv => ClockInRange
  BY SlicesInCycle DEF TimeInv, ClockTypes, DurationOK, ClockInRange, SLICES_IN_TURN
<1> QED
  BY <1>1, TimeInvariant, PTL

\* A wake-up, however late, is in a later slice than the one before, and less
\* than a slice late it is in the very next one.
LEMMA NextWakeUp ==
  ASSUME TimeInv, [Next]_vars, context' # context, Awake
  PROVE  /\ SliceAt(context'.epoch_us) > SliceAt(context.epoch_us)
         /\ context'.epoch_us < Ready + SLICE_DURATION =>
              SliceAt(context'.epoch_us) = SliceAt(context.epoch_us) + 1
<1>1. PICK current \in WakeTimes : UpdateTime(current)
  BY DEF Next, WakeUp, SkipSlice, Quit, vars
<1>2. context'.epoch_us = current
  BY <1>1 DEF UpdateTime
<1>3. PICK k \in Int : k = SliceAt(context.epoch_us)
  BY <1>1, WakesInTime
<1>4. PICK s \in Nat \ {0} : s = SLICE_DURATION
  BY DEF TimeInv, DurationOK
<1>5. current \in Nat /\ Ready = s * (k + 1) /\ Ready <= current
  BY <1>1, <1>3, <1>4, WakesInTime
<1>6. SliceAt(current) \in Int /\ SliceAt(current) = current \div s
  BY <1>1, <1>4, WakesInTime DEF SliceAt
<1>7. k + 1 <= SliceAt(current)
  BY <1>5, <1>6, DivisionMonotone
<1>8. ASSUME current < Ready + s PROVE SliceAt(current) < k + 2
  <2>1. s * (k + 2) = s * (k + 1) + s
    OBVIOUS
  <2>2. current < s * (k + 2)
    BY <1>5, <1>8, <2>1
  <2> QED
    BY <1>5, <1>6, <2>2, DivisionMonotone
<1> QED
  BY <1>2, <1>3, <1>4, <1>6, <1>7, <1>8

\* No process runs the handlers of a slice twice, however late it wakes up.
THEOREM SlicesOnce == Spec => NoSliceTwice
<1>1. TimeInv /\ [Next]_vars =>
        [context' # context /\ Awake =>
           SliceAt(context'.epoch_us) > SliceAt(context.epoch_us)]_vars
  BY NextWakeUp
<1> QED
  BY <1>1, TimeInvariant, PTL DEF Spec, NoSliceTwice

\* A process woken less than a slice late runs every slice in order.
THEOREM SlicesInOrder == Spec => EverySliceInOrder
<1>1. TimeInv /\ [Next]_vars =>
        [context' # context /\ Awake /\ context'.epoch_us < Ready + SLICE_DURATION =>
           SliceAt(context'.epoch_us) = SliceAt(context.epoch_us) + 1]_vars
  BY NextWakeUp
<1> QED
  BY <1>1, TimeInvariant, PTL DEF Spec, EverySliceInOrder

\* context.cycle follows from the number of slices since the start, except in
\* the slice a cycle after it.
THEOREM CycleFromAge == Spec => []AgeTellsCycle
<1>1. TimeInv => AgeTellsCycle
  <2> SUFFICES ASSUME TimeInv PROVE AgeTellsCycle
    OBVIOUS
  <2>1. PICK M \in Nat \ {0} : M = SLICES_IN_CYCLE
    BY SlicesInCycle
  <2>2. PICK s \in Nat \ {0} : s = SLICE_DURATION
    BY DEF TimeInv, DurationOK
  <2>3. CYCLE_DURATION = s * M
    BY <2>1, <2>2 DEF TimeInv, DurationOK
  <2>4. PICK e \in Nat : e = context.epoch_us
    BY DEF TimeInv, ClockTypes
  <2>5. PICK b \in Nat : b = born
    BY DEF TimeInv, ClockTypes
  <2>6. PICK j : j = b \div s
    OBVIOUS
  <2>7. PICK r : r = b % s
    OBVIOUS
  <2>8. j \in Int /\ r \in 0..(s - 1) /\ b = s * j + r
    <3>1. Divided(b, s, j, r) /\ b \in Int
      BY <2>6, <2>7 DEF Divided
    <3> QED
      BY <3>1, Split
  <2>9. e \div s \in Int
    BY Division
  <2>10. s * (j + M) = s * j + s * M /\ s * (j + M + 1) = s * (j + M) + s
    BY <2>8
  <2>11. b + s * M <= e => j + M <= e \div s
    <3>1. b + s * M <= e => s * (j + M) <= e
      BY <2>8, <2>10
    <3> QED
      BY <2>8, <3>1, DivisionMonotone
  <2>12. e < b + s * M => e \div s < j + M + 1
    <3>1. e < b + s * M => e < s * (j + M + 1)
      BY <2>8, <2>10
    <3> QED
      BY <2>8, <3>1, DivisionMonotone
  <2>13. SliceAt(context.epoch_us) = e \div s /\ SliceAt(born) = j
    BY <2>2, <2>4, <2>5, <2>6 DEF SliceAt
  <2>14. /\ context.cycle \in {0, 1}
         /\ context.cycle = 0 => e < b + s * M
         /\ context.cycle = 1 => b + s * M <= e
    BY <2>3, <2>4, <2>5 DEF TimeInv, ClockTypes, CycleCounted
  <2> QED
    BY <2>1, <2>8, <2>9, <2>11, <2>12, <2>13, <2>14 DEF AgeTellsCycle
<1> QED
  BY <1>1, TimeInvariant, PTL
=============================================================================
