----------------------------- MODULE SocketProofs -----------------------------
(***************************************************************************)
(* Proofs about Socket, for any number of nodes, any process, any length   *)
(* of a slice, any number of turns and any delays: what copies that come   *)
(* late, however late, can do to a process that receives, and what not.    *)
(***************************************************************************)
EXTENDS Socket, SequenceTheorems, WellFoundedInduction, TLAPS

-----------------------------------------------------------------------------
(* What the theorems assume of the process                                  *)

\* A process that is ready for a slice enters receive_message within a slice
\* and MAX_RECV_DELAY.  A slice has at least 10 microseconds, so that
\* MAX_RECV_DELAY is not 0.  Nothing is assumed of the delays.
Punctual ==
  /\ \A late \in Lateness : late <= SLICE_DURATION + MAX_RECV_DELAY
  /\ SLICE_DURATION >= 10

-----------------------------------------------------------------------------
(* The inductive invariant                                                  *)

Copy   == [msg : Nat, copy : {1, 2}, at : Nat]
Result == [turn : Nat \cup {None}, msg : Nat \cup {None}, at : Nat]

TypeOK ==
  /\ now \in Nat /\ sent \in Nat
  /\ flying \subseteq Copy /\ socket \in Seq(Nat) /\ arrived \subseteq Nat
  /\ overdue \subseteq [msg : Nat, at : Nat]
  /\ waiting \in BOOLEAN
  /\ turn \in Nat /\ ts \in Nat /\ timer \in Nat
  /\ result \in Result

\* A message is on its way only after its turn has begun.
OnTheWay ==
  /\ now <= SliceStart(sent)
  /\ sent > 0 => SliceStart(sent - 1) <= now
  /\ \A copy \in flying : /\ copy.msg < sent
                          /\ now <= copy.at
                          /\ SliceStart(copy.msg) <= copy.at

\* The process is at its next turn and never early for it.  The turns that it
\* has left out are its own or over, so that the turn is at most two ahead.
OnTime ==
  /\ now <= timer /\ SliceStart(turn) <= timer
  /\ ~waiting => timer <= SliceEnd(turn) + SLICE_DURATION + MAX_RECV_DELAY
  /\ waiting => SliceStart(turn) <= now
  /\ SliceStart(turn - 2) <= now
  /\ result.turn < turn /\ result.at <= now

\* A message that overtakes another one is overdue.  A process that waits into
\* the next turn reads every message as it comes.
Queue ==
  /\ \A i \in 1..Len(socket) : socket[i] < sent /\ SliceStart(socket[i]) <= now
  /\ \A i, j \in 1..Len(socket) :
       i < j => socket[i] <= socket[j] \/ Overdue(socket[j])
  /\ waiting => now < SliceStart(turn + 1) \/ Len(socket) <= 1

\* After a receive_message that has emptied the socket up to its own turn, the
\* sender of the turn has no earlier message in the socket but overdue ones.
NothingStale ==
  ~Stale(result) /\ ~Refused(result) =>
    \A i \in 1..Len(socket) :
      Expected(socket[i]) /\ socket[i] < turn => Overdue(socket[i])

\* A message that has arrived in its slice waits for its turn, or is received.
Kept ==
  /\ \A k \in arrived : SliceStart(k) <= now
  /\ BackBefore(turn) /\ turn \in arrived =>
       \E i \in 1..Len(socket) : socket[i] = turn

OnlyExpected == \A i \in 1..Len(socket) : Expected(socket[i])

\* Until an overdue message comes, one of another sender has been there when
\* receive_message was entered, and is thrown away then: timer has its first
\* value.
Undisturbed ==
  BackBefore(turn) /\ ~Comes(SliceStart(turn), SliceEnd(turn) + MAX_RECV_DELAY) =>
    /\ timer <= SliceEnd(turn) + MAX_RECV_DELAY
    /\ waiting => now + ts = timer \/ OnlyExpected

\* After the end of the slice, too: the timeout has started again before that,
\* and is no longer than a slice and MAX_RECV_DELAY.
NotOverslept ==
  waiting /\ ~Comes(SliceEnd(turn) + 1, SliceStart(turn + 1) - 1) =>
    /\ timer < SliceStart(turn + 1)
    /\ ts <= SLICE_DURATION + MAX_RECV_DELAY
    /\ SliceEnd(turn) < now => now + ts = timer \/ OnlyExpected

Inv ==
  /\ TypeOK /\ OnTheWay /\ OnTime /\ Queue
  /\ NothingStale /\ Kept /\ Undisturbed /\ NotOverslept

-----------------------------------------------------------------------------
(* Times                                                                    *)

LEMMA Delay == ASSUME Punctual
               PROVE  /\ SLICE_DURATION \in Nat /\ SLICE_DURATION >= 10
                      /\ MAX_RECV_DELAY \in Nat /\ MAX_RECV_DELAY > 0
                      /\ MAX_RECV_DELAY < SLICE_DURATION
  BY SocketAssumption DEF Punctual, MAX_RECV_DELAY

LEMMA Distributive == \A a, b, c \in Int : (a + b) * c = a * c + b * c
  OBVIOUS

LEMMA ProductNatural == \A a, b \in Nat : a * b \in Nat
  OBVIOUS

\* SEND slices are three slices apart.
LEMMA SliceTimes ==
  ASSUME Punctual
  PROVE  /\ \A k \in Int : SliceStart(k) \in Int /\ SliceEnd(k) = SliceStart(k) + SLICE_DURATION
         /\ \A k \in Nat : SliceStart(k) \in Nat /\ SliceEnd(k) \in Nat
         /\ SliceStart(0) = SLICE_DURATION
         /\ \A k \in Int : SliceStart(k + 1) = SliceStart(k) + 3 * SLICE_DURATION
<1>1. SLICE_DURATION \in Nat
  BY Delay
<1>2. ASSUME NEW k \in Int
      PROVE  /\ SliceStart(k) \in Int /\ SliceEnd(k) = SliceStart(k) + SLICE_DURATION
             /\ SliceStart(k + 1) = SliceStart(k) + 3 * SLICE_DURATION
  <2>1. (k * 3 + 1) * SLICE_DURATION \in Int
    BY <1>1
  <2>2. (k + 1) * 3 + 1 = (k * 3 + 1) + 3
    OBVIOUS
  <2>3. ((k * 3 + 1) + 3) * SLICE_DURATION = (k * 3 + 1) * SLICE_DURATION + 3 * SLICE_DURATION
    BY <1>1, Distributive
  <2>4. QED
    BY <2>1, <2>2, <2>3 DEF SliceStart, SliceEnd, SLICES_IN_TURN
<1>3. ASSUME NEW k \in Nat
      PROVE  SliceStart(k) \in Nat
  <2>1. k * 3 + 1 \in Nat
    OBVIOUS
  <2>2. (k * 3 + 1) * SLICE_DURATION \in Nat
    BY <1>1, <2>1, ProductNatural
  <2>3. QED
    BY <2>2 DEF SliceStart, SLICES_IN_TURN
<1>4. SliceStart(0) = SLICE_DURATION
  BY <1>1 DEF SliceStart, SLICES_IN_TURN
<1>5. QED
  BY <1>1, <1>2, <1>3, <1>4

LEMMA SlicesInOrder ==
  ASSUME Punctual, NEW j \in Int, NEW k \in Int, j < k
  PROVE  SliceStart(j) + 3 * SLICE_DURATION <= SliceStart(k)
<1>1. SLICE_DURATION \in Nat
  BY Delay
<1>2. PICK d \in Nat : k = j + 1 + d
  <2>1. k - j - 1 \in Nat /\ k = j + 1 + (k - j - 1)
    OBVIOUS
  <2>2. QED
    BY <2>1
<1>3. SliceStart(k) = SliceStart(j) + 3 * SLICE_DURATION + (d * 3) * SLICE_DURATION
  <2>1. k * 3 + 1 = (j * 3 + 1) + (3 + d * 3)
    BY <1>2
  <2>2. /\ ((j * 3 + 1) + (3 + d * 3)) * SLICE_DURATION
             = (j * 3 + 1) * SLICE_DURATION + (3 + d * 3) * SLICE_DURATION
        /\ (3 + d * 3) * SLICE_DURATION = 3 * SLICE_DURATION + (d * 3) * SLICE_DURATION
    BY <1>1, Distributive
  <2>3. QED
    BY <1>1, <2>1, <2>2 DEF SliceStart, SLICES_IN_TURN
<1>4. (d * 3) * SLICE_DURATION \in Nat
  BY <1>1
<1>5. SliceStart(j) \in Int
  BY SliceTimes
<1>6. QED
  BY <1>1, <1>3, <1>4, <1>5

\* What a turn may be told from by a time.
LEMMA TurnOfTime ==
  ASSUME Punctual, NEW j \in Int, NEW k \in Int,
         SliceStart(j) < SliceStart(k + 1)
  PROVE  j <= k
<1>1. SUFFICES ASSUME k + 1 <= j PROVE FALSE
  OBVIOUS
<1>2. k + 1 \in Int /\ SliceStart(j) \in Int /\ SliceStart(k + 1) \in Int
  BY SliceTimes
<1>3. CASE k + 1 = j
  BY <1>2, <1>3
<1>4. CASE k + 1 < j
  BY <1>2, <1>4, SlicesInOrder, Delay
<1>5. QED
  BY <1>1, <1>3, <1>4

LEMMA LeastIs == ASSUME NEW S, NEW m \in S, S \subseteq Int, \A y \in S : m <= y
                 PROVE  Min(S) = m
<1>1. \E x \in S : \A y \in S : x <= y
  OBVIOUS
<1>2. Min(S) \in S /\ \A y \in S : Min(S) <= y
  BY <1>1, Zenon DEF Min
<1>3. Min(S) \in Int /\ m \in Int /\ Min(S) <= m /\ m <= Min(S)
  BY <1>2
<1>4. QED
  BY <1>3

LEMMA GreaterOf == ASSUME NEW a \in Int, NEW b \in Int
                   PROVE  /\ Max({a, b}) \in {a, b}
                          /\ a <= Max({a, b}) /\ b <= Max({a, b})
<1>1. \E x \in {a, b} : \A y \in {a, b} : x >= y
  OBVIOUS
<1>2. QED
  BY <1>1 DEF Max

\* The senders of three turns in a row are three nodes.
LEMMA ThreeSenders ==
  ASSUME NEW j \in Int
  PROVE  Sender(j) # Sender(j + 1) /\ Sender(j) # Sender(j + 2)
<1>1. AMOUNT_NODES \in {3, 4, 5, 6, 7, 8}
  BY SocketAssumption
<1>2. \A n \in {3, 4, 5, 6, 7, 8} : j % n # (j + 1) % n /\ j % n # (j + 2) % n
  OBVIOUS
<1>3. QED
  BY <1>1, <1>2 DEF Sender

\* Every turn begins later than its number says.
LEMMA TurnsAhead == ASSUME Punctual, NEW n \in Nat
                    PROVE  n < SliceStart(n)
<1>1. PICK s \in Nat : SLICE_DURATION = s + 1
  <2>1. SLICE_DURATION - 1 \in Nat /\ SLICE_DURATION = (SLICE_DURATION - 1) + 1
    BY Delay
  <2>2. QED
    BY <2>1
<1>2. (s + 1) * (n * 3 + 1) = s * (n * 3 + 1) + 1 * (n * 3 + 1)
  <2>1. n * 3 + 1 \in Int
    OBVIOUS
  <2>2. QED
    BY <2>1, Distributive
<1>3. s * (n * 3 + 1) \in Nat
  BY ProductNatural
<1>4. (n * 3 + 1) * (s + 1) = (s + 1) * (n * 3 + 1)
  OBVIOUS
<1>5. QED
  BY <1>1, <1>2, <1>3, <1>4 DEF SliceStart, SLICES_IN_TURN

LEMMA LeastExists == ASSUME NEW S, S \subseteq Nat, S # {}
                     PROVE  \E x \in S : \A y \in S : x <= y
<1> DEFINE R == {ss \in Nat \X Nat : ss[1] < ss[2]}
<1>1. IsWellFoundedOn(R, Nat)
  BY NatLessThanWellFounded DEF OpToRel
<1>2. PICK x \in S : \A y \in S : ~(<<y, x>> \in R)
  BY <1>1, WFMin
<1>3. ASSUME NEW y \in S PROVE x <= y
  <2>1. x \in Nat /\ y \in Nat /\ <<y, x>> \in Nat \X Nat
    OBVIOUS
  <2>2. ~(y < x)
    BY <1>2, <2>1
  <2>3. QED
    BY <2>1, <2>2
<1>4. QED
  BY <1>3

\* The turns that a process leaves out are its own ones and those that are over:
\* the SEND slice of the one before the last had begun.
LEMMA NextTurnIs ==
  ASSUME Punctual, NEW k \in Nat \cup {None}, NEW t \in Nat
  PROVE  /\ NextTurn(k, t) \in Nat /\ k < NextTurn(k, t)
         /\ t < SliceEnd(NextTurn(k, t))
         /\ NextTurn(k, t) <= k + 2 \/ SliceStart(NextTurn(k, t) - 2) <= t
<1> DEFINE S == {j \in (k + 1)..(k + t + 3) : Sender(j) # SELF_ID /\ SliceEnd(j) > t}
<1>1. k \in Int /\ k + 1 \in Nat
  BY DEF None
<1>2. SLICE_DURATION \in Nat
  BY Delay
<1>3. S \subseteq Nat
  BY <1>1
<1>4. S # {}
  <2>1. /\ k + t + 2 \in Nat /\ k + t + 3 \in Nat /\ t < k + t + 2
        /\ (k + t + 2) + 1 = k + t + 3
        /\ k + t + 2 \in (k + 1)..(k + t + 3) /\ k + t + 3 \in (k + 1)..(k + t + 3)
    BY <1>1
  <2>2. ASSUME NEW j \in Nat, t < j PROVE t < SliceEnd(j)
    BY <1>2, <2>2, TurnsAhead, SliceTimes
  <2>3. SliceEnd(k + t + 2) > t /\ SliceEnd(k + t + 3) > t
    <3>1. t < SliceEnd(k + t + 2) /\ t < SliceEnd(k + t + 3)
      BY <1>1, <2>1, <2>2
    <3>2. SliceEnd(k + t + 2) \in Int /\ SliceEnd(k + t + 3) \in Int
      BY <2>1, SliceTimes
    <3>3. QED
      BY <3>1, <3>2
  <2>4. Sender(k + t + 2) # SELF_ID \/ Sender(k + t + 3) # SELF_ID
    <3>1. k + t + 2 \in Int
      BY <2>1
    <3>2. QED
      BY <2>1, <3>1, ThreeSenders
  <2>5. k + t + 2 \in S \/ k + t + 3 \in S
    BY <2>1, <2>3, <2>4
  <2>6. QED
    BY <2>5
<1>5. PICK m \in S : \A y \in S : m <= y
  BY <1>3, <1>4, LeastExists
<1>6. NextTurn(k, t) = m
  <2>1. S \subseteq Int
    BY <1>3
  <2>2. Min(S) = m
    BY <1>5, <2>1, LeastIs
  <2>3. QED
    BY <2>2 DEF NextTurn
<1>7. m \in Nat /\ m \in (k + 1)..(k + t + 3) /\ SliceEnd(m) > t
  BY <1>3
<1>8. m <= k + 2 \/ SliceStart(m - 2) <= t
  <2>1. SUFFICES ASSUME k + 3 <= m PROVE SliceStart(m - 2) <= t
    BY <1>1, <1>7
  <2>2. /\ m - 2 \in Int /\ m - 1 \in Int /\ (m - 2) + 1 = m - 1
        /\ m - 2 \in (k + 1)..(k + t + 3) /\ m - 1 \in (k + 1)..(k + t + 3)
    BY <1>1, <1>7, <2>1
  <2>3. m - 2 \notin S /\ m - 1 \notin S
    <3>1. ~(m <= m - 2) /\ ~(m <= m - 1)
      BY <1>7
    <3>2. QED
      BY <1>5, <3>1
  <2>4. Sender(m - 2) # SELF_ID \/ Sender(m - 1) # SELF_ID
    BY <2>2, ThreeSenders
  <2>5. ~(SliceEnd(m - 2) > t) \/ ~(SliceEnd(m - 1) > t)
    BY <2>2, <2>3, <2>4
  <2>6. /\ SliceStart(m - 2) \in Int /\ SliceStart(m - 1) \in Int
        /\ SliceEnd(m - 2) = SliceStart(m - 2) + SLICE_DURATION
        /\ SliceEnd(m - 1) = SliceStart(m - 1) + SLICE_DURATION
        /\ SliceStart(m - 1) = SliceStart(m - 2) + 3 * SLICE_DURATION
    BY <2>2, SliceTimes
  <2>7. QED
    BY <1>2, <2>5, <2>6
<1>9. t < SliceEnd(m) /\ k < m
  BY <1>1, <1>7, SliceTimes
<1>10. QED
  BY <1>6, <1>7, <1>8, <1>9

LEMMA Entry ==
  ASSUME Punctual, NEW k \in Nat, NEW t \in Nat, t < SliceEnd(k),
         NEW entry \in EntryTimes(k, t)
  PROVE  /\ entry \in Nat /\ t <= entry /\ SliceStart(k) <= entry
         /\ entry <= SliceEnd(k) + SLICE_DURATION + MAX_RECV_DELAY
         /\ t < SliceStart(k) => entry <= SliceEnd(k) + MAX_RECV_DELAY
<1>1. PICK s \in Nat : s = SliceStart(k)
  BY SliceTimes
<1>2. PICK m \in {t, s} : m = Max({t, s}) /\ t <= m /\ s <= m
  BY GreaterOf
<1>3. PICK late \in Lateness : entry = m + late
  BY <1>1, <1>2 DEF EntryTimes
<1>4. late \in Nat /\ late <= SLICE_DURATION + MAX_RECV_DELAY
  BY SocketAssumption DEF Punctual
<1>5. SliceEnd(k) = s + SLICE_DURATION /\ SLICE_DURATION \in Nat /\ MAX_RECV_DELAY \in Nat
  BY <1>1, SliceTimes, Delay
<1>6. QED
  BY <1>1, <1>2, <1>3, <1>4, <1>5

\* Up to MAX_RECV_DELAY after the end of the slice, the timeout ends exactly
\* MAX_RECV_DELAY after it: a negative time to the next slice, which is a huge
\* unsigned number, becomes a timeout again when MAX_RECV_DELAY is added.
\* Later than that us_to_ts makes it 0.  A time of 0 is the end of the slice.
LEMMA Timeout ==
  ASSUME Punctual, NEW k \in Nat, NEW t \in Nat,
         SliceStart(k) <= t, t <= SliceEnd(k) + SLICE_DURATION + MAX_RECV_DELAY
  PROVE  LET time_to_next_slice == TimeToNextSlice(k, t)
             timeout == UsToTs((time_to_next_slice + MAX_RECV_DELAY) % UINT64)
         IN  /\ time_to_next_slice \in Nat
             /\ time_to_next_slice = 0 => t = SliceEnd(k)
             /\ timeout \in Nat /\ timeout <= SLICE_DURATION + MAX_RECV_DELAY
             /\ t + timeout = IF t <= SliceEnd(k) + MAX_RECV_DELAY
                              THEN SliceEnd(k) + MAX_RECV_DELAY ELSE t
<1> DEFINE d == SliceEnd(k) - t
           u == TimeToNextSlice(k, t)
           v == d + MAX_RECV_DELAY
           w == (u + MAX_RECV_DELAY) % UINT64
<1>1. /\ SliceStart(k) \in Nat /\ SliceEnd(k) = SliceStart(k) + SLICE_DURATION
      /\ SLICE_DURATION \in Nat /\ SLICE_DURATION >= 10
      /\ MAX_RECV_DELAY \in Nat /\ MAX_RECV_DELAY < SLICE_DURATION
  BY SliceTimes, Delay
<1>2. /\ d \in Int /\ d <= SLICE_DURATION /\ d + SLICE_DURATION + MAX_RECV_DELAY >= 0
      /\ v \in Int
  BY <1>1
<1>3. UINT64 \in Nat /\ 100 * SLICE_DURATION < UINT64
  <2>1. UINT64 \in Nat /\ 100 * SLICE_DURATION * (LastTurn + 1) < UINT64
    BY SocketAssumption
  <2>2. SLICE_DURATION * LastTurn \in Nat
    BY SocketAssumption
  <2>3. 100 * SLICE_DURATION * (LastTurn + 1) = 100 * SLICE_DURATION + 100 * (SLICE_DURATION * LastTurn)
    BY SocketAssumption
  <2>4. QED
    BY <1>1, <2>1, <2>2, <2>3
<1>4. u = IF d >= 0 THEN d ELSE d + UINT64
  <2> DEFINE r == IF d >= 0 THEN d ELSE d + UINT64
  <2>1. r \in Nat /\ r < UINT64
    BY <1>1, <1>2, <1>3
  <2>2. r % UINT64 = r
    BY <1>3, <2>1
  <2>3. d % UINT64 = r
    BY <1>2, <1>3, <2>1, <2>2
  <2>4. QED
    BY <2>3 DEF TimeToNextSlice
<1>5. w = IF v >= 0 THEN v ELSE v + UINT64
  <2> HIDE DEF u, d
  <2>1. CASE d >= 0
    <3>1. u + MAX_RECV_DELAY = v /\ v \in 0..(UINT64 - 1)
      BY <1>1, <1>2, <1>3, <1>4, <2>1
    <3>2. QED
      BY <1>3, <3>1
  <2>2. CASE d < 0 /\ v >= 0
    <3>1. u + MAX_RECV_DELAY = v + UINT64 /\ v \in 0..(UINT64 - 1)
      BY <1>1, <1>2, <1>3, <1>4, <2>2
    <3>2. QED
      BY <1>3, <2>2, <3>1
  <2>3. CASE d < 0 /\ v < 0
    <3>1. u + MAX_RECV_DELAY = v + UINT64 /\ v + UINT64 \in 0..(UINT64 - 1)
      BY <1>1, <1>2, <1>3, <1>4, <2>3
    <3>2. QED
      BY <1>2, <1>3, <2>3, <3>1
  <2>4. QED
    BY <1>1, <1>2, <2>1, <2>2, <2>3
<1>6. u \in Nat /\ (u = 0 => d = 0)
  BY <1>1, <1>2, <1>3, <1>4
<1> HIDE DEF u, w, d, v
<1>7. UsToTs(w) = IF v >= 0 THEN v ELSE 0
  <2>1. CASE v >= 0
    <3>1. w \in Nat /\ w < UINT64 \div 2 /\ w = v
      BY <1>1, <1>2, <1>3, <1>5, <2>1 DEF v
    <3>2. Max({0, w}) \in {0, w} /\ w <= Max({0, w})
      <4>1. w \in Int
        BY <3>1
      <4>2. QED
        BY <4>1, GreaterOf
    <3>3. UsToTs(w) = Max({0, w})
      BY <3>1 DEF UsToTs
    <3>4. Max({0, w}) = v
      BY <2>1, <3>1, <3>2
    <3>5. QED
      BY <2>1, <3>3, <3>4
  <2>2. CASE v < 0
    <3>1. w \in Nat /\ ~(w < UINT64 \div 2) /\ w - UINT64 = v
      BY <1>1, <1>2, <1>3, <1>5, <2>2 DEF v
    <3>2. Max({0, v}) \in {0, v} /\ 0 <= Max({0, v})
      BY <1>2, GreaterOf
    <3>3. UsToTs(w) = Max({0, v})
      BY <3>1 DEF UsToTs
    <3>4. Max({0, v}) = 0 /\ ~(v >= 0)
      BY <1>2, <2>2, <3>2
    <3>5. QED
      BY <3>3, <3>4
  <2>3. QED
    BY <1>2, <2>1, <2>2
<1>8. /\ d = SliceEnd(k) - t
      /\ v = d + MAX_RECV_DELAY
  BY DEF d, v
<1>9. d = 0 => t = SliceEnd(k)
  BY <1>1, <1>8
<1>10. /\ UsToTs(w) \in Nat /\ UsToTs(w) <= SLICE_DURATION + MAX_RECV_DELAY
       /\ t + UsToTs(w) = IF t <= SliceEnd(k) + MAX_RECV_DELAY
                          THEN SliceEnd(k) + MAX_RECV_DELAY ELSE t
  BY <1>1, <1>2, <1>7, <1>8
<1>11. QED
  BY <1>6, <1>9, <1>10 DEF u, w

-----------------------------------------------------------------------------
(* The initial states                                                       *)

LEMMA InitInv == ASSUME Punctual, Init
                 PROVE  Inv
<1>1. SliceStart(0) = SLICE_DURATION /\ SLICE_DURATION \in Nat /\ SLICE_DURATION >= 10
  BY SliceTimes, Delay
<1>2. turn \in Nat /\ 0 < SliceEnd(turn) /\ SliceStart(turn - 2) <= 0
  <2>1. turn = NextTurn(-1, 0)
    BY DEF Init
  <2>2. /\ NextTurn(-1, 0) \in Nat /\ 0 < SliceEnd(NextTurn(-1, 0))
        /\ NextTurn(-1, 0) <= -1 + 2 \/ SliceStart(NextTurn(-1, 0) - 2) <= 0
    <3>1. -1 \in Nat \cup {None} /\ 0 \in Nat
      BY DEF None
    <3>2. QED
      BY <3>1, NextTurnIs
  <2>3. CASE turn <= 1
    <3>1. turn \in Nat /\ turn - 2 \in Int /\ turn - 2 < 0
      BY <2>1, <2>2, <2>3
    <3>2. SliceStart(turn - 2) + 3 * SLICE_DURATION <= SliceStart(0)
      BY <3>1, SlicesInOrder
    <3>3. SliceStart(turn - 2) \in Int
      BY <3>1, SliceTimes
    <3>4. QED
      BY <1>1, <2>1, <2>2, <3>2, <3>3
  <2>4. CASE ~(turn <= 1)
    <3>1. -1 + 2 = 1
      OBVIOUS
    <3>2. QED
      BY <2>1, <2>2, <2>4, <3>1
  <2>5. QED
    BY <2>3, <2>4
<1>3. /\ timer \in Nat /\ SliceStart(turn) <= timer
      /\ timer <= SliceEnd(turn) + SLICE_DURATION + MAX_RECV_DELAY
      /\ 0 < SliceStart(turn) => timer <= SliceEnd(turn) + MAX_RECV_DELAY
  <2>1. timer \in EntryTimes(turn, 0) /\ 0 \in Nat
    BY DEF Init
  <2>2. QED
    BY <1>2, <2>1, Entry
<1>4. TypeOK
  <2>1. /\ socket \in Seq(Nat) /\ flying \subseteq Copy /\ arrived \subseteq Nat
        /\ overdue \subseteq [msg : Nat, at : Nat]
    BY DEF Init
  <2>2. result \in Result
    BY DEF Init, Result
  <2>3. QED
    BY <1>2, <1>3, <2>1, <2>2 DEF Init, TypeOK
<1>5. OnTheWay
  BY <1>1 DEF Init, OnTheWay
<1>6. OnTime
  BY <1>2, <1>3 DEF Init, OnTime, None
<1>7. Queue /\ NothingStale /\ Kept /\ NotOverslept
  BY DEF Init, Queue, NothingStale, Kept, NotOverslept
<1>8. Undisturbed
  BY <1>3 DEF Init, Undisturbed, BackBefore
<1>9. QED
  BY <1>4, <1>5, <1>6, <1>7, <1>8 DEF Inv

-----------------------------------------------------------------------------
(* The steps of the network                                                 *)

\* Time passes, but not beyond the next event, and not while there is a
\* message to be read.
LEMMA TimePasses ==
  ASSUME TypeOK, OnTheWay, OnTime, NEW t, Happens(t),
         t \in {SliceStart(sent), timer} \cup {copy.at : copy \in flying}
  PROVE  /\ now' = t /\ now <= now'
         /\ now' <= timer /\ now' <= SliceStart(sent)
         /\ \A copy \in flying : now' <= copy.at
         /\ waiting => socket = <<>> /\ Len(socket) = 0
<1>1. /\ \A u \in {SliceStart(sent), timer} \cup {copy.at : copy \in flying} : t <= u
      /\ now' = t /\ ~Readable
  BY DEF Happens
<1>2. \A copy \in flying : copy.at \in {SliceStart(sent), timer} \cup {c.at : c \in flying}
  OBVIOUS
<1>3. t <= timer /\ t <= SliceStart(sent) /\ \A copy \in flying : t <= copy.at
  BY <1>1, <1>2
<1>4. now <= t
  BY DEF OnTheWay, OnTime
<1>5. waiting => socket = <<>> /\ Len(socket) = 0
  BY <1>1 DEF Readable
<1>6. QED
  BY <1>1, <1>3, <1>4, <1>5

\* The network stays as it is when a process enters, returns or reads on.
LEMMA StaysOnTheWay ==
  ASSUME Punctual, TypeOK, OnTheWay, UNCHANGED <<sent, flying>>,
         now' \in Nat, now <= now', now' <= SliceStart(sent),
         \A copy \in flying : now' <= copy.at
  PROVE  OnTheWay'
<1>1. sent \in Nat /\ now \in Nat /\ SliceStart(sent - 1) \in Int
  BY SliceTimes DEF TypeOK
<1>2. sent > 0 => SliceStart(sent - 1) <= now'
  BY <1>1 DEF OnTheWay
<1>3. QED
  BY <1>2 DEF OnTheWay

\* A process that sleeps or waits stays in time.
LEMMA StaysOnTime ==
  ASSUME Punctual, TypeOK, OnTime, now' \in Nat, now <= now', now' <= timer,
         UNCHANGED <<turn, timer, waiting, result>>
  PROVE  OnTime'
<1>1. now \in Nat /\ turn \in Nat /\ turn - 2 \in Int /\ result.at \in Nat
  BY DEF TypeOK, Result
<1>2. SliceStart(turn) \in Int /\ SliceStart(turn - 2) \in Int
  BY <1>1, SliceTimes
<1>3. /\ waiting => SliceStart(turn) <= now'
      /\ SliceStart(turn - 2) <= now' /\ result.at <= now'
  BY <1>1, <1>2 DEF OnTime
<1>4. QED
  BY <1>3 DEF OnTime

\* What is in the socket, and what has arrived, was sent before now.
LEMMA StaysInThePast ==
  ASSUME Punctual, TypeOK, Queue, Kept, now' \in Nat, now <= now'
  PROVE  /\ \A i \in 1..Len(socket) : /\ socket[i] \in Nat /\ socket[i] < sent
                                      /\ SliceStart(socket[i]) <= now'
         /\ \A k \in arrived : k \in Nat /\ SliceStart(k) <= now'
<1>1. now \in Nat
  BY DEF TypeOK
<1>2. ASSUME NEW i \in 1..Len(socket)
      PROVE  /\ socket[i] \in Nat /\ socket[i] < sent
             /\ SliceStart(socket[i]) <= now'
  <2>1. socket[i] \in Nat
    BY DEF TypeOK
  <2>2. SliceStart(socket[i]) \in Nat
    BY <2>1, SliceTimes
  <2>3. QED
    BY <1>1, <2>1, <2>2 DEF Queue
<1>3. ASSUME NEW k \in arrived
      PROVE  k \in Nat /\ SliceStart(k) <= now'
  <2>1. k \in Nat
    BY DEF TypeOK
  <2>2. SliceStart(k) \in Nat
    BY <2>1, SliceTimes
  <2>3. QED
    BY <1>1, <2>1, <2>2 DEF Kept
<1>4. QED
  BY <1>2, <1>3

LEMMA BroadcastKeeps == ASSUME Punctual, Inv, Broadcast
                        PROVE  Inv'
<1>1. /\ sent' = sent + 1 /\ Happens(SliceStart(sent))
      /\ UNCHANGED <<socket, waiting, turn, ts, timer, result, arrived, overdue>>
  BY DEF Broadcast
<1> USE DEF Inv
<1>2. /\ now' = SliceStart(sent) /\ now <= now' /\ now' <= timer
      /\ \A copy \in flying : now' <= copy.at
      /\ waiting => socket = <<>> /\ Len(socket) = 0
  BY <1>1, TimePasses
<1>3. /\ sent \in Nat /\ now' \in Nat /\ now \in Nat
      /\ SliceStart(sent + 1) = SliceStart(sent) + 3 * SLICE_DURATION
      /\ SLICE_DURATION \in Nat
  BY <1>2, SliceTimes, Delay DEF TypeOK
<1>4. \A copy \in flying' :
         \/ copy \in flying
         \/ copy \in Copy /\ copy.msg = sent /\ now' <= copy.at
  <2>1. PICK copies \in {{}, {1}, {1, 2}}, delay \in [{1, 2} -> Delays] :
          flying' = IF Sender(sent) = SELF_ID THEN flying
                    ELSE flying \cup
                      {[msg |-> sent, copy |-> c, at |-> now' + delay[c]] : c \in copies}
    BY DEF Broadcast
  <2>2. SUFFICES ASSUME NEW c \in {1, 2}
                 PROVE  LET copy == [msg |-> sent, copy |-> c, at |-> now' + delay[c]]
                        IN  copy \in Copy /\ copy.msg = sent /\ now' <= copy.at
    BY <2>1
  <2>3. PICK d \in Nat : d = delay[c]
    BY SocketAssumption
  <2>4. PICK t \in Nat : t = now'
    BY <1>3
  <2>5. [msg |-> sent, copy |-> c, at |-> t + d] \in Copy /\ t <= t + d
    BY <1>3 DEF Copy
  <2>6. QED
    BY <2>3, <2>4, <2>5
<1>5. TypeOK'
  BY <1>1, <1>3, <1>4 DEF TypeOK
<1>6. OnTheWay'
  <2>1. now' <= SliceStart(sent') /\ (sent' > 0 => SliceStart(sent' - 1) <= now')
    BY <1>1, <1>2, <1>3
  <2>2. ASSUME NEW copy \in flying'
        PROVE  /\ copy.msg < sent' /\ now' <= copy.at
               /\ SliceStart(copy.msg) <= copy.at
    <3>1. CASE copy \in flying
      <4>1. copy.msg \in Nat /\ copy.msg < sent
        BY <3>1 DEF OnTheWay, TypeOK, Copy
      <4>2. QED
        BY <1>1, <1>2, <1>3, <3>1, <4>1 DEF OnTheWay
    <3>2. CASE copy \notin flying
      BY <1>1, <1>2, <1>3, <1>4, <3>2
    <3>3. QED
      BY <3>1, <3>2
  <2>3. QED
    BY <2>1, <2>2 DEF OnTheWay
<1>7. OnTime'
  BY <1>1, <1>2, <1>3, StaysOnTime
<1>8. Queue'
  <2>1. \A i \in 1..Len(socket) : socket[i] < sent + 1 /\ SliceStart(socket[i]) <= now'
    BY <1>2, <1>3, StaysInThePast
  <2>2. waiting => Len(socket) <= 1
    BY <1>2
  <2>3. QED
    BY <1>1, <2>1, <2>2 DEF Queue, Overdue
<1>9. NothingStale'
  BY <1>1 DEF NothingStale, Stale, Refused, Expected, Overdue
<1>10. Kept'
  BY <1>1, <1>2, <1>3, StaysInThePast DEF Kept, BackBefore
<1>11. waiting => OnlyExpected
  BY <1>2 DEF OnlyExpected
<1>12. OnlyExpected' = OnlyExpected
  BY <1>1 DEF OnlyExpected, Expected
<1>13. Undisturbed'
  BY <1>1, <1>11, <1>12 DEF Undisturbed, BackBefore, Comes
<1>14. NotOverslept'
  BY <1>1, <1>11, <1>12 DEF NotOverslept, Comes
<1>15. QED
  BY <1>5, <1>6, <1>7, <1>8, <1>9, <1>10, <1>13, <1>14

LEMMA ArriveKeeps == ASSUME Punctual, Inv, Arrive
                     PROVE  Inv'
<1> USE DEF Inv
<1>1. PICK copy \in flying :
        /\ Happens(copy.at)
        /\ flying' = flying \ {copy}
        /\ socket' = Append(socket, copy.msg)
        /\ arrived' = IF copy.at <= SliceEnd(copy.msg) THEN arrived \cup {copy.msg}
                                                       ELSE arrived
        /\ overdue' = IF copy.at >= SliceStart(copy.msg + 1)
                      THEN overdue \cup {[msg |-> copy.msg, at |-> copy.at]} ELSE overdue
  BY DEF Arrive
<1>2. UNCHANGED <<sent, waiting, turn, ts, timer, result>>
  BY DEF Arrive
<1>3. PICK m \in Nat : m = copy.msg
  BY DEF TypeOK, Copy
<1>4. /\ now' = copy.at /\ now <= now' /\ now' <= timer /\ now' <= SliceStart(sent)
      /\ \A c \in flying : now' <= c.at
      /\ waiting => socket = <<>> /\ Len(socket) = 0
  BY <1>1, TimePasses
<1>5. now' \in Nat /\ now \in Nat /\ sent \in Nat /\ turn \in Nat
  BY <1>4 DEF TypeOK, Copy
<1>6. m < sent /\ SliceStart(m) <= now'
  BY <1>3, <1>4 DEF OnTheWay
<1>7. /\ SliceStart(m) \in Nat /\ SliceStart(m + 1) \in Nat
      /\ SliceStart(turn) \in Nat /\ SliceStart(turn + 1) \in Nat
      /\ SliceStart(turn - 2) \in Int
  BY <1>5, SliceTimes
<1>8. overdue \subseteq overdue' /\ \A k \in Nat : Overdue(k) => Overdue(k)'
  BY <1>1 DEF Overdue
<1>9. SliceStart(m + 1) <= now' =>
        [msg |-> m, at |-> now'] \in overdue' /\ Overdue(m)'
  <2>1. SUFFICES ASSUME SliceStart(m + 1) <= now'
                 PROVE  [msg |-> m, at |-> now'] \in overdue' /\ Overdue(m)'
    OBVIOUS
  <2>2. [msg |-> m, at |-> now'] \in overdue'
    BY <1>1, <1>3, <1>4, <1>5, <1>7, <2>1
  <2>3. [msg |-> m, at |-> now'].msg = m
    OBVIOUS
  <2>4. QED
    BY <2>2, <2>3 DEF Overdue
\* Had a later turn begun to send by now, the copy is overdue.
<1>10. ASSUME NEW k \in Int, m < k, SliceStart(k) <= now'
       PROVE  SliceStart(m + 1) <= now'
  <2>1. SliceStart(k) \in Int
    BY SliceTimes
  <2>2. CASE k = m + 1
    BY <1>10, <2>2
  <2>3. CASE k # m + 1
    <3>1. m + 1 < k
      BY <1>10, <2>3
    <3>2. SliceStart(m + 1) + 3 * SLICE_DURATION <= SliceStart(k)
      BY <3>1, SlicesInOrder
    <3>3. QED
      BY <1>5, <1>7, <1>10, <2>1, <3>2, Delay
  <2>4. QED
    BY <2>2, <2>3
<1>11. /\ Len(socket') = Len(socket) + 1 /\ Len(socket) \in Nat
       /\ socket' \in Seq(Nat)
       /\ socket'[Len(socket) + 1] = m
       /\ \A i \in 1..Len(socket) : socket'[i] = socket[i]
       /\ \A i \in 1..Len(socket') : i \in 1..Len(socket) \/ i = Len(socket) + 1
  BY <1>1, <1>3, AppendProperties DEF TypeOK
<1>12. /\ \A i \in 1..Len(socket) : /\ socket[i] \in Nat /\ socket[i] < sent
                                    /\ SliceStart(socket[i]) <= now'
       /\ \A k \in arrived : k \in Nat /\ SliceStart(k) <= now'
  BY <1>4, <1>5, StaysInThePast
<1>13. TypeOK'
  <2>1. overdue' \subseteq [msg : Nat, at : Nat]
    BY <1>1, <1>3, <1>4, <1>5 DEF TypeOK
  <2>2. QED
    BY <1>1, <1>2, <1>3, <1>5, <1>11, <2>1 DEF TypeOK
<1>14. OnTheWay'
  <2>1. now' <= SliceStart(sent) /\ (sent > 0 => SliceStart(sent - 1) <= now')
    <3>1. SliceStart(sent - 1) \in Int
      BY <1>5, SliceTimes
    <3>2. QED
      BY <1>4, <1>5, <3>1 DEF OnTheWay
  <2>2. QED
    BY <1>1, <1>2, <1>4, <2>1 DEF OnTheWay
<1>15. OnTime'
  BY <1>2, <1>4, <1>5, StaysOnTime
<1>16. Queue'
  <2>1. \A i \in 1..Len(socket') : socket'[i] < sent /\ SliceStart(socket'[i]) <= now'
    BY <1>6, <1>11, <1>12
  <2>2. ASSUME NEW i \in 1..Len(socket'), NEW j \in 1..Len(socket'), i < j
        PROVE  socket'[i] <= socket'[j] \/ \E c \in overdue' : c.msg = socket'[j]
    <3>1. i \in 1..Len(socket)
      BY <1>11, <2>2
    <3>2. CASE j \in 1..Len(socket)
      <4>1. socket[i] <= socket[j] \/ Overdue(socket[j])
        BY <2>2, <3>1, <3>2 DEF Queue
      <4>2. socket'[i] = socket[i] /\ socket'[j] = socket[j]
        BY <1>11, <3>1, <3>2
      <4>3. Overdue(socket[j]) => \E c \in overdue' : c.msg = socket[j]
        BY <1>8 DEF Overdue
      <4>4. QED
        BY <4>1, <4>2, <4>3 DEF Overdue
    <3>3. CASE j = Len(socket) + 1
      <4>1. PICK k \in Nat : k = socket[i] /\ SliceStart(k) <= now'
        BY <1>12, <3>1
      <4>2. m < k => \E c \in overdue' : c.msg = m
        BY <1>9, <1>10, <4>1 DEF Overdue
      <4>3. socket'[i] = k /\ socket'[j] = m
        BY <1>11, <3>1, <3>3, <4>1
      <4>4. QED
        BY <4>1, <4>2, <4>3 DEF Overdue
    <3>4. QED
      BY <1>11, <3>2, <3>3
  <2>3. waiting => Len(socket') <= 1
    BY <1>4, <1>11
  <2>4. QED
    BY <1>2, <2>1, <2>2, <2>3 DEF Queue, Overdue
<1>17. NothingStale'
  <2>1. SUFFICES ASSUME ~Stale(result), ~Refused(result), NEW i \in 1..Len(socket'),
                        Expected(socket'[i]), socket'[i] < turn
                 PROVE  \E c \in overdue' : c.msg = socket'[i]
    BY <1>2 DEF NothingStale, Stale, Refused, Expected, Overdue
  <2>2. CASE i \in 1..Len(socket)
    <3>1. socket'[i] = socket[i]
      BY <1>11, <2>2
    <3>2. Overdue(socket[i])
      BY <2>1, <2>2, <3>1 DEF NothingStale
    <3>3. QED
      BY <1>8, <3>1, <3>2 DEF Overdue
  <2>3. CASE i = Len(socket) + 1
    <3>1. socket'[i] = m /\ Sender(m) = Sender(turn) /\ m < turn
      BY <1>11, <2>1, <2>3 DEF Expected
    <3>2. m < turn - 2
      <4>1. turn - 1 \in Int /\ turn - 2 \in Int /\ (turn - 1) + 1 = turn /\ (turn - 2) + 2 = turn
        BY <1>5
      <4>2. Sender(turn - 1) # Sender(turn) /\ Sender(turn - 2) # Sender(turn)
        BY <4>1, ThreeSenders
      <4>3. m # turn - 1 /\ m # turn - 2
        BY <3>1, <4>2
      <4>4. QED
        BY <1>5, <3>1, <4>3
    <3>3. SliceStart(turn - 2) <= now'
      BY <1>4, <1>5, <1>7 DEF OnTime
    <3>4. QED
      BY <1>5, <1>9, <1>10, <3>1, <3>2, <3>3 DEF Overdue
  <2>4. QED
    BY <1>11, <2>2, <2>3
<1>18. Kept'
  <2>1. \A k \in arrived' : SliceStart(k) <= now'
    BY <1>1, <1>3, <1>6, <1>12
  <2>2. BackBefore(turn) /\ turn \in arrived' => \E i \in 1..Len(socket') : socket'[i] = turn
    <3>1. CASE turn = m
      <4>1. Len(socket) + 1 \in 1..Len(socket')
        BY <1>11
      <4>2. QED
        BY <1>11, <3>1, <4>1
    <3>2. CASE turn # m
      <4>1. \A i \in 1..Len(socket) : i \in 1..Len(socket')
        BY <1>11
      <4>2. QED
        BY <1>1, <1>3, <1>11, <3>2, <4>1 DEF Kept
    <3>3. QED
      BY <3>1, <3>2
  <2>3. QED
    BY <1>2, <2>1, <2>2 DEF Kept, BackBefore
\* Before the next SEND slice begins, whatever comes and is not of this turn is
\* of an earlier one, and overdue.
<1>19. waiting /\ now' < SliceStart(turn + 1) /\ ~OnlyExpected' =>
         /\ [msg |-> m, at |-> now'] \in overdue'
         /\ Sender(m) # Sender(turn) /\ SliceStart(turn) <= now'
  <2>1. SUFFICES ASSUME waiting, now' < SliceStart(turn + 1), ~OnlyExpected'
                 PROVE  /\ [msg |-> m, at |-> now'] \in overdue'
                        /\ Sender(m) # Sender(turn) /\ SliceStart(turn) <= now'
    OBVIOUS
  <2>2. Sender(m) # Sender(turn)
    <3>1. \A i \in 1..Len(socket') : socket'[i] = m
      BY <1>4, <1>11, <2>1
    <3>2. QED
      BY <1>2, <2>1, <3>1 DEF OnlyExpected, Expected
  <2>3. SliceStart(turn) <= now'
    BY <1>4, <1>5, <1>7, <2>1 DEF OnTime
  <2>4. m <= turn
    <3>1. SliceStart(m) < SliceStart(turn + 1)
      BY <1>5, <1>6, <1>7, <2>1
    <3>2. QED
      BY <1>5, <3>1, TurnOfTime
  <2>5. m # turn
    BY <2>2
  <2>6. m < turn
    BY <1>5, <2>4, <2>5
  <2>7. QED
    BY <1>5, <1>9, <1>10, <2>2, <2>3, <2>6
<1> DEFINE Came(from, to) ==
             \E c \in overdue' : Sender(c.msg) # Sender(turn) /\ from <= c.at /\ c.at <= to
<1>20. \A from, to \in Int :
         ~Came(from, to) => /\ ~Comes(from, to)
                            /\ ~(/\ [msg |-> m, at |-> now'] \in overdue'
                                 /\ Sender(m) # Sender(turn)
                                 /\ from <= now' /\ now' <= to)
  <2>1. [msg |-> m, at |-> now'].msg = m /\ [msg |-> m, at |-> now'].at = now'
    OBVIOUS
  <2>2. QED
    BY <1>8, <2>1 DEF Comes
<1> HIDE DEF Came
<1>21. /\ SliceEnd(turn) \in Int /\ SliceEnd(turn) = SliceStart(turn) + SLICE_DURATION
       /\ SliceStart(turn + 1) = SliceStart(turn) + 3 * SLICE_DURATION
       /\ SLICE_DURATION \in Nat /\ MAX_RECV_DELAY \in Nat /\ MAX_RECV_DELAY < SLICE_DURATION
       /\ timer \in Nat /\ ts \in Nat
  <2>1. /\ SliceEnd(turn) \in Nat /\ SliceEnd(turn) = SliceStart(turn) + SLICE_DURATION
        /\ SliceStart(turn + 1) = SliceStart(turn) + 3 * SLICE_DURATION
    BY <1>5, SliceTimes
  <2>2. QED
    BY <2>1, Delay DEF TypeOK
<1>22. Undisturbed'
  <2>1. SUFFICES ASSUME BackBefore(turn),
                        ~Came(SliceStart(turn), SliceEnd(turn) + MAX_RECV_DELAY)
                 PROVE  /\ timer <= SliceEnd(turn) + MAX_RECV_DELAY
                        /\ waiting => now' + ts = timer \/ OnlyExpected'
    BY <1>2 DEF Undisturbed, BackBefore, Comes, Came
  <2>2. timer <= SliceEnd(turn) + MAX_RECV_DELAY
    BY <1>7, <1>20, <1>21, <2>1 DEF Undisturbed
  <2>3. ASSUME waiting, ~OnlyExpected' PROVE FALSE
    <3>1. now' <= SliceEnd(turn) + MAX_RECV_DELAY /\ now' < SliceStart(turn + 1)
      <4>1. now' <= timer
        BY <1>4
      <4>2. QED
        BY <1>5, <1>7, <1>21, <2>2, <4>1
    <3>2. QED
      BY <1>7, <1>19, <1>20, <1>21, <2>1, <2>3, <3>1
  <2>4. QED
    BY <2>2, <2>3
<1>23. NotOverslept'
  <2>1. SUFFICES ASSUME waiting,
                        ~Came(SliceEnd(turn) + 1, SliceStart(turn + 1) - 1)
                 PROVE  /\ timer < SliceStart(turn + 1)
                        /\ ts <= SLICE_DURATION + MAX_RECV_DELAY
                        /\ SliceEnd(turn) < now' => now' + ts = timer \/ OnlyExpected'
    BY <1>2 DEF NotOverslept, Comes, Came
  <2>2. timer < SliceStart(turn + 1) /\ ts <= SLICE_DURATION + MAX_RECV_DELAY
    BY <1>7, <1>20, <1>21, <2>1 DEF NotOverslept
  <2>3. ASSUME SliceEnd(turn) < now', ~OnlyExpected' PROVE FALSE
    <3>1. /\ now' < SliceStart(turn + 1)
          /\ SliceEnd(turn) + 1 <= now' /\ now' <= SliceStart(turn + 1) - 1
      <4>1. now' <= timer
        BY <1>4
      <4>2. QED
        BY <1>5, <1>7, <1>21, <2>2, <2>3, <4>1
    <3>2. QED
      BY <1>7, <1>19, <1>20, <1>21, <2>1, <2>3, <3>1
  <2>4. QED
    BY <2>2, <2>3
<1>24. QED
  BY <1>13, <1>14, <1>15, <1>16, <1>17, <1>18, <1>22, <1>23

-----------------------------------------------------------------------------
(* The steps of the process                                                 *)

\* What is overdue and still in the socket is remembered.
LEMMA StaysOverdue ==
  ASSUME NEW msg, Return(msg), socket' \in Seq(Nat),
         NEW i \in 1..Len(socket'), Overdue(socket'[i])
  PROVE  \E copy \in overdue' : copy.msg = socket'[i]
<1>1. PICK copy \in overdue : copy.msg = socket'[i]
  BY DEF Overdue
<1>2. i \in DOMAIN socket'
  OBVIOUS
<1>3. overdue' = {c \in overdue : \E j \in DOMAIN socket' : socket'[j] = c.msg}
  BY DEF Return
<1>4. copy \in overdue'
  BY <1>1, <1>2, <1>3
<1>5. QED
  BY <1>1, <1>4

\* A process that returns finds what it has not read in the socket again.
LEMMA ReturnKeeps ==
  ASSUME Punctual, Inv, NEW msg \in Nat \cup {None}, Return(msg),
         UNCHANGED <<sent, flying, ts>>,
         now' \in Nat, now <= now', SliceStart(turn) <= now', now' <= SliceStart(sent),
         \A copy \in flying : now' <= copy.at,
         socket' \in Seq(Nat), NEW d \in {0, 1},
         \A i \in 1..Len(socket') : i + d \in 1..Len(socket) /\ socket'[i] = socket[i + d],
         NothingStale'
  PROVE  Inv'
<1> USE DEF Inv
<1>1. /\ waiting' = FALSE /\ result' = [turn |-> turn, msg |-> msg, at |-> now']
      /\ turn' = NextTurn(turn, now') /\ timer' \in EntryTimes(turn', now')
      /\ arrived' = {k \in arrived : k > turn}
      /\ overdue' = {c \in overdue : \E i \in DOMAIN socket' : socket'[i] = c.msg}
  BY DEF Return
<1>2. result'.turn = turn /\ result'.at = now'
  BY <1>1
<1>3. turn \in Nat /\ SliceStart(turn) \in Nat
  BY SliceTimes DEF TypeOK
<1>4. /\ turn' \in Nat /\ turn < turn' /\ now' < SliceEnd(turn')
      /\ turn' <= turn + 2 \/ SliceStart(turn' - 2) <= now'
  BY <1>1, <1>3, NextTurnIs
<1>5. SliceStart(turn') \in Nat
  BY <1>4, SliceTimes
<1>6. SliceStart(turn' - 2) <= now'
  <2>1. turn' - 2 \in Int
    BY <1>4
  <2>2. SliceStart(turn' - 2) \in Int
    BY <2>1, SliceTimes
  <2>3. CASE turn' - 2 = turn
    BY <2>3
  <2>4. CASE turn' - 2 < turn
    <3>1. SliceStart(turn' - 2) + 3 * SLICE_DURATION <= SliceStart(turn)
      BY <1>3, <2>1, <2>4, SlicesInOrder
    <3>2. QED
      BY <1>3, <2>2, <3>1, Delay
  <2>5. CASE ~(turn' <= turn + 2)
    BY <1>4, <2>5
  <2>6. turn' - 2 = turn \/ turn' - 2 < turn \/ ~(turn' <= turn + 2)
    <3>1. PICK j \in Nat, k \in Nat : j = turn' /\ k = turn
      BY <1>3, <1>4
    <3>2. j - 2 = k \/ j - 2 < k \/ ~(j <= k + 2)
      OBVIOUS
    <3>3. QED
      BY <3>1, <3>2
  <2>7. QED
    BY <2>3, <2>4, <2>5, <2>6
<1>7. /\ timer' \in Nat /\ now' <= timer' /\ SliceStart(turn') <= timer'
      /\ timer' <= SliceEnd(turn') + SLICE_DURATION + MAX_RECV_DELAY
      /\ now' < SliceStart(turn') => timer' <= SliceEnd(turn') + MAX_RECV_DELAY
  BY <1>1, <1>4, Entry
<1>8. TypeOK'
  <2>1. result' \in Result
    BY <1>1, <1>3 DEF Result
  <2>2. arrived' \subseteq Nat /\ overdue' \subseteq [msg : Nat, at : Nat]
    BY <1>1 DEF TypeOK
  <2>3. QED
    BY <1>1, <1>4, <1>7, <2>1, <2>2 DEF TypeOK
<1>9. OnTheWay'
  BY StaysOnTheWay
<1>10. OnTime'
  BY <1>1, <1>2, <1>4, <1>6, <1>7 DEF OnTime
<1>11. Queue'
  <2>1. \A i \in 1..Len(socket') : socket'[i] < sent /\ SliceStart(socket'[i]) <= now'
    BY StaysInThePast
  <2>2. ASSUME NEW i \in 1..Len(socket'), NEW j \in 1..Len(socket'), i < j
        PROVE  socket'[i] <= socket'[j] \/ \E copy \in overdue' : copy.msg = socket'[j]
    <3>1. i + d < j + d
      BY <2>2
    <3>2. socket[i + d] <= socket[j + d] \/ Overdue(socket[j + d])
      BY <3>1 DEF Queue
    <3>3. socket'[i] <= socket'[j] \/ Overdue(socket'[j])
      BY <3>2
    <3>4. QED
      BY <3>3, StaysOverdue
  <2>3. QED
    BY <1>1, <2>1, <2>2 DEF Queue, Overdue
<1>12. Kept'
  <2>1. \A k \in arrived' : SliceStart(k) <= now'
    BY <1>1, StaysInThePast
  <2>2. ~(now' < SliceStart(turn') /\ turn' \in arrived')
    BY <1>5, <2>1
  <2>3. QED
    BY <1>2, <2>1, <2>2 DEF Kept, BackBefore
<1>13. Undisturbed'
  BY <1>1, <1>2, <1>7 DEF Undisturbed, BackBefore
<1>14. NotOverslept'
  BY <1>1 DEF NotOverslept
<1>15. QED
  BY <1>8, <1>9, <1>10, <1>11, <1>12, <1>13, <1>14

\* receive_message waits until MAX_RECV_DELAY after the slice, or returns at
\* once at the end of the slice.
LEMMA EnterKeeps == ASSUME Punctual, Inv, Enter
                    PROVE  Inv'
<1> USE DEF Inv
<1> DEFINE time_to_next_slice == TimeToNextSlice(turn, now')
<1>1. /\ ~waiting /\ Happens(timer)
      /\ UNCHANGED <<sent, flying, socket>>
  BY DEF Enter
<1>2. /\ now' = timer /\ now <= now' /\ now' <= SliceStart(sent)
      /\ \A copy \in flying : now' <= copy.at
  BY <1>1, TimePasses
<1>3. turn \in Nat /\ now' \in Nat /\ now \in Nat
  BY <1>2 DEF TypeOK
<1>4. SliceStart(turn) <= now' /\ now' <= SliceEnd(turn) + SLICE_DURATION + MAX_RECV_DELAY
  BY <1>1, <1>2 DEF OnTime
<1>5. PICK timeout \in Nat :
        /\ time_to_next_slice \in Nat
        /\ time_to_next_slice = 0 => now' = SliceEnd(turn)
        /\ timeout = UsToTs((time_to_next_slice + MAX_RECV_DELAY) % UINT64)
        /\ timeout <= SLICE_DURATION + MAX_RECV_DELAY
        /\ now' + timeout = IF now' <= SliceEnd(turn) + MAX_RECV_DELAY
                            THEN SliceEnd(turn) + MAX_RECV_DELAY ELSE now'
  BY <1>3, <1>4, Timeout
<1>6. CASE time_to_next_slice <= 0
  <2>1. now' = SliceEnd(turn) /\ Return(None) /\ ts' = ts
    BY <1>5, <1>6 DEF Enter
  <2>2. result' = [turn |-> turn, msg |-> None, at |-> now']
    BY <2>1 DEF Return
  <2>3. NothingStale'
    <3>1. result'.turn = turn /\ result'.msg = None /\ result'.at = SliceEnd(turn)
      BY <2>1, <2>2
    <3>2. QED
      BY <3>1 DEF NothingStale, Refused
  <2>4. /\ socket' \in Seq(Nat) /\ None \in Nat \cup {None}
        /\ \A i \in 1..Len(socket') : i + 0 \in 1..Len(socket) /\ socket'[i] = socket[i + 0]
    BY <1>1 DEF TypeOK
  <2>5. QED
    BY <1>1, <1>2, <1>3, <1>4, <2>1, <2>3, <2>4, ReturnKeeps
<1>7. CASE ~(time_to_next_slice <= 0)
  <2>1. /\ waiting' = TRUE /\ ts' = timeout /\ timer' = now' + timeout
        /\ UNCHANGED <<turn, result, arrived, overdue>>
    BY <1>5, <1>7 DEF Enter
  <2>2. /\ SliceStart(turn) \in Nat /\ SliceEnd(turn) = SliceStart(turn) + SLICE_DURATION
        /\ SliceStart(turn + 1) = SliceStart(turn) + 3 * SLICE_DURATION
    BY <1>3, SliceTimes
  <2>3. /\ SLICE_DURATION \in Nat /\ MAX_RECV_DELAY \in Nat
        /\ MAX_RECV_DELAY < SLICE_DURATION
    BY Delay
  <2>4. timer' \in Nat /\ now' <= timer' /\ SliceStart(turn) <= timer'
    BY <1>3, <1>4, <1>5, <2>1, <2>2, <2>3
  <2>5. now' < SliceStart(turn + 1) /\ timer' < SliceStart(turn + 1)
    BY <1>3, <1>4, <1>5, <2>1, <2>2, <2>3
  <2>6. TypeOK'
    BY <1>1, <1>3, <2>1, <2>4 DEF TypeOK
  <2>7. OnTheWay'
    BY <1>1, <1>2, <1>3, StaysOnTheWay
  <2>8. OnTime'
    <3>1. turn - 2 \in Int /\ result.at \in Nat
      BY <1>3 DEF TypeOK, Result
    <3>2. SliceStart(turn - 2) \in Int
      BY <3>1, SliceTimes
    <3>3. SliceStart(turn - 2) <= now' /\ result.at <= now'
      BY <1>2, <1>3, <3>1, <3>2 DEF OnTime
    <3>4. result.turn < turn
      BY DEF OnTime
    <3>5. QED
      BY <1>4, <2>1, <2>4, <3>3, <3>4 DEF OnTime
  <2>9. Queue'
    <3>1. \A i \in 1..Len(socket) : socket[i] < sent /\ SliceStart(socket[i]) <= now'
      BY <1>2, <1>3, StaysInThePast
    <3>2. QED
      BY <1>1, <2>1, <2>5, <3>1 DEF Queue, Overdue
  <2>10. NothingStale'
    BY <1>1, <2>1 DEF NothingStale, Stale, Refused, Expected, Overdue
  <2>11. Kept'
    <3>1. \A k \in arrived : SliceStart(k) <= now'
      BY <1>2, <1>3, StaysInThePast
    <3>2. QED
      BY <1>1, <2>1, <3>1 DEF Kept, BackBefore
  <2>12. now' + ts' = timer'
    BY <2>1
  <2>13. Undisturbed'
    <3>1. SUFFICES ASSUME BackBefore(turn),
                          ~Comes(SliceStart(turn), SliceEnd(turn) + MAX_RECV_DELAY)
                   PROVE  timer' <= SliceEnd(turn) + MAX_RECV_DELAY
      BY <2>1, <2>12 DEF Undisturbed, BackBefore, Comes
    <3>2. now' <= SliceEnd(turn) + MAX_RECV_DELAY
      BY <1>2, <3>1 DEF Undisturbed
    <3>3. QED
      BY <1>3, <1>5, <2>1, <2>2, <2>3, <3>2
  <2>14. NotOverslept'
    BY <1>5, <2>1, <2>5, <2>12 DEF NotOverslept
  <2>15. QED
    BY <2>6, <2>7, <2>8, <2>9, <2>10, <2>11, <2>13, <2>14
<1>8. QED
  BY <1>6, <1>7

LEMMA TimeOutKeeps == ASSUME Punctual, Inv, TimeOut
                      PROVE  Inv'
<1> USE DEF Inv
<1>1. /\ waiting /\ Happens(timer) /\ Return(None)
      /\ UNCHANGED <<sent, flying, socket, ts>>
  BY DEF TimeOut
<1>2. /\ now' = timer /\ now <= now' /\ now' <= SliceStart(sent)
      /\ \A copy \in flying : now' <= copy.at
      /\ socket = <<>> /\ Len(socket) = 0
  BY <1>1, TimePasses
<1>3. now' \in Nat /\ SliceStart(turn) <= now'
  BY <1>2 DEF TypeOK, OnTime
<1>4. /\ socket' \in Seq(Nat) /\ None \in Nat \cup {None}
      /\ \A i \in 1..Len(socket') : i + 0 \in 1..Len(socket) /\ socket'[i] = socket[i + 0]
  BY <1>1 DEF TypeOK
<1>5. NothingStale'
  BY <1>1, <1>2 DEF NothingStale
<1>6. QED
  BY <1>1, <1>2, <1>3, <1>4, <1>5, ReturnKeeps

\* After the message of its turn a process finds no earlier one of the next
\* sender but overdue ones: the socket is in the order of sending, and no turn
\* between the two is left out.
LEMMA NothingStaleIsLeft ==
  ASSUME Punctual, Inv, waiting, now' = now, Return(Head(socket)),
         socket # <<>>, socket' = Tail(socket), turn <= Head(socket)
  PROVE  NothingStale'
<1> USE DEF Inv
<1>1. /\ Len(socket) \in Nat /\ Head(socket) = socket[1]
      /\ socket' \in Seq(Nat) /\ Len(socket') = Len(socket) - 1
      /\ \A i \in 1..Len(socket') : i + 1 \in 1..Len(socket) /\ socket'[i] = socket[i + 1]
      /\ 1 \in 1..Len(socket)
  BY HeadTailProperties DEF TypeOK
<1>2. turn \in Nat /\ turn' = NextTurn(turn, now') /\ now' \in Nat
  BY DEF TypeOK, Return
<1>3. SUFFICES ASSUME NEW i \in 1..Len(socket'),
                      Sender(socket'[i]) = Sender(turn'), socket'[i] < turn'
               PROVE  \E copy \in overdue' : copy.msg = socket'[i]
  BY DEF NothingStale, Expected, Overdue
<1>4. now < SliceStart(turn + 1)
  <2>1. ~(Len(socket) <= 1)
    BY <1>1
  <2>2. QED
    BY <2>1 DEF Queue
<1>5. turn' \in Nat /\ turn < turn' /\ turn' <= turn + 2
  <2>1. /\ turn' \in Nat /\ turn < turn'
        /\ turn' <= turn + 2 \/ SliceStart(turn' - 2) <= now
    BY <1>2, NextTurnIs
  <2>2. CASE SliceStart(turn' - 2) <= now
    <3>1. turn' - 2 \in Int /\ turn + 1 \in Int
      BY <1>2, <2>1
    <3>2. SliceStart(turn' - 2) \in Int /\ SliceStart(turn + 1) \in Int
      BY <3>1, SliceTimes
    <3>3. SliceStart(turn' - 2) < SliceStart(turn + 1)
      BY <1>2, <1>4, <2>2, <3>2
    <3>4. turn' - 2 <= turn
      BY <1>2, <3>1, <3>3, TurnOfTime
    <3>5. QED
      BY <1>2, <2>1, <3>4
  <2>3. QED
    BY <2>1, <2>2
<1>6. PICK k \in Nat : k = socket'[i]
  BY <1>1
<1>7. ~(turn <= k)
  <2>1. SUFFICES ASSUME turn <= k PROVE FALSE
    OBVIOUS
  <2>2. k = turn' - 1 \/ k = turn' - 2
    BY <1>2, <1>3, <1>5, <1>6, <2>1
  <2>3. PICK j \in Nat : j = turn'
    BY <1>5
  <2>4. Sender(j - 1) # Sender(j) /\ Sender(j - 2) # Sender(j)
    <3>1. j - 1 \in Int /\ j - 2 \in Int /\ (j - 1) + 1 = j /\ (j - 2) + 2 = j
      OBVIOUS
    <3>2. QED
      BY <3>1, ThreeSenders
  <2>5. QED
    BY <1>3, <1>6, <2>2, <2>3, <2>4
<1>8. socket[1] <= socket[i + 1] \/ Overdue(socket[i + 1])
  <2>1. 1 < i + 1 /\ i + 1 \in 1..Len(socket) /\ 1 \in 1..Len(socket)
    BY <1>1
  <2>2. QED
    BY <2>1 DEF Queue
<1>9. socket[1] \in Nat /\ turn <= socket[1] /\ socket[i + 1] = k
  BY <1>1, <1>6 DEF TypeOK
<1>10. Overdue(socket'[i])
  BY <1>2, <1>6, <1>7, <1>8, <1>9
<1>11. QED
  BY <1>1, <1>10, StaysOverdue

LEMMA RecvKeeps == ASSUME Punctual, Inv, Recv
                   PROVE  Inv'
<1> USE DEF Inv
<1>1. /\ waiting /\ socket # <<>> /\ socket' = Tail(socket) /\ now' = now
      /\ UNCHANGED <<sent, flying>>
      /\ IF Expected(Head(socket)) THEN Return(Head(socket)) /\ UNCHANGED ts ELSE ReadOn
  BY DEF Recv, Readable
<1>2. /\ Len(socket) \in Nat /\ Head(socket) = socket[1]
      /\ socket' \in Seq(Nat) /\ Len(socket') = Len(socket) - 1
      /\ \A i \in 1..Len(socket') : i + 1 \in 1..Len(socket) /\ socket'[i] = socket[i + 1]
      /\ Head(socket) \in Nat /\ 1 \in 1..Len(socket)
  BY <1>1, HeadTailProperties DEF TypeOK
<1>3. now' \in Nat /\ now <= now' /\ turn \in Nat /\ timer \in Nat /\ ts \in Nat
  BY <1>1 DEF TypeOK
<1>4. /\ SliceStart(turn) <= now' /\ now' <= timer /\ now' <= SliceStart(sent)
      /\ \A copy \in flying : now' <= copy.at
  BY <1>1 DEF OnTime, OnTheWay
<1>5. CASE Expected(Head(socket))
  <2>1. Return(Head(socket)) /\ ts' = ts
    BY <1>1, <1>5
  <2>2. NothingStale'
    <3>1. CASE turn <= Head(socket)
      BY <1>1, <2>1, <3>1, NothingStaleIsLeft
    <3>2. CASE ~(turn <= Head(socket))
      <4>1. result' = [turn |-> turn, msg |-> Head(socket), at |-> now']
        BY <2>1 DEF Return
      <4>2. result'.turn = turn /\ result'.msg = Head(socket)
        BY <4>1
      <4>3. Head(socket) < turn /\ Head(socket) # None
        BY <1>2, <1>3, <3>2 DEF None
      <4>4. QED
        BY <4>2, <4>3 DEF NothingStale, Stale
    <3>3. QED
      BY <3>1, <3>2
  <2>3. QED
    BY <1>1, <1>2, <1>3, <1>4, <2>1, <2>2, ReturnKeeps
<1>6. CASE ~Expected(Head(socket))
  <2>1. timer' = now + ts /\ UNCHANGED <<waiting, turn, ts, result, arrived, overdue>>
    BY <1>1, <1>6 DEF ReadOn
  <2>2. ~OnlyExpected
    BY <1>2, <1>6 DEF OnlyExpected
  <2>3. TypeOK'
    <3>1. timer' \in Nat
      BY <1>3, <2>1 DEF TypeOK
    <3>2. QED
      BY <1>1, <1>2, <2>1, <3>1 DEF TypeOK
  <2>4. OnTheWay'
    BY <1>1 DEF OnTheWay
  <2>5. OnTime'
    <3>1. now' <= timer'
      BY <1>1, <1>3, <2>1
    <3>2. SliceStart(turn) <= timer'
      <4>1. SliceStart(turn) \in Nat /\ now' \in Nat /\ timer' \in Nat
        BY <1>3, <2>3, SliceTimes DEF TypeOK
      <4>2. QED
        BY <1>4, <3>1, <4>1
    <3>3. QED
      BY <1>1, <2>1, <3>1, <3>2 DEF OnTime
  <2>6. Queue'
    <3>1. \A i \in 1..Len(socket') : socket'[i] < sent /\ SliceStart(socket'[i]) <= now'
      BY <1>1, <1>2 DEF Queue
    <3>2. ASSUME NEW i \in 1..Len(socket'), NEW j \in 1..Len(socket'), i < j
          PROVE  socket'[i] <= socket'[j] \/ Overdue(socket'[j])
      <4>1. i + 1 < j + 1
        BY <3>2
      <4>2. QED
        BY <1>2, <4>1 DEF Queue
    <3>3. waiting => now' < SliceStart(turn + 1) \/ Len(socket') <= 1
      BY <1>1, <1>2 DEF Queue
    <3>4. QED
      BY <1>1, <2>1, <3>1, <3>2, <3>3 DEF Queue, Overdue
  <2>7. NothingStale'
    BY <1>2, <2>1 DEF NothingStale, Stale, Refused, Expected, Overdue
  <2>8. Kept'
    <3>1. BackBefore(turn) /\ turn \in arrived => \E i \in 1..Len(socket') : socket'[i] = turn
      <4>1. SUFFICES ASSUME BackBefore(turn), turn \in arrived
                     PROVE  \E i \in 1..Len(socket') : socket'[i] = turn
        OBVIOUS
      <4>2. PICK i \in 1..Len(socket) : socket[i] = turn
        BY <4>1 DEF Kept
      <4>3. i # 1
        BY <1>2, <1>6, <4>2 DEF Expected
      <4>4. i - 1 \in 1..Len(socket') /\ (i - 1) + 1 = i
        BY <1>2, <4>3
      <4>5. QED
        BY <1>2, <4>2, <4>4
    <3>2. QED
      BY <1>1, <2>1, <3>1 DEF Kept, BackBefore
  <2>9. Undisturbed'
    <3>1. SUFFICES ASSUME BackBefore(turn),
                          ~Comes(SliceStart(turn), SliceEnd(turn) + MAX_RECV_DELAY)
                   PROVE  timer' <= SliceEnd(turn) + MAX_RECV_DELAY
      BY <1>1, <2>1 DEF Undisturbed, BackBefore, Comes
    <3>2. timer <= SliceEnd(turn) + MAX_RECV_DELAY /\ now + ts = timer
      BY <1>1, <2>2, <3>1 DEF Undisturbed
    <3>3. QED
      BY <2>1, <3>2
  <2>10. NotOverslept'
    <3>1. SUFFICES ASSUME ~Comes(SliceEnd(turn) + 1, SliceStart(turn + 1) - 1)
                   PROVE  /\ timer' < SliceStart(turn + 1)
                          /\ ts <= SLICE_DURATION + MAX_RECV_DELAY
      BY <1>1, <2>1 DEF NotOverslept, Comes
    <3>2. /\ timer < SliceStart(turn + 1)
          /\ ts <= SLICE_DURATION + MAX_RECV_DELAY
          /\ SliceEnd(turn) < now => now + ts = timer
      BY <1>1, <2>2, <3>1 DEF NotOverslept
    <3>3. CASE SliceEnd(turn) < now
      BY <2>1, <3>2, <3>3
    <3>4. CASE ~(SliceEnd(turn) < now)
      <4>1. /\ SliceStart(turn) \in Nat /\ SliceEnd(turn) = SliceStart(turn) + SLICE_DURATION
            /\ SliceStart(turn + 1) = SliceStart(turn) + 3 * SLICE_DURATION
        BY <1>3, SliceTimes
      <4>2. now <= SliceEnd(turn) /\ now \in Nat
        BY <1>1, <1>3, <3>4, <4>1, Delay
      <4>3. QED
        BY <1>3, <2>1, <3>2, <4>1, <4>2, Delay
    <3>5. QED
      BY <3>2, <3>3, <3>4
  <2>11. QED
    BY <2>3, <2>4, <2>5, <2>6, <2>7, <2>8, <2>9, <2>10
<1>7. QED
  BY <1>5, <1>6

-----------------------------------------------------------------------------
(* The theorems                                                             *)

LEMMA NextKeeps == ASSUME Punctual, Inv, [Next]_vars
                   PROVE  Inv'
<1>1. CASE Broadcast
  BY <1>1, BroadcastKeeps
<1>2. CASE Arrive
  BY <1>2, ArriveKeeps
<1>3. CASE Enter
  BY <1>3, EnterKeeps
<1>4. CASE Recv
  BY <1>4, RecvKeeps
<1>5. CASE TimeOut
  BY <1>5, TimeOutKeeps
<1>6. CASE UNCHANGED vars
  BY <1>6 DEF vars, Inv, TypeOK, OnTheWay, OnTime, Queue, NothingStale, Kept,
              Undisturbed, NotOverslept, Stale, Refused, BackBefore, Overdue,
              Comes, Expected, OnlyExpected
<1>7. QED
  BY <1>1, <1>2, <1>3, <1>4, <1>5, <1>6 DEF Next

\* The invariant: times, queue and histories fit together in every state.
THEOREM SocketInvariant == ASSUME Punctual
                           PROVE  Spec => []Inv
<1>1. Init => Inv
  BY InitInv
<1>2. Inv /\ [Next]_vars => Inv'
  BY NextKeeps
<1>3. QED
  BY <1>1, <1>2, PTL DEF Spec

\* The three ways in which receive_message returns: it took a message of the
\* sender of the turn, it was refused, or it timed out.
LEMMA Returned ==
  ASSUME Punctual, Inv, [Next]_vars, Returns
  PROVE  /\ result'.turn = turn /\ now' \in Nat /\ now' <= timer
         /\ \/ /\ waiting /\ socket # <<>> /\ Expected(Head(socket))
               /\ result'.msg = Head(socket)
            \/ ~waiting /\ now' = timer /\ result'.msg = None /\ Refused(result')
            \/ waiting /\ socket = <<>> /\ result'.msg = None
<1> USE DEF Inv
<1>1. /\ ~Broadcast /\ ~Arrive /\ ~UNCHANGED vars
  BY DEF Returns, Broadcast, Arrive, vars
<1>2. CASE Enter
  <2>1. ~waiting /\ Happens(timer)
    BY <1>2 DEF Enter
  <2>2. now' = timer
    BY <2>1, TimePasses
  <2>3. /\ turn \in Nat /\ now' \in Nat /\ SliceStart(turn) <= now'
        /\ now' <= SliceEnd(turn) + SLICE_DURATION + MAX_RECV_DELAY
    BY <2>1, <2>2 DEF TypeOK, OnTime
  <2>4. TimeToNextSlice(turn, now') <= 0 /\ Return(None)
    BY <1>2 DEF Enter, Returns
  <2>5. now' = SliceEnd(turn)
    BY <2>3, <2>4, Timeout
  <2>6. result'.turn = turn /\ result'.msg = None /\ result'.at = now'
    BY <2>4 DEF Return
  <2>7. QED
    BY <2>1, <2>2, <2>3, <2>5, <2>6 DEF Refused
<1>3. CASE Recv
  <2>1. waiting /\ socket # <<>> /\ now' = now
    BY <1>3 DEF Recv, Readable
  <2>2. Expected(Head(socket)) /\ Return(Head(socket))
    BY <1>3 DEF Recv, ReadOn, Returns
  <2>3. now' \in Nat /\ now' <= timer
    BY <2>1 DEF TypeOK, OnTime
  <2>4. QED
    BY <2>1, <2>2, <2>3 DEF Return
<1>4. CASE TimeOut
  <2>1. waiting /\ Happens(timer) /\ Return(None)
    BY <1>4 DEF TimeOut
  <2>2. now' = timer /\ socket = <<>>
    BY <2>1, TimePasses
  <2>3. now' \in Nat /\ now' <= timer
    BY <2>2 DEF TypeOK
  <2>4. QED
    BY <2>1, <2>2, <2>3 DEF Return
<1>5. QED
  BY <1>1, <1>2, <1>3, <1>4 DEF Next

\* receive_message compares the sender only, and messages carry no sequence
\* number, but the message of an earlier cycle is taken for the one of this turn
\* only if it came a turn late, however late that is, or when the process has
\* taken such a message or left the socket unread the time before.
THEOREM StaleIsOverdue == ASSUME Punctual
                          PROVE  Spec => StaleOnlyIfOverdue
<1>1. ASSUME Inv, [Next]_vars, Returns, Stale(result')
      PROVE  Overdue(result'.msg) \/ Stale(result) \/ Refused(result)
  <2>1. /\ result'.turn = turn /\ result'.msg # None /\ result'.msg < turn
    BY <1>1, Returned DEF Stale
  <2>2. /\ socket # <<>> /\ Expected(Head(socket)) /\ result'.msg = Head(socket)
    BY <1>1, <2>1, Returned
  <2>3. 1 \in 1..Len(socket) /\ Head(socket) = socket[1]
    BY <1>1, <2>2, HeadTailProperties DEF Inv, TypeOK
  <2>4. QED
    BY <1>1, <2>1, <2>2, <2>3 DEF Inv, NothingStale
<1>2. Inv /\ [Next]_vars =>
        [Returns /\ Stale(result') =>
           Overdue(result'.msg) \/ Stale(result) \/ Refused(result)]_vars
  BY <1>1
<1>3. QED
  BY <1>2, SocketInvariant, PTL DEF Spec, StaleOnlyIfOverdue

\* receive_message returns -1 only if no copy of the message came in its slice,
\* whatever copies of earlier turns are read before it and however late they
\* come, but for an entry at the end of the slice and for a message that came
\* while the process still waited in the turn before.
THEOREM TimelyReceived == ASSUME Punctual
                          PROVE  Spec => TimelyMessageReceived
<1>1. ASSUME Inv, [Next]_vars, Returns, result'.msg = None, turn \in arrived
      PROVE  Refused(result') \/ ~BackBefore(turn)
  <2>1. SUFFICES ASSUME ~Refused(result'), BackBefore(turn) PROVE FALSE
    OBVIOUS
  <2>2. \E i \in 1..Len(socket) : socket[i] = turn
    BY <1>1, <2>1 DEF Inv, Kept
  <2>3. socket # <<>>
    BY <2>2
  <2>4. result'.msg = Head(socket)
    BY <1>1, <2>1, <2>3, Returned
  <2>5. Head(socket) \in Nat
    BY <1>1, <2>3, HeadTailProperties DEF Inv, TypeOK
  <2>6. QED
    BY <1>1, <2>4, <2>5 DEF None
<1>2. Inv /\ [Next]_vars =>
        [Returns /\ result'.msg = None /\ turn \in arrived =>
           Refused(result') \/ ~BackBefore(turn)]_vars
  BY <1>1
<1>3. QED
  BY <1>2, SocketInvariant, PTL DEF Spec, TimelyMessageReceived

\* Each message that is thrown away starts the whole timeout again, but only an
\* overdue one of another sender, that comes while the process waits, keeps
\* receive_message more than MAX_RECV_DELAY beyond its slice.
THEOREM InTime == ASSUME Punctual
                  PROVE  Spec => ReturnsInTime
<1>1. ASSUME Inv, [Next]_vars, Returns, BackBefore(turn),
             now' > SliceEnd(turn) + MAX_RECV_DELAY
      PROVE  Comes(SliceStart(turn), SliceEnd(turn) + MAX_RECV_DELAY)
  <2>1. SUFFICES ASSUME ~Comes(SliceStart(turn), SliceEnd(turn) + MAX_RECV_DELAY)
                 PROVE  FALSE
    OBVIOUS
  <2>2. timer <= SliceEnd(turn) + MAX_RECV_DELAY
    BY <1>1, <2>1 DEF Inv, Undisturbed
  <2>3. now' \in Nat /\ now' <= timer
    BY <1>1, Returned
  <2>4. /\ turn \in Nat /\ timer \in Nat /\ SliceEnd(turn) \in Nat /\ MAX_RECV_DELAY \in Nat
    BY <1>1, SliceTimes, Delay DEF Inv, TypeOK
  <2>5. QED
    BY <1>1, <2>2, <2>3, <2>4
<1>2. Inv /\ [Next]_vars =>
        [Returns /\ BackBefore(turn) /\ now' > SliceEnd(turn) + MAX_RECV_DELAY =>
           Comes(SliceStart(turn), SliceEnd(turn) + MAX_RECV_DELAY)]_vars
  BY <1>1
<1>3. QED
  BY <1>2, SocketInvariant, PTL DEF Spec, ReturnsInTime

\* However many messages are thrown away, receive_message is left before the
\* SEND slice of the next turn begins, but for an overdue message of another
\* sender that came between the two SEND slices.
THEOREM KeepsNextTurn == ASSUME Punctual
                         PROVE  Spec => NextTurnKept
<1>1. ASSUME Inv, [Next]_vars, Returns, now' >= SliceStart(turn + 1)
      PROVE  Comes(SliceEnd(turn) + 1, SliceStart(turn + 1) - 1)
  <2>1. SUFFICES ASSUME ~Comes(SliceEnd(turn) + 1, SliceStart(turn + 1) - 1)
                 PROVE  FALSE
    OBVIOUS
  <2>2. now' \in Nat /\ now' <= timer
    BY <1>1, Returned
  <2>3. /\ turn \in Nat /\ timer \in Nat /\ SliceStart(turn) \in Nat
        /\ SliceEnd(turn) = SliceStart(turn) + SLICE_DURATION
        /\ SliceStart(turn + 1) = SliceStart(turn) + 3 * SLICE_DURATION
    <3>1. turn \in Nat /\ timer \in Nat
      BY <1>1 DEF Inv, TypeOK
    <3>2. QED
      BY <3>1, SliceTimes
  <2>4. CASE waiting
    <3>1. timer < SliceStart(turn + 1)
      BY <1>1, <2>1, <2>4 DEF Inv, NotOverslept
    <3>2. QED
      BY <1>1, <2>2, <2>3, <3>1, Delay
  <2>5. CASE ~waiting
    <3>1. timer <= SliceEnd(turn) + SLICE_DURATION + MAX_RECV_DELAY
      BY <1>1, <2>5 DEF Inv, OnTime
    <3>2. QED
      BY <1>1, <2>2, <2>3, <3>1, Delay
  <2>6. QED
    BY <2>4, <2>5
<1>2. Inv /\ [Next]_vars =>
        [Returns /\ now' >= SliceStart(turn + 1) =>
           Comes(SliceEnd(turn) + 1, SliceStart(turn + 1) - 1)]_vars
  BY <1>1
<1>3. QED
  BY <1>2, SocketInvariant, PTL DEF Spec, NextTurnKept
=============================================================================
