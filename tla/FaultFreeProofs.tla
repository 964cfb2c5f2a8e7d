--------------------------- MODULE FaultFreeProofs ---------------------------
(***************************************************************************)
(* Theorems about TimeAwareTOB when nothing fails: processes are started   *)
(* at any moment, any number of nodes, and join one after the other.       *)
(***************************************************************************)
EXTENDS ValidityProofs, FiniteSetTheorems

FaultFree == MaxFaults = 0 \/ FaultKinds = {}

\* Nothing fails in a step.
Spared == faults' = faults

Failing == FaultKinds # {} /\ faults > 0 /\ faults' = faults - 1

-----------------------------------------------------------------------------
(* The invariant                                                            *)

\* The stage a process has in its own view is the true one.
Stands(i)  == view[i].stage[i]
Sends(i)   == Stands(i) # "INACTIVE"
Belongs(i) == Stands(i) = "MEMBER"

\* The slices since the last broadcast slice of i began.
Since(i) ==
  SLICES_IN_TURN * (AMOUNT_NODES - Wait(i))
    + (IF slice = "MEMBERSHIP" THEN -1 ELSE IF slice = "SEND" THEN 0 ELSE 1)

\* n has yet to listen to i in this slice.
Listening(n, i) == slice = "SEND" /\ turn = i /\ n \notin ran

\* n has been through all of the last broadcast slice of i.
HasHeard(n, i) ==
  up[n] /\ n # i /\ age[n] > Since(i) /\ ~Listening(n, i)

NobodyFails == faulty = {} /\ late = {} /\ \A n \in Node : asleep[n] = 0

Newborn == \A n \in Node : age[n] = 0 /\ n \notin ran => view[n] = InitView

\* A process waits for a cycle before it sends for the first time.
Grown ==
  \A n \in Node : Sends(n) =>
    /\ up[n] /\ age[n] >= CycleLength
    /\ age[n] = CycleLength => slice = "SEND" /\ turn = n /\ n \in ran

\* Nobody listens before the sender has had its turn.
SenderFirst ==
  slice = "SEND" /\ turn \notin ran /\ up[turn] /\ age[turn] > 0
    => \A n \in ran : age[n] = 0 /\ view[n] = InitView

\* What a message of this turn's sender says.
Tells(msg) ==
  /\ msg.stage = Stands(turn) /\ msg.vector = ArrayToByte(view[turn], turn)
  /\ msg.sus.flag = FALSE /\ msg.body = latest[turn]

InSocket(n) ==
  /\ \A k \in FromSender(n) : turn \in ran /\ Sends(turn) /\ Tells(sock[n][k])
  /\ Sends(turn) /\ turn \in ran /\ up[n] /\ n # turn /\ n \notin ran /\ age[n] > 0
       => FromSender(n) # {}

InSockets == slice = "SEND" => \A n \in Node : InSocket(n)

\* The own view vector: who sends has been heard.
Vectors ==
  \A n, i \in Node : HasHeard(n, i) => (view[n].vv[n][i] = "RECEIVED" <=> Sends(i))

\* The view vectors of others: i has confirmed all that it heard before it sent.
Confirmed(i, j) == Belongs(j) \/ (Sends(j) /\ Since(i) < Since(j))

Rows ==
  \A n, i, j \in Node :
    HasHeard(n, i) /\ i # j /\ Sends(i) /\ Confirmed(i, j)
      => view[n].vv[i][j] = "RECEIVED"

\* n admits the sender of this turn, i, before or after i itself enters.
Admitting(n, i) ==
  \/ view[n].stage[i] = "ACTIVE" /\ Belongs(i) /\ i \in ran
     /\ (Belongs(n) => n \notin ran)
  \/ view[n].stage[i] = "MEMBER" /\ Stands(i) = "ACTIVE" /\ i \notin ran
     /\ Belongs(n) /\ n \in ran
  \/ view[n].stage[i] = Stands(i)
     /\ (Stands(i) = "ACTIVE" /\ Belongs(n) => n \notin ran)

StageOf(n, i) ==
  IF turn = i /\ slice = "MEMBERSHIP" THEN Admitting(n, i)
  ELSE IF Listening(n, i)
  THEN Belongs(n) => (view[n].stage[i] = "MEMBER" <=> Belongs(i))
  ELSE view[n].stage[i] = Stands(i)

Stages ==
  \A n, i \in Node : up[n] /\ n # i /\ age[n] > Since(i) => StageOf(n, i)

\* Nobody is taken for a sender or a member that is none.
Joins(n, i) ==
  /\ slice = "MEMBERSHIP" /\ turn = i /\ i \notin ran /\ Stands(i) = "ACTIVE"
  /\ Belongs(n)

NoGhosts ==
  \A n, i \in Node :
    /\ view[n].stage[i] # "INACTIVE" => Sends(i)
    /\ view[n].stage[i] = "MEMBER" => Belongs(i) \/ Joins(n, i)

Flags ==
  /\ \A n, i \in Node : view[n].stage[i] = "MEMBER" => view[n].flag
  /\ (\E n \in Node : view[n].flag) => \E i \in Node : Belongs(i)
  /\ \/ slice = "MEMBERSHIP" /\ turn \in ran
     \/ slice = "SEND" /\ turn \notin ran
     => (Stands(turn) = "ACTIVE" => ~view[turn].flag)

NoSuspicion == \A n, i \in Node : view[n].sus[i].flag = FALSE

Counts == \A n \in Node : view[n].count = Cardinality(Members(view[n]))

\* Lines
MembersLines == \A i \in Node : latest[i] # Empty => Belongs(i)

\* A line is known as that of a member, and kept until it is decided.
LineStage(n, i) == view[n].stage[i] = "ACTIVE" => Listening(n, i)

LineKept(n, i) ==
  IF slice = "MEMBERSHIP" /\ turn = i /\ n \in ran
  THEN Belongs(n) => view[n].count < MIN_MEMBERS \/ latest[i] \in Delivered(n)
  ELSE Listening(n, i) \/ view[n].last[i] = latest[i]

Lined ==
  \A n, i \in Node : latest[i] # Empty =>
    LineStage(n, i) /\ (up[n] /\ n # i /\ age[n] > Since(i) => LineKept(n, i))

Deliverers ==
  slice = "MEMBERSHIP" /\ latest[turn] # Empty =>
    \A n \in Node : latest[turn] \in Delivered(n) =>
      Belongs(n) /\ view[n].count >= MIN_MEMBERS

SameStep ==
  slice = "MEMBERSHIP" =>
    \A n, m \in Node \ ran : Belongs(n) /\ Belongs(m) =>
       view[n].stage[turn] = view[m].stage[turn]

-----------------------------------------------------------------------------
(* Nobody fails                                                             *)

LEMMA NoFailure ==
  ASSUME Spared, TypeOK, NEW n
  PROVE  ~Fail(n)
<1>1. faults \in Int
  BY DEF TypeOK
<1> QED
  BY <1>1 DEF Spared, Fail

\* Failures become fewer, one at a time.
LEMMA FaultsFall ==
  ASSUME [Next]_vars
  PROVE  Spared \/ Failing
<1>1. ASSUME NEW n, NEW msg, BroadcastMessage(n, msg)
      PROVE  Spared \/ Failing
  BY <1>1 DEF BroadcastMessage, Heard, Fail, MayFail, Spared, Failing
<1>2. ASSUME NEW n \in Node, Handler(n)
      PROVE  Spared \/ Failing
  BY <1>1, <1>2 DEF Spared, Handler, EnterMembership, MembershipDecision, NoDecision,
     SendMessage, SendInit, SendNothing, ReceiveMessage, ReceiveNothing
<1>3. ASSUME NEW n \in Node, Start(n) \/ Crash(n) \/ Oversleep(n)
      PROVE  Spared \/ Failing
  BY <1>3 DEF Spared, Failing, Start, Crash, Oversleep, Fail, MayFail
<1>4. NextSlice \/ UNCHANGED vars => Spared
  BY DEF Spared, NextSlice, vars, hazards
<1> QED
  BY <1>2, <1>3, <1>4 DEF Next

LEMMA FreeSpared ==
  ASSUME FaultFree, TypeOK, [Next]_vars
  PROVE  Spared
<1>1. faults \in 0..MaxFaults
  BY DEF TypeOK
<1> QED
  BY <1>1, FaultsFall DEF FaultFree, Failing

\* Everybody who runs hears a broadcast.
LEMMA AllHear ==
  ASSUME Spared, TypeOK, NEW n \in Node, NEW msg, BroadcastMessage(n, msg)
  PROVE  /\ UNCHANGED <<faults, calm, faulty>>
         /\ \A m \in Node : sock'[m] = IF m # n /\ up[m] THEN sock[m] \o <<msg, msg>>
                                                         ELSE sock[m]
BY NoFailure DEF BroadcastMessage, Heard, Listeners

LEMMA NobodyFailsStep ==
  ASSUME Spared, TypeOK, NobodyFails, [Next]_vars
  PROVE  NobodyFails'
<1>1. ASSUME NEW n \in Node, SendMessage(n) \/ SendInit(n)
      PROVE  UNCHANGED faulty
  BY <1>1, AllHear DEF SendMessage, SendInit
<1>2. ASSUME NEW n \in Node, Handler(n)
      PROVE  UNCHANGED <<faulty, late, asleep>>
  BY <1>1, <1>2 DEF Handler, EnterMembership, MembershipDecision, NoDecision,
     SendMessage, SendInit, SendNothing, ReceiveMessage, ReceiveNothing,
     Receives, Wakes
<1>3. ASSUME NEW n \in Node, Start(n)
      PROVE  NobodyFails'
  BY <1>3 DEF Start, NobodyFails
<1>4. ASSUME NEW n \in Node, Crash(n) \/ Oversleep(n)
      PROVE  FALSE
  BY <1>4, NoFailure DEF Crash, Oversleep
<1>5. CASE NextSlice
  BY <1>5 DEF NextSlice, NobodyFails
<1>6. CASE UNCHANGED <<faulty, late, asleep>>
  BY <1>6 DEF NobodyFails
<1> QED
  BY <1>2, <1>3, <1>4, <1>5, <1>6 DEF Next, vars, clock, hazards

-----------------------------------------------------------------------------
(* Time                                                                     *)

LEMMA CycleFacts ==
  /\ CycleLength \in Nat /\ CycleLength = 3 * AMOUNT_NODES
  /\ CycleOver = CycleLength + 1
BY NodeFacts DEF CycleLength, CycleOver, SLICES_IN_TURN

LEMMA SinceFacts ==
  ASSUME TypeOK, NEW i \in Node
  PROVE  /\ Since(i) \in Nat /\ Since(i) < CycleLength
         /\ turn = i /\ slice = "MEMBERSHIP" => Since(i) = CycleLength - 1
         /\ turn = i /\ slice = "SEND" => Since(i) = 0
         /\ turn # i /\ slice = "MEMBERSHIP" => Since(i) < CycleLength - 1
         /\ turn # i /\ slice = "SEND" => Since(i) > 0
<1>1. /\ turn \in Int /\ 0 <= turn /\ turn < AMOUNT_NODES
      /\ i \in Int /\ 0 <= i /\ i < AMOUNT_NODES /\ AMOUNT_NODES \in Int
      /\ slice \in {"MEMBERSHIP", "SEND", "PAUSE"}
  BY NodeFacts DEF TypeOK, Slices
<1>2. /\ Wait(i) \in Int /\ 0 <= Wait(i) /\ Wait(i) <= AMOUNT_NODES
      /\ Wait(i) = 0 => turn = i /\ slice = "MEMBERSHIP"
      /\ Wait(i) = AMOUNT_NODES <=> turn = i /\ slice # "MEMBERSHIP"
      /\ turn = i /\ slice = "MEMBERSHIP" => Wait(i) = 0
  BY <1>1 DEF Wait
<1>3. PICK w : w = Wait(i)
  OBVIOUS
<1> QED
  BY <1>1, <1>2, <1>3, CycleFacts DEF Since, SLICES_IN_TURN

LEMMA SinceSlice ==
  ASSUME TypeOK, NextSlice, NEW i \in Node
  PROVE  Since(i)' = IF slice = "MEMBERSHIP" /\ turn = i THEN 0 ELSE Since(i) + 1
<1>1. /\ turn \in Int /\ 0 <= turn /\ turn < AMOUNT_NODES
      /\ i \in Int /\ 0 <= i /\ i < AMOUNT_NODES /\ AMOUNT_NODES \in Int
  BY NodeFacts DEF TypeOK
<1>2. CASE slice = "MEMBERSHIP"
  <2>1. turn' = turn /\ slice' = "SEND"
    BY <1>2 DEF NextSlice
  <2>2. Wait(i)' = IF turn = i THEN AMOUNT_NODES ELSE Wait(i)
    BY <1>1, <1>2, <2>1 DEF Wait
  <2>3. Wait(i) \in Int
    BY <1>1 DEF Wait
  <2> QED
    BY <1>1, <1>2, <2>1, <2>2, <2>3 DEF Since, SLICES_IN_TURN
<1>3. CASE slice = "SEND"
  <2>1. turn' = turn /\ slice' = "PAUSE"
    BY <1>3 DEF NextSlice
  <2>2. Wait(i)' = Wait(i) /\ Wait(i) \in Int
    BY <1>1, <1>3, <2>1 DEF Wait
  <2> QED
    BY <1>1, <1>3, <2>1, <2>2 DEF Since, SLICES_IN_TURN
<1>4. CASE slice = "PAUSE"
  <2>1. slice' = "MEMBERSHIP" /\ turn' = IF turn = AMOUNT_NODES - 1 THEN 0 ELSE turn + 1
    BY <1>4 DEF NextSlice
  <2>2. PICK t : t = turn'
    OBVIOUS
  <2>3. Wait(i)' = Wait(i) - 1 /\ Wait(i) \in Int
    BY <1>1, <1>4, <2>1, <2>2 DEF Wait
  <2>4. PICK w : w = Wait(i)
    OBVIOUS
  <2> QED
    BY <1>1, <1>4, <2>1, <2>3, <2>4 DEF Since, SLICES_IN_TURN
<1> QED
  BY <1>2, <1>3, <1>4 DEF NextSlice

LEMMA AgeTypes ==
  ASSUME TypeOK, NEW n \in Node
  PROVE  age[n] \in Nat /\ age[n] <= CycleOver
BY CycleFacts DEF TypeOK

\* Who has heard i after a step had heard it before, or hears it in this step.
LEMMA HeardSlice ==
  ASSUME TypeOK, NobodyFails, NextSlice, NEW n \in Node, NEW i \in Node
  PROVE  /\ up' = up /\ view' = view /\ ran' = {}
         /\ up[n] /\ age'[n] > Since(i)' =>
              age[n] > Since(i) \/ (slice = "MEMBERSHIP" /\ turn = i)
         /\ HasHeard(n, i)' => HasHeard(n, i)
<1>1. up' = up /\ view' = view /\ ran' = {}
  BY DEF NextSlice, NobodyFails
<1>2. (age'[n] = age[n] \/ age'[n] = age[n] + 1) /\ age[n] \in Nat /\ Since(i) \in Nat
  BY AgeTypes, SinceFacts DEF NextSlice
<1>3. up[n] /\ age'[n] > Since(i)' =>
        age[n] > Since(i) \/ (slice = "MEMBERSHIP" /\ turn = i)
  <2> SUFFICES ASSUME age'[n] > Since(i) + 1
               PROVE  age[n] > Since(i)
    BY SinceSlice
  <2> QED
    BY <1>2
<1>4. ASSUME HasHeard(n, i)'
      PROVE  HasHeard(n, i)
  <2>1. ~(slice = "MEMBERSHIP" /\ turn = i)
    BY <1>1, <1>4 DEF HasHeard, Listening, NextSlice
  <2>2. ~Listening(n, i)
    BY <1>1, <1>4 DEF HasHeard, Listening, NextSlice, AllRan
  <2> QED
    BY <1>1, <1>3, <1>4, <2>1, <2>2 DEF HasHeard
<1> QED
  BY <1>1, <1>3, <1>4

LEMMA HeardStart ==
  ASSUME TypeOK, NothingLeft, NEW s \in Node, Start(s), NEW n \in Node, NEW i \in Node
  PROVE  /\ age[s] = 0 /\ view[s] = InitView
         /\ Since(i)' = Since(i)
         /\ up'[n] /\ age'[n] > Since(i)' => up[n] /\ n # s /\ age[n] > Since(i)
         /\ HasHeard(n, i)' => HasHeard(n, i)
<1>1. age[s] = 0 /\ view[s] = InitView /\ age' = age
  BY DEF Start, NothingLeft
<1>2. Since(i)' = Since(i) /\ Since(i) \in Nat
  <2>1. turn' = turn /\ slice' = slice
    BY DEF Start
  <2> QED
    BY <2>1, SinceFacts DEF Since, Wait
<1>3. up'[n] /\ age'[n] > Since(i)' => up[n] /\ n # s /\ age[n] > Since(i)
  <2>1. n # s => up'[n] = up[n]
    BY DEF Start, TypeOK
  <2>2. age'[n] > Since(i)' => n # s /\ age[n] > Since(i)
    BY <1>1, <1>2
  <2> QED
    BY <2>1, <2>2
<1>4. HasHeard(n, i)' => HasHeard(n, i)
  BY <1>3 DEF HasHeard, Listening, Start
<1> QED
  BY <1>1, <1>2, <1>3, <1>4

-----------------------------------------------------------------------------
(* The ring of members                                                      *)

LEMMA RingPosition ==
  ASSUME NEW x \in 0..(2 * AMOUNT_NODES - 1)
  PROVE  x % AMOUNT_NODES = IF x < AMOUNT_NODES THEN x ELSE x - AMOUNT_NODES
<1>1. AMOUNT_NODES \in {3, 4, 5, 6, 7, 8}
  BY NodeFacts
<1> QED
  BY <1>1

\* A member that is not alone has another one before it on the ring.
LEMMA PrevMember ==
  ASSUME NEW v, NEW nodeID \in Node, Members(v) \ {nodeID} # {}
  PROVE  GetPrevMember(v, nodeID) \in Members(v) \ {nodeID}
<1> DEFINE at == [d \in 1..(AMOUNT_NODES - 1) |->
                    (nodeID + AMOUNT_NODES - d) % AMOUNT_NODES]
           distances == {d \in 1..(AMOUNT_NODES - 1) : at[d] \in Members(v)}
<1>1. /\ nodeID \in Int /\ 0 <= nodeID /\ nodeID < AMOUNT_NODES
      /\ AMOUNT_NODES \in Int /\ AMOUNT_NODES >= 3
  BY NodeFacts
<1>2. \A d \in 1..(AMOUNT_NODES - 1) :
        at[d] = IF d <= nodeID THEN nodeID - d ELSE nodeID - d + AMOUNT_NODES
  <2> SUFFICES ASSUME NEW d \in 1..(AMOUNT_NODES - 1)
               PROVE  (nodeID + AMOUNT_NODES - d) % AMOUNT_NODES =
                        IF d <= nodeID THEN nodeID - d ELSE nodeID - d + AMOUNT_NODES
    OBVIOUS
  <2> HIDE DEF at, distances
  <2>1. d \in Int /\ 1 <= d /\ d < AMOUNT_NODES
    BY <1>1
  <2>2. PICK x \in Int : x = nodeID + AMOUNT_NODES - d
    BY <1>1, <2>1
  <2>3. x \in 0..(2 * AMOUNT_NODES - 1)
    BY <1>1, <2>1, <2>2
  <2>4. x % AMOUNT_NODES = IF x < AMOUNT_NODES THEN x ELSE x - AMOUNT_NODES
    BY <2>3, RingPosition
  <2>5. /\ x < AMOUNT_NODES <=> ~(d <= nodeID)
        /\ x = nodeID - d + AMOUNT_NODES /\ x - AMOUNT_NODES = nodeID - d
    BY <1>1, <2>1, <2>2
  <2>6. x % AMOUNT_NODES = IF d <= nodeID THEN nodeID - d ELSE nodeID - d + AMOUNT_NODES
    BY <2>4, <2>5
  <2> QED
    BY <2>2, <2>6
<1>3. \A d \in 1..(AMOUNT_NODES - 1) : at[d] # nodeID
  <2> HIDE DEF at
  <2> QED
    BY <1>1, <1>2
<1>4. distances # {}
  <2>1. PICK j \in Members(v) : j # nodeID
    OBVIOUS
  <2>2. j \in Int /\ 0 <= j /\ j < AMOUNT_NODES
    BY NodeFacts DEF Members
  <2> DEFINE d == IF j < nodeID THEN nodeID - j ELSE nodeID - j + AMOUNT_NODES
  <2>3. d \in 1..(AMOUNT_NODES - 1) /\ at[d] = j
    <3>1. d \in 1..(AMOUNT_NODES - 1)
      BY <1>1, <2>1, <2>2
    <3> HIDE DEF at
    <3>2. at[d] = IF d <= nodeID THEN nodeID - d ELSE nodeID - d + AMOUNT_NODES
      BY <1>2, <3>1
    <3> QED
      BY <1>1, <2>1, <2>2, <3>1, <3>2
  <2> QED
    BY <2>3
<1>5. \E d \in distances : \A e \in distances : d <= e
  BY <1>4, SmallestDistance
<1>6. (CHOOSE d \in distances : \A e \in distances : d <= e) \in distances
  BY <1>5
<1>7. GetPrevMember(v, nodeID) = at[CHOOSE d \in distances : \A e \in distances : d <= e]
  BY <1>4 DEF GetPrevMember, Nearest
<1> QED
  BY <1>3, <1>6, <1>7

LEMMA MembersFinite ==
  ASSUME NEW v
  PROVE  IsFiniteSet(Members(v)) /\ Cardinality(Members(v)) \in Nat
<1>1. IsFiniteSet(Node)
  BY FS_Interval, NodeFacts DEF Node
<1>2. IsFiniteSet(Members(v))
  BY <1>1, FS_Subset DEF Members
<1> QED
  BY <1>2, FS_CardinalityType

\* In a membership of two or more there is another member.
LEMMA AnotherMember ==
  ASSUME NEW v, NEW i, Cardinality(Members(v)) >= 2
  PROVE  Members(v) \ {i} # {}
<1> SUFFICES ASSUME Members(v) \subseteq {i}
             PROVE  FALSE
  OBVIOUS
<1>1. IsFiniteSet({i}) /\ Cardinality({i}) = 1
  BY FS_Singleton
<1>2. Cardinality(Members(v)) <= 1
  BY <1>1, FS_Subset
<1> QED
  BY <1>2, MembersFinite

-----------------------------------------------------------------------------
(* Nobody is removed                                                        *)

Calm ==
  TypeOK /\ NothingLeft /\ NobodyFails /\ Newborn /\ Grown /\ SenderFirst

Known == InSockets /\ Vectors /\ Rows /\ Stages /\ NoGhosts /\ Flags

\* A process that sends has heard everybody.
LEMMA SendersHeard ==
  ASSUME Calm, NEW n \in Node, NEW i \in Node, Sends(n), n # i
  PROVE  /\ up[n] /\ age[n] > Since(i)
         /\ ~Listening(n, i) => HasHeard(n, i)
<1>1. up[n] /\ age[n] >= CycleLength
  BY DEF Calm, Grown
<1>2. age[n] > Since(i)
  BY <1>1, SinceFacts, AgeTypes, CycleFacts DEF Calm
<1> QED
  BY <1>1, <1>2 DEF HasHeard

\* In a MEMBERSHIP slice everybody who sends has confirmed the sender.
LEMMA SenderConfirmed ==
  ASSUME Calm, Known, slice = "MEMBERSHIP", Sends(turn),
         NEW n \in Node, Sends(n), NEW i \in Node, Sends(i), i # turn
  PROVE  view[n].vv[i][turn] = "RECEIVED"
<1>1. turn \in Node /\ ~Listening(n, i) /\ ~Listening(n, turn)
  BY DEF Calm, TypeOK, Listening
<1>2. CASE i = n
  <2>1. HasHeard(n, turn)
    BY <1>1, <1>2, SendersHeard
  <2> QED
    BY <1>1, <1>2, <2>1 DEF Known, Vectors
<1>3. CASE i # n
  <2>1. HasHeard(n, i)
    BY <1>1, <1>3, SendersHeard
  <2>2. Since(i) < Since(turn)
    BY <1>1, SinceFacts, CycleFacts DEF Calm
  <2> QED
    BY <1>1, <2>1, <2>2 DEF Known, Rows, Confirmed
<1> QED
  BY <1>2, <1>3

\* Every other member in a view of the MEMBERSHIP slice is a member indeed.
LEMMA TrueMembers ==
  ASSUME Known, NEW n \in Node, NEW i \in Members(view[n]), i # turn
  PROVE  Belongs(i) /\ Sends(i)
BY DEF Known, NoGhosts, Joins, Members, Belongs, Sends

\* A join is never refused when there is a membership.
LEMMA JoinsSucceed ==
  ASSUME Calm, Known, NEW n \in Node, slice = "MEMBERSHIP", Admits(n), view[n].flag
  PROVE  CanJoin(view[n], turn)
<1>1. turn \in Node /\ Sends(turn) /\ Sends(n)
  BY DEF Calm, TypeOK, Admits, Known, NoGhosts, Sends, Stands
<1> SUFFICES ASSUME NEW i \in Members(view[n])
             PROVE  view[n].vv[i][turn] = "RECEIVED"
  BY DEF CanJoin, CheckAckInitMsg
<1>2. i # turn /\ i \in Node
  BY DEF Admits, Members
<1> QED
  BY <1>1, <1>2, TrueMembers, SenderConfirmed

LEMMA NothingSuspicious ==
  ASSUME NoSuspicion, TypeOK, NEW n \in Node
  PROVE  AfterSuspicion(n) = view[n] /\ ~SelfConvicted(n)
<1>1. turn \in Node
  BY DEF TypeOK
<1> QED
  BY <1>1 DEF NoSuspicion, AfterSuspicion, SelfConvicted, Convicted

LEMMA NobodyOmits ==
  ASSUME Calm, Known, NEW n \in Node, slice = "MEMBERSHIP", Decides(n)
  PROVE  /\ CheckSenderOmission(view[n], n, turn)
         /\ n = turn \/ view[n].vv[n][turn] = "RECEIVED"
<1>1. turn \in Node /\ Sends(turn) /\ Sends(n)
  BY DEF Calm, TypeOK, Decides, Known, NoGhosts, Sends, Stands
<1>2. CASE n # turn
  BY <1>1, <1>2, SenderConfirmed DEF CheckSenderOmission
<1>3. CASE n = turn
  <2>1. Omitted(view[n], turn) = {}
    <3> SUFFICES ASSUME NEW i \in Members(view[n]) \ {turn}
                 PROVE  view[n].vv[i][turn] = "RECEIVED"
      BY DEF Omitted
    <3> QED
      BY <1>1, TrueMembers, SenderConfirmed DEF Members
  <2> QED
    BY <1>3, <2>1, FS_EmptySet DEF CheckSenderOmission, CountOmittedReceptions
<1> QED
  BY <1>2, <1>3

LEMMA PredecessorHeard ==
  ASSUME Calm, Known, Counts, NEW n \in Node, slice = "MEMBERSHIP", Decides(n)
  PROVE  PrevReceived(view[n], turn)
<1> DEFINE prev == GetPrevMember(view[n], turn)
<1>1. turn \in Node /\ Sends(turn) /\ Sends(n) /\ up[n]
  BY DEF Calm, TypeOK, Decides, Known, NoGhosts, Sends, Stands, Grown
<1>2. prev \in Members(view[n]) /\ prev # turn
  <2>1. Cardinality(Members(view[n])) >= 2
    BY MembersFinite, NodeFacts DEF Counts, Decides
  <2> QED
    BY <1>1, <2>1, AnotherMember, PrevMember
<1> HIDE DEF prev
<1>3. Belongs(prev) /\ Sends(prev) /\ prev \in Node
  BY <1>2, TrueMembers DEF Members
<1>4. ~Listening(n, turn) /\ ~Listening(n, prev)
  BY DEF Listening
<1>5. CASE n = turn
  <2>1. HasHeard(n, prev)
    BY <1>1, <1>2, <1>3, <1>4, <1>5, SendersHeard
  <2> QED
    BY <1>1, <1>3, <1>5, <2>1 DEF Known, Vectors, PrevReceived, prev
<1>6. CASE n # turn
  <2>1. HasHeard(n, turn)
    BY <1>1, <1>4, <1>6, SendersHeard
  <2> QED
    BY <1>1, <1>2, <1>3, <2>1 DEF Known, Rows, Confirmed, PrevReceived, prev
<1> QED
  BY <1>5, <1>6

\* The membership decision is always for the sender.
LEMMA DecisionForSender ==
  ASSUME Spared, Calm, Known, Counts, NoSuspicion, MessageHeld,
         NEW n \in Node, MembershipDecision(n)
  PROVE  DeliverMessage(n, view[n]) /\ view[n].last[turn] # Null
<1>1. /\ Wakes(n, "MEMBERSHIP") /\ Decides(n) /\ TypeOK /\ n \notin late
      /\ slice = "MEMBERSHIP"
  BY DEF MembershipDecision, Wakes, Calm, NobodyFails
<1>2. AfterSuspicion(n) = view[n] /\ ~SelfConvicted(n)
  BY <1>1, NothingSuspicious
<1>3. CheckSenderOmission(view[n], n, turn)
      /\ (n = turn \/ view[n].vv[n][turn] = "RECEIVED")
  BY <1>1, NobodyOmits
<1>4. PrevReceived(view[n], turn)
  BY <1>1, PredecessorHeard
<1>5. CheckReceiverOmission(view[n], turn) /\ EnterSuspicion(view[n], turn) = view[n]
  <2>1. ASSUME NEW p, NEW q
        PROVE  ~(CompareVV(view[n], p, q) < 0)
    <3>1. PICK a \in Int : a = -1
      OBVIOUS
    <3>2. CompareVV(view[n], p, q) \in {a % 256, 0}
      BY <3>1 DEF CompareVV
    <3>3. a % 256 >= 0
      OBVIOUS
    <3> QED
      BY <3>2, <3>3
  <2> QED
    BY <1>4, <2>1 DEF CheckReceiverOmission, EnterSuspicion
<1>6. Mval(view[n], n, turn)
  BY <1>3, <1>5 DEF Mval
<1>7. DeliverMessage(n, view[n])
  BY <1>2, <1>3, <1>5, <1>6 DEF MembershipDecision
<1>8. Delivers(n)
  BY <1>1, <1>2, <1>3, <1>6 DEF Delivers, Wakes
<1> QED
  BY <1>1, <1>7, <1>8, HeldDelivers DEF NoNullDelivery

-----------------------------------------------------------------------------
(* What the handlers do when nothing fails                                  *)

Inv ==
  /\ OrderInv /\ MessageHeld
  /\ Calm /\ Known /\ Counts /\ NoSuspicion /\ MembersLines

\* Process n runs its handler and goes on.
Runs(n) ==
  /\ up[n] /\ n \notin ran /\ ran' = ran \cup {n}
  /\ UNCHANGED <<up, age, turn, slice>>
  /\ \A m \in Node \ {n} : view'[m] = view[m]

\* All but the lines in the view of n stays as it is.
Steady(n) ==
  /\ view'[n].stage = view[n].stage /\ view'[n].vv = view[n].vv
  /\ view'[n].sus = view[n].sus /\ view'[n].flag = view[n].flag
  /\ view'[n].count = view[n].count

Enters(n) ==
  /\ slice = "MEMBERSHIP" /\ Runs(n) /\ Admits(n)
  /\ view'[n].stage = [view[n].stage EXCEPT ![turn] = "MEMBER"]
  /\ view'[n].vv = view[n].vv /\ view'[n].sus = view[n].sus
  /\ view'[n].flag = TRUE /\ view'[n].count = view[n].count + 1
  /\ view'[n].last = view[n].last
  /\ UNCHANGED <<latest, out>>

\* Nobody is admitted in a MEMBERSHIP slice of n.
Passes(n) ==
  /\ slice = "MEMBERSHIP" /\ Runs(n) /\ Steady(n) /\ UNCHANGED latest
  /\ Admits(n) => turn = n /\ ~view[n].flag
  /\ \/ ~Decides(n) /\ view'[n].last = view[n].last /\ UNCHANGED out
     \/ /\ Decides(n) /\ view[n].last[turn] = Empty
        /\ view'[n].last = view[n].last /\ UNCHANGED out
     \/ /\ Decides(n) /\ view[n].last[turn] \notin {Null, Empty}
        /\ view'[n].last = [view[n].last EXCEPT ![turn] = Null]
        /\ out' = [out EXCEPT ![n] = Append(@, view[n].last[turn])]

\* n has broadcast msg, the message all others hear in this slice.
Broadcasts(n) ==
  /\ slice = "SEND" /\ turn = n /\ Runs(n) /\ UNCHANGED out
  /\ view'[n].stage = [view[n].stage EXCEPT ![n] = IF Belongs(n) THEN "MEMBER" ELSE "ACTIVE"]
  /\ view'[n].vv = view[n].vv /\ view'[n].sus = view[n].sus
  /\ view'[n].flag = view[n].flag /\ view'[n].count = view[n].count
  /\ age[n] >= CycleLength
  /\ \A s \in Node \ {n} : view'[n].last[s] = view[n].last[s] /\ latest'[s] = latest[s]
  /\ ~Belongs(n) => latest' = latest
  /\ \E msg \in Message :
       /\ msg.nodeID = n /\ Tells(msg)'
       /\ \A m \in Node : sock'[m] = IF m # n /\ up[m] THEN sock[m] \o <<msg, msg>>
                                                      ELSE sock[m]

StaysSilent(n) ==
  /\ slice = "SEND" /\ turn = n /\ Runs(n) /\ ~Sends(n) /\ UNCHANGED <<view, sock, latest, out>>

\* n takes the message of this turn's sender.
Hears(n) ==
  /\ slice = "SEND" /\ turn # n /\ Runs(n) /\ UNCHANGED <<latest, out>>
  /\ FromSender(n) # {} /\ (turn \in ran \/ ~up[turn])
  /\ view'[n].stage = [view[n].stage EXCEPT ![turn] =
                         IF ~Belongs(n) THEN Stands(turn)
                         ELSE IF @ = "INACTIVE" THEN "ACTIVE" ELSE @]
  /\ view'[n].flag = (view[n].flag \/ (~Belongs(n) /\ Belongs(turn)))
  /\ view'[n].count = IF ~Belongs(n) /\ Belongs(turn) /\ view[n].stage[turn] # "MEMBER"
                      THEN view[n].count + 1 ELSE view[n].count
  /\ \A i \in Node \ {n, turn} : view'[n].vv[i] = view[n].vv[i]
  /\ view'[n].vv[n] = [view[n].vv[n] EXCEPT ![turn] = "RECEIVED"]
  /\ \A j \in ArrayToByte(view[turn], turn) : view'[n].vv[turn][j] = "RECEIVED"
  /\ \A i \in Node \ {turn} : view'[n].sus[i] = view[n].sus[i]
  /\ view'[n].sus[turn].flag = FALSE
  /\ view'[n].last = [view[n].last EXCEPT ![turn] = latest[turn]]
  /\ \A m \in Node \ {n} : sock'[m] = sock[m]
  /\ \E first \in FromSender(n) : sock'[n] = SubSeq(sock[n], first + 1, Len(sock[n]))

\* n has waited in vain.
HearsNothing(n) ==
  /\ slice = "SEND" /\ turn # n /\ Runs(n) /\ UNCHANGED <<latest, out>>
  /\ (turn \in ran \/ ~up[turn]) /\ FromSender(n) = {}
  /\ view'[n].stage = view[n].stage /\ view'[n].sus = view[n].sus
  /\ view'[n].flag = view[n].flag /\ view'[n].count = view[n].count
  /\ \A i \in Node \ {n, turn} : view'[n].vv[i] = view[n].vv[i]
  /\ view'[n].vv[n] = [view[n].vv[n] EXCEPT ![turn] = "NOT_RECEIVED"]
  /\ view'[n].last = [view[n].last EXCEPT ![turn] = Null]
  /\ \A m \in Node \ {n} : sock'[m] = sock[m]
  /\ sock'[n] = <<>>

LEMMA RunsOn ==
  ASSUME TypeOK, NEW n \in Node, NEW s, Wakes(n, s), NEW w,
         view' = [view EXCEPT ![n] = w], UNCHANGED <<up, age>>
  PROVE  Runs(n) /\ view'[n] = w
BY DEF Wakes, Runs, TypeOK

LEMMA EnterMembershipFree ==
  ASSUME Inv, NEW n \in Node, EnterMembership(n)
  PROVE  Enters(n) \/ Passes(n)
<1>1. /\ TypeOK /\ view[n] \in View /\ turn \in Node /\ Calm /\ Known
      /\ view \in [Node -> View]
  BY DEF Inv, Calm, TypeOK
<1>2. /\ Wakes(n, "MEMBERSHIP") /\ Admits(n) /\ slice = "MEMBERSHIP" /\ UNCHANGED <<out, latest>>
  BY DEF EnterMembership, Wakes
<1>3. CASE CanJoin(view[n], turn)
  <2> DEFINE w == Enter(view[n], turn)
  <2>1. view' = [view EXCEPT ![n] = w] /\ UNCHANGED <<up, age>>
    BY <1>3 DEF EnterMembership
  <2>2. /\ w.stage = [view[n].stage EXCEPT ![turn] = "MEMBER"]
        /\ w.vv = view[n].vv /\ w.sus = view[n].sus /\ w.last = view[n].last
        /\ w.flag = TRUE /\ w.count = view[n].count + 1
    BY <1>1 DEF Enter, View
  <2> HIDE DEF w
  <2>3. Runs(n) /\ view'[n] = w
    BY <1>1, <1>2, <2>1, RunsOn
  <2> QED
    BY <1>2, <2>2, <2>3 DEF Enters
<1>4. CASE ~CanJoin(view[n], turn)
  <2>1. ~view[n].flag
    BY <1>1, <1>2, <1>4, JoinsSucceed
  <2>2. UNCHANGED proc
    BY <1>4, <2>1 DEF EnterMembership, GivesUp
  <2>3. turn = n
    <3>1. Belongs(n) => view[n].flag
      BY <1>1 DEF Known, Flags, Belongs, Stands
    <3> QED
      BY <1>2, <2>1, <3>1 DEF Admits, Belongs, Stands
  <2>4. ~Decides(n)
    BY <1>2 DEF Admits, Decides
  <2> QED
    BY <1>1, <1>2, <2>1, <2>2, <2>3, <2>4 DEF Passes, Runs, Steady, Wakes, proc
<1> QED
  BY <1>3, <1>4

LEMMA MembershipDecisionFree ==
  ASSUME Spared, Inv, NEW n \in Node, MembershipDecision(n)
  PROVE  Passes(n)
<1>1. /\ TypeOK /\ view[n] \in View /\ turn \in Node
      /\ view \in [Node -> View] /\ out \in [Node -> Seq(Nat)]
  BY DEF Inv, Calm, TypeOK
<1>2. /\ Wakes(n, "MEMBERSHIP") /\ Decides(n) /\ ~Admits(n)
      /\ slice = "MEMBERSHIP" /\ UNCHANGED latest
  BY DEF MembershipDecision, Wakes, Decides, Admits
<1>3. DeliverMessage(n, view[n]) /\ view[n].last[turn] # Null
  BY DecisionForSender DEF Inv
<1> DEFINE left == [view[n] EXCEPT !.last[turn] = Null]
<1>4. CASE view[n].last[turn] = Empty
  <2>1. view' = [view EXCEPT ![n] = view[n]] /\ out' = [out EXCEPT ![n] = @] /\ UNCHANGED <<up, age>>
    BY <1>3, <1>4 DEF DeliverMessage
  <2>2. Runs(n) /\ view'[n] = view[n] /\ out' = out
    BY <1>1, <1>2, <2>1, RunsOn
  <2> QED
    BY <1>2, <1>4, <2>2 DEF Passes, Steady
<1>5. CASE view[n].last[turn] # Empty
  <2>1. /\ view' = [view EXCEPT ![n] = left] /\ UNCHANGED <<up, age>>
        /\ out' = [out EXCEPT ![n] = Append(@, view[n].last[turn])]
    BY <1>3, <1>5 DEF DeliverMessage
  <2>2. /\ left.stage = view[n].stage /\ left.vv = view[n].vv /\ left.sus = view[n].sus
        /\ left.flag = view[n].flag /\ left.count = view[n].count
        /\ left.last = [view[n].last EXCEPT ![turn] = Null]
    BY <1>1 DEF View
  <2> HIDE DEF left
  <2>3. Runs(n) /\ view'[n] = left
    BY <1>1, <1>2, <2>1, RunsOn
  <2> QED
    BY <1>2, <1>3, <1>5, <2>1, <2>2, <2>3 DEF Passes, Steady
<1> QED
  BY <1>4, <1>5

LEMMA NoDecisionFree ==
  ASSUME Inv, NEW n \in Node, NoDecision(n)
  PROVE  Passes(n)
BY DEF NoDecision, Wakes, Passes, Runs, Steady, proc

\* The message that n prepares says what n knows.
LEMMA PreparedMessage ==
  ASSUME Inv, NEW n \in Node, NEW stage \in Stage, NEW body \in Body, turn' = n,
         view'[n].stage[n] = stage, view'[n].vv = view[n].vv, latest'[n] = body,
         NEW msg, msg = PrepareMsg(n, stage, body)
  PROVE  msg \in Message /\ msg.nodeID = n /\ Tells(msg)'
<1>1. view[n].sus[n].flag = FALSE
  BY DEF Inv, NoSuspicion
<1>2. msg \in Message
  BY PrepareMsgType DEF Inv, Calm
<1> QED
  BY <1>1, <1>2 DEF PrepareMsg, Tells, Stands, ArrayToByte

LEMMA SendMessageFree ==
  ASSUME Spared, Inv, NEW n \in Node, SendMessage(n)
  PROVE  Broadcasts(n)
<1> DEFINE body == IF Fetches(n) THEN bcast + 1 ELSE Empty
           w    == [view[n] EXCEPT !.last[n] = body]
<1>1. /\ TypeOK /\ view[n] \in View /\ latest \in [Node -> Body]
  BY DEF Inv, Calm, TypeOK
<1>0. PICK msg : msg = PrepareMsg(n, "MEMBER", body)
  OBVIOUS
<1>2. /\ Wakes(n, "SEND") /\ slice = "SEND" /\ turn = n /\ turn' = n /\ Belongs(n)
      /\ UNCHANGED <<up, age, out>> /\ BroadcastMessage(n, msg)
      /\ latest' = [latest EXCEPT ![n] = body]
  BY <1>0 DEF SendMessage, Wakes, Belongs, Stands
<1>3. view' = [view EXCEPT ![n] = w]
  BY DEF SendMessage
<1>4. /\ w.stage = view[n].stage /\ w.vv = view[n].vv /\ w.sus = view[n].sus
      /\ w.flag = view[n].flag /\ w.count = view[n].count
      /\ \A s \in Node \ {n} : w.last[s] = view[n].last[s]
  BY <1>1 DEF View
<1> HIDE DEF w, body
<1>5. Runs(n) /\ view'[n] = w
  BY <1>1, <1>2, <1>3, RunsOn
<1>6. view[n].stage = [view[n].stage EXCEPT ![n] = "MEMBER"] /\ view[n].stage[n] = "MEMBER"
  <2>1. view[n].stage \in [Node -> Stage]
    BY <1>1 DEF View
  <2> QED
    BY <1>2, <2>1 DEF Belongs, Stands
<1>7. latest'[n] = body /\ \A s \in Node \ {n} : latest'[s] = latest[s]
  BY <1>1, <1>2
<1>8. msg \in Message /\ msg.nodeID = n /\ Tells(msg)'
  <2>1. body \in Body /\ "MEMBER" \in Stage
    BY <1>1 DEF TypeOK, Body, Empty, Stage, body
  <2> QED
    BY <1>0, <1>2, <1>4, <1>5, <1>6, <1>7, <2>1, PreparedMessage
<1>9. \A m \in Node : sock'[m] = IF m # n /\ up[m] THEN sock[m] \o <<msg, msg>> ELSE sock[m]
  BY <1>1, <1>2, AllHear
<1>10. age[n] >= CycleLength
  BY <1>2 DEF Inv, Calm, Grown, Sends, Belongs
<1> QED
  BY <1>2, <1>4, <1>5, <1>6, <1>7, <1>8, <1>9, <1>10 DEF Broadcasts

LEMMA AgeOfSender ==
  ASSUME TypeOK, NEW n \in Node, TRUE \in CycleAboveZero(n)
  PROVE  age[n] >= CycleLength
<1>1. ~(age[n] < CycleLength)
  BY DEF CycleAboveZero
<1> QED
  BY <1>1, AgeTypes, CycleFacts

LEMMA SendInitFree ==
  ASSUME Spared, Inv, NEW n \in Node, SendInit(n)
  PROVE  Broadcasts(n)
<1> DEFINE w == [view[n] EXCEPT !.stage[n] = "ACTIVE"]
<1>0. PICK msg : msg = PrepareMsg(n, "ACTIVE", Empty)
  OBVIOUS
<1>1. /\ TypeOK /\ view[n] \in View
  BY DEF Inv, Calm, TypeOK
<1>2. /\ Wakes(n, "SEND") /\ slice = "SEND" /\ turn = n /\ turn' = n /\ ~Belongs(n)
      /\ UNCHANGED <<up, age, out, latest>> /\ BroadcastMessage(n, msg)
      /\ TRUE \in CycleAboveZero(n)
  BY <1>0 DEF SendInit, Wakes, Belongs, Stands
<1>3. view' = [view EXCEPT ![n] = w]
  BY DEF SendInit
<1>4. /\ w.stage = [view[n].stage EXCEPT ![n] = "ACTIVE"]
      /\ w.vv = view[n].vv /\ w.sus = view[n].sus
      /\ w.flag = view[n].flag /\ w.count = view[n].count /\ w.last = view[n].last
  BY <1>1 DEF View
<1>5. w.stage[n] = "ACTIVE"
  BY <1>1, <1>4 DEF View
<1> HIDE DEF w
<1>6. Runs(n) /\ view'[n] = w
  BY <1>1, <1>2, <1>3, RunsOn
<1>7. latest'[n] = Empty
  <2>1. latest[n] = Empty
    BY <1>2 DEF Inv, MembersLines
  <2> QED
    BY <1>2, <2>1
<1>8. msg \in Message /\ msg.nodeID = n /\ Tells(msg)'
  <2>1. view'[n].stage[n] = "ACTIVE" /\ view'[n].vv = view[n].vv
    BY <1>4, <1>5, <1>6
  <2>2. turn' = n /\ Empty \in Body /\ "ACTIVE" \in Stage
    BY <1>2 DEF Body, Empty, Stage
  <2> QED
    BY <1>0, <1>7, <2>1, <2>2, PreparedMessage
<1>9. \A m \in Node : sock'[m] = IF m # n /\ up[m] THEN sock[m] \o <<msg, msg>> ELSE sock[m]
  BY <1>1, <1>2, AllHear
<1>10. age[n] >= CycleLength
  BY <1>1, <1>2, AgeOfSender
<1>11. view'[n].stage = [view[n].stage EXCEPT ![n] = IF Belongs(n) THEN "MEMBER" ELSE "ACTIVE"]
  <2>1. ~Belongs(n)
    BY <1>2
  <2> QED
    BY <1>4, <1>6, <2>1, Zenon
<1>12. /\ slice = "SEND" /\ turn = n /\ Runs(n) /\ ~Belongs(n) /\ UNCHANGED <<out, latest>>
  BY <1>2, <1>6
<1>13. /\ view'[n].vv = view[n].vv /\ view'[n].sus = view[n].sus
       /\ view'[n].flag = view[n].flag /\ view'[n].count = view[n].count
       /\ view'[n].last = view[n].last
  BY <1>4, <1>6, Zenon
<1>14. \E said \in Message :
              /\ said.nodeID = n /\ Tells(said)'
              /\ \A m \in Node : sock'[m] = IF m # n /\ up[m]
                                            THEN sock[m] \o <<said, said>> ELSE sock[m]
  BY <1>8, <1>9, Zenon
<1>15. \A s \in Node \ {n} : view'[n].last[s] = view[n].last[s] /\ latest'[s] = latest[s]
  BY <1>12, <1>13
<1> QED
  BY <1>10, <1>11, <1>12, <1>13, <1>14, <1>15 DEF Broadcasts

\* Who waits to be admitted repeats its initialization message.
LEMMA SendNothingFree ==
  ASSUME Inv, NEW n \in Node, SendNothing(n)
  PROVE  StaysSilent(n)
<1>1. /\ TypeOK /\ Wakes(n, "SEND") /\ slice = "SEND" /\ turn = n
      /\ n \notin ran /\ UNCHANGED <<proc, latest, out>>
      /\ FALSE \in CycleAboveZero(n) \/ ~MayJoin(n)
  BY DEF Inv, Calm, SendNothing, Wakes
<1>2. ~Sends(n)
  <2> SUFFICES ASSUME Sends(n)
               PROVE  FALSE
    OBVIOUS
  <2>1. Stands(n) = "ACTIVE"
    <3>1. Stands(n) \in Stage
      BY <1>1 DEF TypeOK, View, Stands
    <3> QED
      BY <3>1 DEF Stage, Sends, Stands, SendNothing
  <2>2. ~view[n].flag
    BY <1>1, <2>1 DEF Inv, Known, Flags
  <2>3. MayJoin(n)
    BY <2>2 DEF MayJoin
  <2>4. age[n] >= CycleLength /\ age[n] # CycleLength
    BY <1>1 DEF Inv, Calm, Grown
  <2>5. ~(age[n] < CycleLength)
    BY <1>1, <2>4, AgeTypes, CycleFacts
  <2>6. FALSE \notin CycleAboveZero(n)
    BY <2>4, <2>5 DEF CycleAboveZero
  <2> QED
    BY <1>1, <2>3, <2>6
<1> QED
  BY <1>1, <1>2 DEF StaysSilent, Runs, Wakes, proc

LEMMA ReceiveMessageFree ==
  ASSUME Inv, NEW n \in Node, ReceiveMessage(n)
  PROVE  Hears(n)
<1>1. PICK first \in FirstFromSender(n) :
        /\ view' = [view EXCEPT ![n] = AfterReceiving(n, sock[n][first])]
        /\ sock' = [sock EXCEPT ![n] = SubSeq(@, first + 1, Len(@))]
  BY DEF ReceiveMessage
<1>2. /\ TypeOK /\ view[n] \in View /\ turn \in Node
      /\ sock \in [Node -> Seq(Message)] /\ first \in FromSender(n)
  BY DEF Inv, Calm, TypeOK, FirstFromSender
<1>3. /\ Wakes(n, "SEND") /\ slice = "SEND" /\ turn # n
      /\ turn \in ran \/ ~up[turn]
      /\ UNCHANGED <<up, age, out, latest>>
  BY DEF ReceiveMessage, Receives, Wakes
<1> DEFINE msg == sock[n][first]
           v   == UpdateView(view[n], n, turn, msg.vector)
           told == v.stage[n] # "MEMBER" /\ msg.stage = "MEMBER"
           w == [v EXCEPT !.flag        = @ \/ told,
                          !.count       = IF told /\ v.stage[turn] # "MEMBER"
                                          THEN @ + 1 ELSE @,
                          !.stage[turn] = ReceivedStage(v, n, msg),
                          !.last[turn]  = msg.body,
                          !.sus[turn]   = msg.sus]
<1>4. w = AfterReceiving(n, msg)
  BY DEF AfterReceiving
<1>5. view' = [view EXCEPT ![n] = w]
  BY <1>1, <1>4
<1>6. Tells(msg)
  BY <1>2, <1>3 DEF Inv, Known, InSockets, InSocket
<1> HIDE DEF msg
<1>7. v \in View
  BY <1>2, UpdateViewType
<1>8. /\ v.stage = view[n].stage /\ v.sus = view[n].sus /\ v.last = view[n].last
      /\ v.flag = view[n].flag /\ v.count = view[n].count
      /\ \A i \in Node \ {n, turn} : v.vv[i] = view[n].vv[i]
      /\ v.vv[n] = [view[n].vv[n] EXCEPT ![turn] = "RECEIVED"]
      /\ \A j \in Node : v.vv[turn][j] = IF j \in msg.vector THEN "RECEIVED" ELSE "NOT_RECEIVED"
  BY <1>2, <1>3 DEF UpdateView, View
<1> HIDE DEF v
<1>9. /\ w.stage = [v.stage EXCEPT ![turn] = ReceivedStage(v, n, msg)]
      /\ w.last = [v.last EXCEPT ![turn] = msg.body]
      /\ w.vv = v.vv
      /\ w.sus = [v.sus EXCEPT ![turn] = msg.sus]
      /\ w.flag = (v.flag \/ told)
      /\ w.count = IF told /\ v.stage[turn] # "MEMBER" THEN v.count + 1 ELSE v.count
  BY <1>7 DEF View
<1>10. told <=> ~Belongs(n) /\ Belongs(turn)
  BY <1>6, <1>8 DEF Tells, Belongs, Stands
<1>11. ReceivedStage(v, n, msg) = IF ~Belongs(n) THEN Stands(turn)
                                  ELSE IF view[n].stage[turn] = "INACTIVE" THEN "ACTIVE"
                                  ELSE view[n].stage[turn]
  BY <1>6, <1>8 DEF ReceivedStage, Tells, Belongs, Stands
<1> HIDE DEF w, told
<1>12. Runs(n) /\ view'[n] = w
  BY <1>2, <1>3, <1>5, RunsOn
<1>13. \A j \in ArrayToByte(view[turn], turn) : w.vv[turn][j] = "RECEIVED"
  BY <1>6, <1>8, <1>9 DEF Tells, ArrayToByte
<1>14. w.sus[turn].flag = FALSE /\ \A i \in Node \ {turn} : w.sus[i] = view[n].sus[i]
  BY <1>2, <1>6, <1>8, <1>9 DEF Tells, View
<1>15. /\ \A m \in Node \ {n} : sock'[m] = sock[m]
       /\ sock'[n] = SubSeq(sock[n], first + 1, Len(sock[n]))
  BY <1>1, <1>2
<1>16. w.last = [view[n].last EXCEPT ![turn] = latest[turn]]
  BY <1>6, <1>8, <1>9 DEF Tells
<1>17. view'[n].stage = [view[n].stage EXCEPT ![turn] =
                           IF ~Belongs(n) THEN Stands(turn)
                           ELSE IF @ = "INACTIVE" THEN "ACTIVE" ELSE @]
  BY <1>8, <1>9, <1>11, <1>12
<1>18. /\ view'[n].flag = (view[n].flag \/ (~Belongs(n) /\ Belongs(turn)))
       /\ view'[n].count = IF ~Belongs(n) /\ Belongs(turn) /\ view[n].stage[turn] # "MEMBER"
                           THEN view[n].count + 1 ELSE view[n].count
  <2>1. view'[n].flag = (view[n].flag \/ (~Belongs(n) /\ Belongs(turn)))
    BY <1>8, <1>9, <1>10, <1>12, Zenon
  <2>2. view'[n].count = IF ~Belongs(n) /\ Belongs(turn) /\ view[n].stage[turn] # "MEMBER"
                         THEN view[n].count + 1 ELSE view[n].count
    BY <1>8, <1>9, <1>10, <1>12
  <2> QED
    BY <2>1, <2>2
<1>19. /\ slice = "SEND" /\ turn # n /\ (turn \in ran \/ ~up[turn])
       /\ UNCHANGED <<latest, out>> /\ FromSender(n) # {}
  BY <1>2, <1>3
<1>20. /\ \A i \in Node \ {n, turn} : view'[n].vv[i] = view[n].vv[i]
       /\ view'[n].vv[n] = [view[n].vv[n] EXCEPT ![turn] = "RECEIVED"]
       /\ \A j \in ArrayToByte(view[turn], turn) : view'[n].vv[turn][j] = "RECEIVED"
  <2>1. w.vv = v.vv /\ view'[n].vv = w.vv
    BY <1>9, <1>12
  <2>2. ASSUME NEW i \in Node \ {n, turn} PROVE view'[n].vv[i] = view[n].vv[i]
    BY <1>8, <2>1
  <2>3. view'[n].vv[n] = [view[n].vv[n] EXCEPT ![turn] = "RECEIVED"]
    BY <1>8, <2>1
  <2> QED
    BY <1>13, <2>1, <2>2, <2>3
<1>21. /\ \A i \in Node \ {turn} : view'[n].sus[i] = view[n].sus[i]
       /\ view'[n].sus[turn].flag = FALSE
       /\ view'[n].last = [view[n].last EXCEPT ![turn] = latest[turn]]
  BY <1>12, <1>14, <1>16, Zenon
<1>22. \E k \in FromSender(n) : sock'[n] = SubSeq(sock[n], k + 1, Len(sock[n]))
  BY <1>2, <1>15, Zenon
<1>23. \A m \in Node \ {n} : sock'[m] = sock[m]
  BY <1>15
<1> QED
  BY <1>12, <1>17, <1>18, <1>19, <1>20, <1>21, <1>22, <1>23, Zenon DEF Hears

LEMMA ReceiveNothingFree ==
  ASSUME Inv, NEW n \in Node, ReceiveNothing(n)
  PROVE  HearsNothing(n)
<1> DEFINE u == ForgetView(view[n], n, turn)
           v == [u EXCEPT !.last[turn] = Null]
<1>1. /\ TypeOK /\ view[n] \in View /\ turn \in Node /\ Calm /\ Known
      /\ sock \in [Node -> Seq(Message)]
  BY DEF Inv, Calm, TypeOK
<1>2. /\ Wakes(n, "SEND") /\ slice = "SEND" /\ turn # n /\ FromSender(n) = {}
      /\ turn \in ran \/ ~up[turn]
      /\ up[n] /\ n \notin ran
      /\ UNCHANGED <<up, age, out, latest>> /\ sock' = [sock EXCEPT ![n] = <<>>]
  BY DEF ReceiveNothing, Receives, Wakes
<1>3. view[n].stage[turn] = "INACTIVE"
  <2>1. CASE Sends(turn)
    <3>1. up[turn]
      BY <1>1, <2>1 DEF Calm, Grown
    <3>2. ~(age[n] > 0)
      BY <1>1, <1>2, <2>1, <3>1 DEF Known, InSockets, InSocket
    <3>3. age[n] = 0
      BY <1>1, <3>2, AgeTypes
    <3>4. view[n] = InitView
      BY <1>1, <1>2, <3>3 DEF Calm, Newborn
    <3> QED
      BY <1>1, <3>4 DEF InitView
  <2>2. CASE ~Sends(turn)
    BY <1>1, <2>2 DEF Known, NoGhosts
  <2> QED
    BY <2>1, <2>2
<1>4. u \in View
  BY <1>1, ForgetViewType
<1>5. /\ u.stage = view[n].stage /\ u.sus = view[n].sus /\ u.last = view[n].last
      /\ u.flag = view[n].flag /\ u.count = view[n].count
      /\ \A i \in Node \ {n, turn} : u.vv[i] = view[n].vv[i]
      /\ u.vv[n] = [view[n].vv[n] EXCEPT ![turn] = "NOT_RECEIVED"]
  BY <1>1, <1>2 DEF ForgetView, View
<1> HIDE DEF u
<1>6. /\ v.stage = u.stage /\ v.sus = u.sus /\ v.flag = u.flag /\ v.count = u.count
      /\ v.vv = u.vv /\ v.last = [u.last EXCEPT ![turn] = Null]
  BY <1>1, <1>4 DEF View
<1>7. view' = [view EXCEPT ![n] = v]
  <2>1. v.stage[turn] = "INACTIVE"
    BY <1>3, <1>5, <1>6
  <2> QED
    BY <2>1 DEF ReceiveNothing, u
<1> HIDE DEF v
<1>8. Runs(n) /\ view'[n] = v
  BY <1>1, <1>2, <1>7, RunsOn
<1>9. /\ \A m \in Node \ {n} : sock'[m] = sock[m]
      /\ sock'[n] = <<>>
  BY <1>1, <1>2
<1> QED
  BY <1>2, <1>5, <1>6, <1>8, <1>9 DEF HearsNothing

\* Every handler in one of these ways.
Handles(n) ==
  \/ Enters(n) \/ Passes(n) \/ Broadcasts(n) \/ StaysSilent(n)
  \/ Hears(n) \/ HearsNothing(n)

LEMMA HandlerFree ==
  ASSUME Spared, Inv, NEW n \in Node, Handler(n)
  PROVE  Handles(n)
BY EnterMembershipFree, MembershipDecisionFree, NoDecisionFree, SendMessageFree,
   SendInitFree, SendNothingFree, ReceiveMessageFree, ReceiveNothingFree
   DEF Handler, Handles

-----------------------------------------------------------------------------
(* What the handlers change                                                 *)

LEMMA HandledRuns ==
  ASSUME NEW n \in Node, Handles(n)
  PROVE  Runs(n)
BY DEF Handles, Enters, Passes, Broadcasts, StaysSilent, Hears, HearsNothing

\* A process moves on in its own turn only.
LEMMA StandsHandled ==
  ASSUME TypeOK, NEW n \in Node, Handles(n), NEW i \in Node
  PROVE  /\ Sends(i) => Sends(i)'
         /\ Belongs(i) => Belongs(i)'
         /\ \/ Stands(i)' = Stands(i)
            \/ i = n /\ turn = n /\ (Enters(n) \/ Broadcasts(n))
         /\ Enters(n) /\ turn = n => Stands(n) = "ACTIVE" /\ Stands(n)' = "MEMBER"
         /\ Broadcasts(n) => Stands(n)' = IF Belongs(n) THEN "MEMBER" ELSE "ACTIVE"
<1>1. Runs(n) /\ view[n].stage \in [Node -> Stage] /\ turn \in Node
  BY HandledRuns DEF TypeOK, View
<1>2. i # n => Stands(i)' = Stands(i)
  BY <1>1 DEF Runs, Stands
<1>3. ASSUME Passes(n) \/ StaysSilent(n) \/ Hears(n) \/ HearsNothing(n)
      PROVE  Stands(n)' = Stands(n)
  BY <1>1, <1>3 DEF Passes, Steady, StaysSilent, Hears, HearsNothing, Stands
<1>4. CASE Enters(n)
  <2>1. /\ turn # n => Stands(n)' = Stands(n)
        /\ turn = n => Stands(n) = "ACTIVE" /\ Stands(n)' = "MEMBER"
    BY <1>1, <1>4 DEF Enters, Admits, Stands
  <2>2. ~Broadcasts(n)
    BY <1>4 DEF Enters, Broadcasts
  <2> QED
    BY <1>2, <1>4, <2>1, <2>2 DEF Sends, Belongs
<1>5. CASE Broadcasts(n)
  <2>1. turn = n /\ Stands(n)' = IF Belongs(n) THEN "MEMBER" ELSE "ACTIVE"
    BY <1>1, <1>5 DEF Broadcasts, Stands
  <2>2. ~Enters(n)
    BY <1>5 DEF Enters, Broadcasts
  <2> QED
    BY <1>2, <1>5, <2>1, <2>2 DEF Sends, Belongs
<1> QED
  BY <1>2, <1>3, <1>4, <1>5 DEF Handles, Sends, Belongs

\* Who has heard somebody after the step of n had heard it before, or is n.
LEMMA HeardHandled ==
  ASSUME TypeOK, NEW n \in Node, Runs(n), NEW m \in Node, NEW i \in Node
  PROVE  /\ Since(i)' = Since(i)
         /\ Listening(m, i)' <=> Listening(m, i) /\ m # n
         /\ HasHeard(m, i)' => HasHeard(m, i) \/ (m = n /\ Listening(n, i))
<1>1. /\ UNCHANGED <<up, age, turn, slice>> /\ ran' = ran \cup {n} /\ n \notin ran
  BY DEF Runs
<1>2. Since(i)' = Since(i)
  BY <1>1 DEF Since, Wait
<1>3. Listening(m, i)' <=> Listening(m, i) /\ m # n
  BY <1>1 DEF Listening
<1> QED
  BY <1>1, <1>2, <1>3 DEF HasHeard

LEMMA ListenerHears ==
  ASSUME NEW n \in Node, Handles(n), NEW i \in Node, Listening(n, i), n # i
  PROVE  Hears(n) \/ HearsNothing(n)
BY DEF Handles, Listening, Enters, Passes, Broadcasts, StaysSilent

\* Whoever has run before the sender has just been started.
LEMMA NobodyBeforeSender ==
  ASSUME Calm, NEW n \in Node, Broadcasts(n), NEW m \in ran
  PROVE  age[m] = 0 /\ view[m] = InitView
<1>1. age[n] > 0
  BY AgeTypes, CycleFacts, NodeFacts DEF Broadcasts, Calm
<1> QED
  BY <1>1 DEF Broadcasts, Runs, Calm, SenderFirst

LEMMA HearsSender ==
  ASSUME InSockets, NEW n \in Node, Hears(n)
  PROVE  Sends(turn)
BY DEF Hears, InSockets, InSocket

LEMMA HearsNoSender ==
  ASSUME Calm, InSockets, NEW n \in Node, HearsNothing(n), age[n] > 0
  PROVE  ~Sends(turn)
<1>1. turn \in Node
  BY DEF Calm, TypeOK
<1>2. Sends(turn) => up[turn]
  BY <1>1 DEF Calm, Grown
<1> QED
  BY <1>1, <1>2 DEF HearsNothing, Runs, InSockets, InSocket

\* A sender that has heard of a member knows that there is a membership.
LEMMA SenderKnows ==
  ASSUME Calm, Known, slice = "MEMBERSHIP", Sends(turn),
         NEW m \in Node, m # turn, Belongs(m)
  PROVE  view[turn].flag
<1>1. turn \in Node /\ ~Listening(turn, m)
  BY DEF Calm, TypeOK, Listening
<1>2. up[turn] /\ age[turn] > Since(m)
  BY <1>1, SendersHeard
<1>3. view[turn].stage[m] = "MEMBER"
  BY <1>1, <1>2 DEF Known, Stages, StageOf, Belongs, Stands
<1> QED
  BY <1>1, <1>3 DEF Known, Flags

-----------------------------------------------------------------------------
(* The handlers keep the invariant                                          *)

LEMMA NewbornHandled ==
  ASSUME Calm, NEW n \in Node, Handles(n)
  PROVE  Newborn'
BY HandledRuns DEF Calm, Newborn, Runs

LEMMA GrownHandled ==
  ASSUME Calm, NEW n \in Node, Handles(n)
  PROVE  Grown'
<1>1. Runs(n) /\ TypeOK /\ Grown
  BY HandledRuns DEF Calm
<1> SUFFICES ASSUME NEW m \in Node, Sends(m)'
             PROVE  /\ up'[m] /\ age'[m] >= CycleLength
                    /\ age'[m] = CycleLength => slice' = "SEND" /\ turn' = m /\ m \in ran'
  BY DEF Grown
<1>2. CASE Sends(m)
  BY <1>1, <1>2 DEF Grown, Runs
<1>3. CASE ~Sends(m)
  <2>1. m = n /\ (Broadcasts(n) \/ (Enters(n) /\ turn = n))
    BY <1>1, <1>3, StandsHandled DEF Sends
  <2>2. Broadcasts(n)
    BY <1>1, <1>3, <2>1, StandsHandled DEF Sends
  <2> QED
    BY <1>1, <2>1, <2>2 DEF Broadcasts, Runs
<1> QED
  BY <1>2, <1>3

LEMMA SenderFirstHandled ==
  ASSUME Calm, NEW n \in Node, Handles(n)
  PROVE  SenderFirst'
<1>1. Runs(n)
  BY HandledRuns
<1>2. slice = "SEND" => turn = n \/ turn \in ran \/ ~up[turn]
  BY DEF Handles, Enters, Passes, Broadcasts, StaysSilent, Hears, HearsNothing
<1> QED
  BY <1>1, <1>2 DEF SenderFirst, Runs

\* Two copies are added to a socket.
LEMMA TwoCopies ==
  ASSUME NEW q \in Seq(Message), NEW msg \in Message
  PROVE  LET r == q \o <<msg, msg>>
         IN  /\ \A k \in DOMAIN r : r[k] = msg \/ (k \in DOMAIN q /\ r[k] = q[k])
             /\ \E k \in DOMAIN r : r[k] = msg
<1> DEFINE r == q \o <<msg, msg>>
<1>1. \A k \in DOMAIN r : r[k] = msg \/ (k \in DOMAIN q /\ r[k] = q[k])
  BY Copies
<1>2. PICK c : c = <<msg, msg>>
  OBVIOUS
<1>3. c \in Seq(Message) /\ Len(c) = 2 /\ c[1] = msg
  BY <1>2
<1>4. /\ r \in Seq(Message) /\ Len(r) = Len(q) + 2
      /\ \A k \in 1..(Len(q) + 2) : r[k] = IF k <= Len(q) THEN q[k] ELSE c[k - Len(q)]
  BY <1>2, <1>3, ConcatProperties
<1>5. Len(q) \in Nat /\ DOMAIN r = 1..(Len(q) + 2)
  BY <1>4, LenProperties
<1>6. r[Len(q) + 1] = c[(Len(q) + 1) - Len(q)]
  BY <1>4, <1>5
<1>7. r[Len(q) + 1] = msg /\ Len(q) + 1 \in DOMAIN r
  BY <1>3, <1>5, <1>6
<1> QED
  BY <1>1, <1>7

LEMMA InSocketsHandled ==
  ASSUME Calm, InSockets, NEW n \in Node, Handles(n)
  PROVE  InSockets'
<1>0. Runs(n) /\ turn \in Node /\ sock \in [Node -> Seq(Message)] /\ TypeOK
  BY HandledRuns DEF Calm, TypeOK
<1> SUFFICES ASSUME slice = "SEND", NEW m \in Node
             PROVE  InSocket(m)'
  BY <1>0 DEF Runs, InSockets
<1>1. InSocket(m) /\ slice' = "SEND" /\ turn' = turn /\ up' = up /\ age' = age
  BY <1>0 DEF Runs, InSockets
<1>2. CASE Broadcasts(n)
  <2>1. PICK msg \in Message :
                   /\ msg.nodeID = n /\ Tells(msg)'
                   /\ \A k \in Node : sock'[k] = IF k # n /\ up[k]
                                                 THEN sock[k] \o <<msg, msg>> ELSE sock[k]
    BY <1>2 DEF Broadcasts
  <2>2. turn = n /\ turn \in ran' /\ Sends(turn)' /\ FromSender(m) = {}
    <3>1. turn = n /\ n \notin ran /\ n \in ran'
      BY <1>2 DEF Broadcasts, Runs
    <3>2. Sends(n)'
      BY <1>0, <1>2, StandsHandled DEF Sends
    <3>3. Sends(turn)'
      BY <1>1, <3>1, <3>2 DEF Sends, Stands
    <3> QED
      BY <1>1, <3>1, <3>3 DEF InSocket
  <2>3. CASE m # n /\ up[m]
    <3>1. PICK q \in Seq(Message) : q = sock[m]
      BY <1>0
    <3>2. PICK r : r = sock'[m] /\ r = q \o <<msg, msg>>
      BY <2>1, <2>3, <3>1
    <3>3. /\ \A k \in DOMAIN r : r[k] = msg \/ (k \in DOMAIN q /\ r[k] = q[k])
          /\ \E k \in DOMAIN r : r[k] = msg
      <4>1. LET c == q \o <<msg, msg>>
            IN  /\ \A k \in DOMAIN c : c[k] = msg \/ (k \in DOMAIN q /\ c[k] = q[k])
                /\ \E k \in DOMAIN c : c[k] = msg
        BY TwoCopies
      <4>2. r = q \o <<msg, msg>>
        BY <3>2
      <4> QED
        BY <4>1, <4>2
    <3>4. \A k \in FromSender(m)' : sock'[m][k] = msg
      BY <1>1, <2>2, <3>1, <3>2, <3>3 DEF FromSender
    <3>5. FromSender(m)' # {}
      BY <1>1, <2>1, <2>2, <3>2, <3>3 DEF FromSender
    <3> QED
      BY <1>1, <2>1, <2>2, <3>4, <3>5 DEF InSocket, Tells
  <2>4. CASE ~(m # n /\ up[m])
    <3>1. sock'[m] = sock[m]
      BY <2>1, <2>4
    <3>2. FromSender(m)' = {}
      BY <1>1, <2>2, <3>1 DEF FromSender
    <3> QED
      BY <1>1, <2>2, <2>4, <3>2 DEF InSocket
  <2> QED
    BY <2>3, <2>4
<1>3. CASE StaysSilent(n)
  <2>1. FromSender(m) = {} /\ sock' = sock /\ view' = view /\ turn = n
    BY <1>1, <1>3 DEF StaysSilent, Runs, InSocket
  <2>2. FromSender(m)' = {}
    BY <1>1, <2>1 DEF FromSender
  <2>3. ~Sends(turn)'
    BY <1>1, <1>3, <2>1 DEF StaysSilent, Sends, Stands
  <2> QED
    BY <2>2, <2>3 DEF InSocket
<1>4. CASE Hears(n) \/ HearsNothing(n)
  <2>1. /\ turn # n /\ view'[turn] = view[turn] /\ latest' = latest
        /\ \A k \in Node \ {n} : sock'[k] = sock[k]
        /\ turn \in ran' <=> turn \in ran
    BY <1>0, <1>4 DEF Hears, HearsNothing, Runs
  <2>2. \A msg : Tells(msg)' <=> Tells(msg)
    BY <1>1, <2>1 DEF Tells, Stands, ArrayToByte
  <2>3. Sends(turn)' <=> Sends(turn)
    BY <1>1, <2>1 DEF Sends, Stands
  <2>4. CASE m # n
    <3>1. sock'[m] = sock[m] /\ FromSender(m)' = FromSender(m)
          /\ (m \in ran' <=> m \in ran)
      BY <1>0, <1>1, <2>1, <2>4 DEF FromSender, Runs
    <3> QED
      BY <1>1, <2>1, <2>2, <2>3, <3>1 DEF InSocket
  <2>5. CASE m = n
    <3>1. n \in ran' /\ n \notin ran
      BY <1>0 DEF Runs
    <3>2. \A k \in FromSender(n)' : \E j \in FromSender(n) : sock'[n][k] = sock[n][j]
      <4>1. CASE sock'[n] = <<>>
        BY <4>1 DEF FromSender
      <4>2. CASE Hears(n)
        <5>1. PICK first \in FromSender(n) : sock'[n] = SubSeq(sock[n], first + 1, Len(sock[n]))
          BY <4>2 DEF Hears
        <5>2. sock[n] \in Seq(Message) /\ first \in 1..Len(sock[n])
          BY <1>0 DEF FromSender
        <5>3. \A k \in DOMAIN sock'[n] : k + first \in DOMAIN sock[n]
                                         /\ sock'[n][k] = sock[n][k + first]
          BY <5>1, <5>2, SubSequence
        <5> QED
          BY <1>1, <5>3 DEF FromSender
      <4> QED
        BY <1>4, <4>1, <4>2 DEF HearsNothing
    <3> QED
      BY <1>1, <2>1, <2>2, <2>3, <2>5, <3>1, <3>2 DEF InSocket
  <2> QED
    BY <2>4, <2>5
<1> QED
  BY <1>2, <1>3, <1>4 DEF Handles, Enters, Passes

\* A listener hears the sender if there is one.
LEMMA ListenerLearns ==
  ASSUME Calm, InSockets, NEW n \in Node, Handles(n), NEW i \in Node,
         Listening(n, i), n # i, age[n] > Since(i)
  PROVE  /\ turn = i /\ slice = "SEND"
         /\ (Hears(n) /\ Sends(i)) \/ (HearsNothing(n) /\ ~Sends(i))
<1>1. turn = i /\ slice = "SEND" /\ age[n] > 0
  BY SinceFacts DEF Listening, Calm
<1> QED
  BY <1>1, ListenerHears, HearsSender, HearsNoSender

LEMMA VectorsHandled ==
  ASSUME Calm, InSockets, Vectors, NEW n \in Node, Handles(n)
  PROVE  Vectors'
<1>0. TypeOK /\ Runs(n) /\ turn \in Node /\ view[n] \in View
  BY HandledRuns DEF Calm, TypeOK
<1> SUFFICES ASSUME NEW m \in Node, NEW i \in Node, HasHeard(m, i)'
             PROVE  view'[m].vv[m][i] = "RECEIVED" <=> Sends(i)'
  BY DEF Vectors
<1>1. HasHeard(m, i) \/ (m = n /\ Listening(n, i))
  BY <1>0, HeardHandled
<1>2. CASE m # n
  <2>1. view'[m].vv[m][i] = "RECEIVED" <=> Sends(i)
    BY <1>0, <1>1, <1>2 DEF Runs, Vectors
  <2>2. Sends(i)' <=> Sends(i)
    <3> SUFFICES ASSUME Broadcasts(n), i = n
                 PROVE  FALSE
      BY <1>0, StandsHandled DEF Sends
    <3>1. m \in ran /\ age[m] > Since(n) /\ Since(n) \in Nat
      BY <1>0, <1>1, <1>2, SinceFacts DEF HasHeard, Listening, Broadcasts
    <3> QED
      BY <3>1, NobodyBeforeSender
  <2> QED
    BY <2>1, <2>2
<1>3. CASE m = n
  <2>1. i # n /\ view[n].vv[n] \in [Node -> Information] /\ age[n] > Since(i)
    BY <1>0, <1>3, HeardHandled DEF View, HasHeard, Runs
  <2>2. Sends(i)' <=> Sends(i)
    BY <1>0, <2>1, StandsHandled DEF Sends
  <2>3. CASE Listening(n, i)
    <3>1. /\ turn = i
          /\ (Hears(n) /\ Sends(i)) \/ (HearsNothing(n) /\ ~Sends(i))
      BY <2>1, <2>3, ListenerLearns
    <3>2. Hears(n) => view'[n].vv[n][i] = "RECEIVED"
      BY <2>1, <3>1 DEF Hears
    <3>3. HearsNothing(n) => view'[n].vv[n][i] = "NOT_RECEIVED"
      BY <2>1, <3>1 DEF HearsNothing
    <3> QED
      BY <1>3, <2>2, <3>1, <3>2, <3>3
  <2>4. CASE ~Listening(n, i)
    <3>1. slice = "SEND" => turn # i
      BY <1>0, <2>4 DEF Listening, Runs
    <3>2. view'[n].vv[n][i] = view[n].vv[n][i]
      BY <2>1, <3>1 DEF Handles, Enters, Passes, Steady, Broadcasts, StaysSilent,
         Hears, HearsNothing
    <3> QED
      BY <1>1, <1>3, <2>2, <2>4, <3>2 DEF Vectors
  <2> QED
    BY <2>3, <2>4
<1> QED
  BY <1>2, <1>3

\* No step makes a sender or a member look as if it had been confirmed earlier.
LEMMA ConfirmedHandled ==
  ASSUME TypeOK, NEW n \in Node, Handles(n), NEW i \in Node, NEW j \in Node, i # j,
         Confirmed(i, j)'
  PROVE  Confirmed(i, j)
<1>1. Runs(n)
  BY HandledRuns
<1>2. Since(i)' = Since(i) /\ Since(j)' = Since(j)
  BY <1>1, HeardHandled
<1>3. CASE Stands(j)' = Stands(j)
  BY <1>2, <1>3 DEF Confirmed, Belongs, Sends
<1>4. CASE j = n /\ turn = n /\ Enters(n)
  <2>1. Sends(j) /\ slice = "MEMBERSHIP"
    BY <1>4, StandsHandled DEF Sends, Enters
  <2>2. Since(i) < Since(j)
    BY <1>4, <2>1, SinceFacts, CycleFacts
  <2> QED
    BY <2>1, <2>2 DEF Confirmed
<1>5. CASE j = n /\ turn = n /\ Broadcasts(n)
  <2>1. ~(Since(i) < Since(j))
    BY <1>5, SinceFacts DEF Broadcasts
  <2>2. Belongs(j)' => Belongs(j)
    BY <1>5, StandsHandled DEF Belongs
  <2> QED
    BY <1>2, <2>1, <2>2 DEF Confirmed
<1> QED
  BY <1>3, <1>4, <1>5, StandsHandled

LEMMA RowsHandled ==
  ASSUME Calm, InSockets, Vectors, Rows, NEW n \in Node, Handles(n)
  PROVE  Rows'
<1>0. TypeOK /\ Runs(n) /\ turn \in Node /\ view[n] \in View
  BY HandledRuns DEF Calm, TypeOK
<1> SUFFICES ASSUME NEW m \in Node, NEW i \in Node, NEW j \in Node,
                    HasHeard(m, i)', i # j, Sends(i)', Confirmed(i, j)'
             PROVE  view'[m].vv[i][j] = "RECEIVED"
  BY DEF Rows
<1>1. /\ HasHeard(m, i) \/ (m = n /\ Listening(n, i))
      /\ Confirmed(i, j) /\ m # i
  BY <1>0, HeardHandled, ConfirmedHandled DEF HasHeard
<1>2. CASE m # n
  <2>1. Sends(i)
    <3> SUFFICES ASSUME Broadcasts(n), i = n
                 PROVE  FALSE
      BY <1>0, StandsHandled DEF Sends
    <3>1. m \in ran /\ age[m] > Since(n) /\ Since(n) \in Nat
      BY <1>0, <1>1, <1>2, SinceFacts DEF HasHeard, Listening, Broadcasts
    <3> QED
      BY <3>1, NobodyBeforeSender
  <2> QED
    BY <1>0, <1>1, <1>2, <2>1 DEF Runs, Rows
<1>3. CASE m = n
  <2>1. Sends(i) /\ age[n] > Since(i)
    BY <1>0, <1>1, <1>3, HeardHandled, StandsHandled DEF Sends, HasHeard, Runs
  <2>2. CASE Listening(n, i)
    <3>1. turn = i /\ Hears(n)
      BY <1>1, <1>3, <2>1, <2>2, ListenerLearns
    <3>2. HasHeard(i, j) /\ Sends(j)
      <4>1. Sends(j) /\ ~Listening(i, j)
        BY <1>1, <3>1 DEF Confirmed, Belongs, Sends, Listening
      <4> QED
        BY <2>1, <4>1, SendersHeard
    <3>3. j \in ArrayToByte(view[i], i)
      BY <3>2 DEF Vectors, ArrayToByte
    <3> QED
      BY <1>3, <3>1, <3>3 DEF Hears
  <2>3. CASE ~Listening(n, i)
    <3>1. slice = "SEND" => turn # i
      BY <1>0, <2>3 DEF Listening, Runs
    <3>2. view'[n].vv[i] = view[n].vv[i]
      BY <1>1, <1>3, <3>1 DEF Handles, Enters, Passes, Steady, Broadcasts, StaysSilent,
         Hears, HearsNothing
    <3> QED
      BY <1>1, <1>3, <2>1, <2>3, <3>2 DEF Rows
  <2> QED
    BY <2>2, <2>3
<1> QED
  BY <1>2, <1>3

\* The sender that is admitted late has not decided yet.
LEMMA NotYetEntered ==
  ASSUME Calm, Known, slice = "MEMBERSHIP", Stands(turn) = "ACTIVE",
         NEW m \in Node, m # turn, Belongs(m)
  PROVE  turn \notin ran
<1>1. view[turn].flag
  BY SenderKnows DEF Sends
<1> QED
  BY <1>1 DEF Known, Flags

LEMMA StagesElsewhere ==
  ASSUME Calm, Known, NEW n \in Node, Handles(n),
         NEW m \in Node \ {n}, NEW i \in Node, m # i, up[m], age[m] > Since(i)
  PROVE  StageOf(m, i)'
<1>0. TypeOK /\ Runs(n) /\ turn \in Node
  BY HandledRuns DEF Calm, TypeOK
<1>1. /\ StageOf(m, i) /\ view'[m] = view[m] /\ turn' = turn /\ slice' = slice
      /\ (m \in ran' <=> m \in ran) /\ (Listening(m, i)' <=> Listening(m, i))
  BY <1>0, HeardHandled DEF Known, Stages, Runs
<1>2. CASE i # n
  <2>1. Stands(i)' = Stands(i) /\ (i \in ran' <=> i \in ran)
    BY <1>0, <1>2 DEF Runs, Stands
  <2>2. Belongs(m)' <=> Belongs(m)
    BY <1>1 DEF Belongs, Stands
  <2>3. Admitting(m, i)' <=> Admitting(m, i)
    BY <1>1, <2>1, <2>2 DEF Admitting, Belongs
  <2> QED
    BY <1>1, <2>1, <2>2, <2>3 DEF StageOf, Belongs
<1>3. CASE i = n /\ slice = "MEMBERSHIP" /\ turn = n
  <2>1. n \notin ran /\ n \in ran' /\ Admitting(m, n)
    BY <1>0, <1>1, <1>3 DEF Runs, StageOf
  <2>2. Belongs(m)' <=> Belongs(m)
    BY <1>1 DEF Belongs, Stands
  <2>3. CASE Enters(n)
    <3>1. Stands(n) = "ACTIVE" /\ Stands(n)' = "MEMBER"
      BY <1>0, <1>3, <2>3, StandsHandled
    <3>2. Admitting(m, n)'
      BY <1>1, <2>1, <2>2, <3>1 DEF Admitting, Belongs
    <3> QED
      BY <1>1, <1>3, <3>2 DEF StageOf
  <2>4. CASE Passes(n)
    <3>1. Stands(n)' = Stands(n)
      BY <2>4 DEF Passes, Steady, Stands
    <3>2. Stands(n) = "ACTIVE" => ~Belongs(m)
      <4> SUFFICES ASSUME Stands(n) = "ACTIVE", Belongs(m)
                   PROVE  FALSE
        OBVIOUS
      <4>1. view[n].flag
        BY <1>3, SenderKnows DEF Sends
      <4> QED
        BY <1>3, <2>4, <4>1 DEF Passes, Admits, Stands
    <3>3. Admitting(m, n)'
      BY <1>1, <2>1, <2>2, <3>1, <3>2 DEF Admitting, Belongs
    <3> QED
      BY <1>1, <1>3, <3>3 DEF StageOf
  <2> QED
    BY <1>3, <2>3, <2>4 DEF Handles, Broadcasts, StaysSilent, Hears, HearsNothing
<1>4. CASE i = n /\ ~(slice = "MEMBERSHIP" /\ turn = n)
  <2>1. Belongs(m)' <=> Belongs(m)
    BY <1>1 DEF Belongs, Stands
  <2>2. CASE Broadcasts(n)
    <3>1. Listening(m, n)
      <4>1. m \notin ran
        <5>1. Since(n) \in Nat
          BY <1>0, SinceFacts
        <5> QED
          BY <1>4, <2>2, <5>1, NobodyBeforeSender
      <4> QED
        BY <2>2, <4>1 DEF Listening, Broadcasts
    <3>2. Belongs(n)' <=> Belongs(n)
      BY <1>0, <2>2, StandsHandled DEF Belongs
    <3> QED
      BY <1>1, <1>4, <2>1, <3>1, <3>2 DEF StageOf
  <2>3. CASE ~Broadcasts(n)
    <3>1. Stands(n)' = Stands(n)
      BY <1>0, <1>4, <2>3, StandsHandled DEF Enters
    <3> QED
      BY <1>1, <1>4, <2>1, <3>1 DEF StageOf, Belongs
  <2> QED
    BY <2>2, <2>3
<1> QED
  BY <1>2, <1>3, <1>4

LEMMA StagesHere ==
  ASSUME Calm, Known, NEW n \in Node, Handles(n), NEW i \in Node, n # i, age[n] > Since(i)
  PROVE  StageOf(n, i)'
<1>0. TypeOK /\ Runs(n) /\ turn \in Node /\ view[n].stage \in [Node -> Stage]
  BY HandledRuns DEF Calm, TypeOK, View
<1>1. /\ StageOf(n, i) /\ turn' = turn /\ slice' = slice /\ Stands(i)' = Stands(i)
      /\ n \notin ran /\ n \in ran' /\ ~Listening(n, i)' /\ (i \in ran' <=> i \in ran)
  BY <1>0, HeardHandled DEF Known, Stages, Runs, Stands
<1>2. CASE slice = "MEMBERSHIP" /\ turn = i
  <2>1. Belongs(n)' <=> Belongs(n)
    BY <1>0, <1>2, StandsHandled DEF Belongs
  <2>2. Admitting(n, i)
    BY <1>1, <1>2 DEF StageOf
  <2>3. CASE Enters(n)
    <3>1. view'[n].stage[i] = "MEMBER" /\ view[n].stage[i] = "ACTIVE" /\ Belongs(n)
      BY <1>0, <1>2, <2>3 DEF Enters, Admits, Belongs, Stands
    <3>2. Stands(i) = "ACTIVE" => i \notin ran
      BY <1>2, <3>1, NotYetEntered
    <3>3. Admitting(n, i)'
      BY <1>1, <2>1, <2>2, <3>1, <3>2 DEF Admitting, Belongs
    <3> QED
      BY <1>1, <1>2, <3>3 DEF StageOf
  <2>4. CASE Passes(n)
    <3>1. view'[n].stage[i] = view[n].stage[i]
          /\ ~(view[n].stage[i] = "ACTIVE" /\ Belongs(n))
      BY <1>2, <2>4 DEF Passes, Steady, Admits, Belongs, Stands
    <3>2. Admitting(n, i)'
      BY <1>1, <2>1, <2>2, <3>1 DEF Admitting, Belongs
    <3> QED
      BY <1>1, <1>2, <3>2 DEF StageOf
  <2> QED
    BY <1>2, <2>3, <2>4 DEF Handles, Broadcasts, StaysSilent, Hears, HearsNothing
<1>3. CASE Listening(n, i)
  <2>1. /\ turn = i /\ slice = "SEND"
        /\ (Hears(n) /\ Sends(i)) \/ (HearsNothing(n) /\ ~Sends(i))
    BY <1>3, ListenerLearns DEF Known
  <2>2. /\ Stands(i) \in Stage
        /\ Belongs(n) => (view[n].stage[i] = "MEMBER" <=> Belongs(i))
    BY <1>0, <1>1, <1>3, <2>1 DEF StageOf, Stands, Calm, TypeOK, View
  <2>3. CASE Hears(n) /\ Sends(i)
    <3>1. view'[n].stage[i] = IF ~Belongs(n) THEN Stands(i)
                              ELSE IF view[n].stage[i] = "INACTIVE" THEN "ACTIVE"
                              ELSE view[n].stage[i]
      BY <1>0, <2>1, <2>3 DEF Hears
    <3>2. view[n].stage[i] \in Stage
      BY <1>0
    <3>3. view'[n].stage[i] = Stands(i)
      BY <2>2, <2>3, <3>1, <3>2 DEF Stage, Sends, Belongs
    <3> QED
      BY <1>1, <2>1, <3>3 DEF StageOf
  <2>4. CASE HearsNothing(n) /\ ~Sends(i)
    <3>1. view'[n].stage[i] = view[n].stage[i]
      BY <2>4 DEF HearsNothing
    <3>2. view[n].stage[i] = Stands(i)
      BY <2>4 DEF Known, NoGhosts, Sends
    <3> QED
      BY <1>1, <2>1, <3>1, <3>2 DEF StageOf
  <2> QED
    BY <2>1, <2>3, <2>4
<1>4. CASE ~(slice = "MEMBERSHIP" /\ turn = i) /\ ~Listening(n, i)
  <2>1. turn # i
    <3>1. turn = i => slice = "PAUSE"
      BY <1>0, <1>1, <1>4 DEF Listening, TypeOK, Slices
    <3> QED
      BY <3>1 DEF Handles, Enters, Passes, Broadcasts, StaysSilent, Hears, HearsNothing
  <2>2. view'[n].stage[i] = view[n].stage[i]
    BY <1>0, <2>1 DEF Handles, Enters, Passes, Steady, Broadcasts, StaysSilent,
       Hears, HearsNothing
  <2> QED
    BY <1>1, <1>4, <2>2 DEF StageOf
<1> QED
  BY <1>2, <1>3, <1>4

LEMMA StagesHandled ==
  ASSUME Calm, Known, NEW n \in Node, Handles(n)
  PROVE  Stages'
<1>0. TypeOK /\ Runs(n)
  BY HandledRuns DEF Calm
<1> SUFFICES ASSUME NEW m \in Node, NEW i \in Node, up'[m], m # i, age'[m] > Since(i)'
             PROVE  StageOf(m, i)'
  BY DEF Stages
<1>1. up[m] /\ age[m] > Since(i)
  BY <1>0, HeardHandled DEF Runs
<1> QED
  BY <1>1, StagesElsewhere, StagesHere

LEMMA NoGhostsHandled ==
  ASSUME Calm, Known, NEW n \in Node, Handles(n)
  PROVE  NoGhosts'
<1>0. TypeOK /\ Runs(n) /\ turn \in Node /\ view[n].stage \in [Node -> Stage]
  BY HandledRuns DEF Calm, TypeOK, View
<1> SUFFICES ASSUME NEW m \in Node, NEW i \in Node, view'[m].stage[i] # "INACTIVE"
             PROVE  /\ Sends(i)'
                    /\ view'[m].stage[i] = "MEMBER" => Belongs(i)' \/ Joins(m, i)'
  BY DEF NoGhosts
<1>1. (Sends(i) => Sends(i)') /\ (Belongs(i) => Belongs(i)') /\ (Belongs(m) => Belongs(m)')
  BY <1>0, StandsHandled
<1>2. slice' = slice /\ turn' = turn
  BY <1>0 DEF Runs
<1>3. CASE m = i
  BY <1>3 DEF Sends, Belongs, Stands
<1>4. CASE m # n
  <2>1. view'[m] = view[m] /\ Sends(i)
    BY <1>0, <1>4 DEF Runs, Known, NoGhosts
  <2>2. CASE view[m].stage[i] = "MEMBER" /\ ~Belongs(i)
    <3>1. Joins(m, i)
      BY <2>2 DEF Known, NoGhosts
    <3>2. CASE i = n
      <4>1. view[n].flag
        BY <1>4, <3>1, <3>2, SenderKnows DEF Joins, Sends
      <4>2. Enters(n)
        BY <3>1, <3>2, <4>1 DEF Joins, Stands, Handles, Passes, Admits,
           Broadcasts, StaysSilent, Hears, HearsNothing
      <4>3. Belongs(n)'
        BY <1>0, <3>1, <3>2, <4>2, StandsHandled DEF Joins, Belongs
      <4> QED
        BY <1>1, <2>1, <3>2, <4>3
    <3>3. CASE i # n
      <4>1. Stands(i)' = Stands(i) /\ (i \in ran' <=> i \in ran)
        BY <1>0, <3>3 DEF Runs, Stands
      <4> QED
        BY <1>1, <1>2, <2>1, <3>1, <4>1 DEF Joins
    <3> QED
      BY <3>2, <3>3
  <2>3. CASE ~(view[m].stage[i] = "MEMBER" /\ ~Belongs(i))
    <3>1. view'[m].stage[i] = "MEMBER" => Belongs(i)'
      BY <1>1, <2>1, <2>3
    <3>2. Sends(i)'
      BY <1>1, <2>1, Zenon
    <3> QED
      BY <3>1, <3>2, Zenon
  <2> QED
    BY <2>2, <2>3, Zenon
<1>5. CASE m = n /\ i # n
  <2>1. Stands(i)' = Stands(i) /\ (i \in ran' <=> i \in ran)
    BY <1>0, <1>5 DEF Runs, Stands
  <2>2. Joins(n, i) => Joins(n, i)'
    BY <1>1, <1>2, <1>5, <2>1 DEF Joins
  <2>3. CASE view'[n].stage[i] = view[n].stage[i]
    BY <1>1, <1>5, <2>2, <2>3 DEF Known, NoGhosts
  <2>4. CASE Enters(n) /\ turn = i
    <3>1. view[n].stage[i] = "ACTIVE" /\ Belongs(n) /\ slice = "MEMBERSHIP"
      BY <1>5, <2>4 DEF Enters, Admits, Belongs, Stands
    <3>2. Sends(i)
      BY <3>1 DEF Known, NoGhosts
    <3>3. Stands(i) \in Stage
      BY DEF Calm, TypeOK, View, Stands
    <3>4. ~Belongs(i) => Joins(n, i)
      BY <1>5, <2>4, <3>1, <3>2, <3>3, NotYetEntered DEF Joins, Stage, Sends, Belongs
    <3> QED
      BY <1>1, <1>5, <2>2, <3>2, <3>4
  <2>5. CASE Hears(n) /\ turn = i
    <3>1. Sends(i)
      BY <2>5, HearsSender DEF Known
    <3>2. view'[n].stage[i] = IF ~Belongs(n) THEN Stands(i)
                              ELSE IF view[n].stage[i] = "INACTIVE" THEN "ACTIVE"
                              ELSE view[n].stage[i]
      BY <1>0, <2>5 DEF Hears
    <3>3. view[n].stage[i] = "MEMBER" => Belongs(i)
      BY <2>5 DEF Known, NoGhosts, Joins, Hears
    <3> QED
      BY <1>1, <1>5, <3>1, <3>2, <3>3 DEF Belongs
  <2> QED
    BY <1>0, <1>5, <2>3, <2>4, <2>5 DEF Handles, Enters, Passes, Steady, Broadcasts,
       StaysSilent, Hears, HearsNothing
<1> QED
  BY <1>3, <1>4, <1>5

LEMMA FlagsHandled ==
  ASSUME Calm, Known, NEW n \in Node, Handles(n)
  PROVE  Flags'
<1>0. TypeOK /\ Runs(n) /\ turn \in Node /\ view[n].stage \in [Node -> Stage]
  BY HandledRuns DEF Calm, TypeOK, View
<1>1. ASSUME NEW m \in Node, NEW i \in Node, view'[m].stage[i] = "MEMBER"
      PROVE  view'[m].flag
  <2>1. CASE m # n
    BY <1>0, <1>1, <2>1 DEF Runs, Known, Flags
  <2>2. CASE m = n
    <3>1. CASE Enters(n)
      BY <2>2, <3>1 DEF Enters
    <3>2. CASE Passes(n) \/ StaysSilent(n) \/ HearsNothing(n)
      BY <1>1, <2>2, <3>2 DEF Passes, Steady, StaysSilent, HearsNothing, Known, Flags
    <3>3. CASE Broadcasts(n)
      <4>1. view[n].stage[i] = "MEMBER"
        BY <1>0, <1>1, <2>2, <3>3 DEF Broadcasts, Belongs, Stands
      <4> QED
        BY <2>2, <3>3, <4>1 DEF Broadcasts, Known, Flags
    <3>4. CASE Hears(n)
      <4>1. view[n].stage[i] = "MEMBER" \/ (~Belongs(n) /\ Belongs(turn))
        BY <1>0, <1>1, <2>2, <3>4 DEF Hears, Belongs
      <4>2. view[n].flag \/ (~Belongs(n) /\ Belongs(turn))
        BY <4>1 DEF Known, Flags
      <4> QED
        BY <2>2, <3>4, <4>2 DEF Hears
    <3> QED
      BY <3>1, <3>2, <3>3, <3>4 DEF Handles
  <2> QED
    BY <2>1, <2>2
<1>2. ASSUME NEW m \in Node, view'[m].flag
      PROVE  \E i \in Node : Belongs(i)'
  <2>1. CASE \E i \in Node : Belongs(i)
    BY <1>0, <2>1, StandsHandled
  <2>2. CASE ~(\E i \in Node : Belongs(i))
    <3>1. m = n /\ ~view[n].flag
      BY <1>0, <1>2, <2>2 DEF Runs, Known, Flags
    <3>2. ~Belongs(turn) /\ ~Belongs(n)
      BY <1>0, <2>2
    <3>3. Enters(n)
      BY <1>2, <3>1, <3>2 DEF Handles, Passes, Steady, Broadcasts, StaysSilent,
         Hears, HearsNothing
    <3>4. turn = n
      BY <3>2, <3>3 DEF Enters, Admits, Belongs, Stands
    <3> QED
      BY <1>0, <3>3, <3>4, StandsHandled DEF Belongs
  <2> QED
    BY <2>1, <2>2
<1>3. ASSUME \/ slice' = "MEMBERSHIP" /\ turn' \in ran'
             \/ slice' = "SEND" /\ turn' \notin ran',
             Stands(turn)' = "ACTIVE"
      PROVE  ~view'[turn'].flag
  <2>1. turn' = turn /\ slice' = slice /\ ran' = ran \cup {n} /\ n \notin ran
    BY <1>0 DEF Runs
  <2>2. CASE turn # n
    <3>1. view'[turn] = view[turn]
      BY <1>0, <2>2 DEF Runs
    <3> QED
      BY <1>3, <2>1, <2>2, <3>1 DEF Known, Flags, Stands
  <2>3. CASE turn = n
    <3>1. slice = "MEMBERSHIP"
      BY <1>3, <2>1, <2>3
    <3>2. ~Enters(n)
      BY <1>0, <1>3, <2>1, <2>3, StandsHandled DEF Stands
    <3>3. Passes(n)
      BY <3>1, <3>2 DEF Handles, Broadcasts, StaysSilent, Hears, HearsNothing
    <3>4. view[n].stage[n] = "ACTIVE"
      BY <1>3, <2>1, <2>3, <3>3 DEF Passes, Steady, Stands
    <3> QED
      BY <2>1, <2>3, <3>3, <3>4 DEF Passes, Steady, Admits
  <2> QED
    BY <2>2, <2>3
<1> QED
  BY <1>1, <1>2, <1>3 DEF Flags

LEMMA NoSuspicionHandled ==
  ASSUME Calm, NoSuspicion, NEW n \in Node, Handles(n)
  PROVE  NoSuspicion'
<1>1. Runs(n)
  BY HandledRuns
<1> SUFFICES ASSUME NEW m \in Node, NEW i \in Node
             PROVE  view'[m].sus[i].flag = FALSE
  BY DEF NoSuspicion
<1>2. CASE m # n
  BY <1>1, <1>2 DEF Runs, NoSuspicion
<1>3. CASE m = n
  <2>1. view'[n].sus[i] = view[n].sus[i] \/ view'[n].sus[i].flag = FALSE
    BY DEF Handles, Enters, Passes, Steady, Broadcasts, StaysSilent, Hears, HearsNothing
  <2> QED
    BY <1>3, <2>1 DEF NoSuspicion
<1> QED
  BY <1>2, <1>3

LEMMA CountsHandled ==
  ASSUME Calm, Known, Counts, NEW n \in Node, Handles(n)
  PROVE  Counts'
<1>0. TypeOK /\ Runs(n) /\ turn \in Node /\ view[n].stage \in [Node -> Stage]
  BY HandledRuns DEF Calm, TypeOK, View
<1> SUFFICES ASSUME NEW m \in Node
             PROVE  view'[m].count = Cardinality(Members(view'[m]))
  BY DEF Counts
<1>1. CASE m # n
  BY <1>0, <1>1 DEF Runs, Counts
<1>2. CASE m = n
  <2>0. view[n].count = Cardinality(Members(view[n]))
    BY DEF Counts
  <2> DEFINE Same  == Members(view'[n]) = Members(view[n])
                      /\ view'[n].count = view[n].count
             Added == /\ view'[n].stage = [view[n].stage EXCEPT ![turn] = "MEMBER"]
                      /\ view[n].stage[turn] # "MEMBER"
                      /\ view'[n].count = view[n].count + 1
  <2>1. Same => view'[n].count = Cardinality(Members(view'[n]))
    BY <2>0
  <2>2. Added => view'[n].count = Cardinality(Members(view'[n]))
    <3> SUFFICES ASSUME Added
                 PROVE  view'[n].count = Cardinality(Members(view'[n]))
      OBVIOUS
    <3>1. Members(view'[n]) = Members(view[n]) \cup {turn} /\ turn \notin Members(view[n])
      BY <1>0 DEF Members
    <3>2. Cardinality(Members(view'[n])) = Cardinality(Members(view[n])) + 1
      <4>1. IsFiniteSet(Members(view[n]))
        BY MembersFinite
      <4>2. Cardinality(Members(view[n]) \cup {turn}) = Cardinality(Members(view[n])) + 1
        BY <3>1, <4>1, FS_AddElement
      <4> QED
        BY <3>1, <4>2
    <3> QED
      BY <2>0, <3>2
  <2> SUFFICES Same \/ Added
    BY <1>2, <2>1, <2>2
  <2>3. CASE Enters(n)
    BY <2>3 DEF Enters, Admits
  <2>4. CASE Passes(n) \/ StaysSilent(n) \/ HearsNothing(n)
    BY <2>4 DEF Passes, Steady, StaysSilent, HearsNothing, Members
  <2>5. CASE Broadcasts(n)
    <3>1. Members(view'[n]) = Members(view[n])
      BY <1>0, <2>5 DEF Broadcasts, Belongs, Stands, Members
    <3> QED
      BY <2>5, <3>1 DEF Broadcasts
  <2>6. CASE Hears(n)
    <3>1. view'[n].stage = [view[n].stage EXCEPT ![turn] =
                              IF ~Belongs(n) THEN Stands(turn)
                              ELSE IF @ = "INACTIVE" THEN "ACTIVE" ELSE @]
      BY <2>6 DEF Hears
    <3>2. CASE ~Belongs(n) /\ Belongs(turn) /\ view[n].stage[turn] # "MEMBER"
      BY <2>6, <3>1, <3>2 DEF Hears, Belongs
    <3>3. CASE ~(~Belongs(n) /\ Belongs(turn) /\ view[n].stage[turn] # "MEMBER")
      <4>1. view[n].stage[turn] = "MEMBER" => Belongs(turn)
        BY <1>0, <2>6 DEF Known, NoGhosts, Joins, Hears
      <4>2. Members(view'[n]) = Members(view[n])
        BY <1>0, <3>1, <3>3, <4>1 DEF Members, Belongs
      <4> QED
        BY <2>6, <3>3, <4>2 DEF Hears
    <3> QED
      BY <3>2, <3>3
  <2> QED
    BY <2>3, <2>4, <2>5, <2>6 DEF Handles
<1> QED
  BY <1>1, <1>2

LEMMA MembersLinesHandled ==
  ASSUME Calm, MembersLines, NEW n \in Node, Handles(n)
  PROVE  MembersLines'
<1> SUFFICES ASSUME NEW i \in Node, latest'[i] # Empty
             PROVE  Belongs(i)'
  BY DEF MembersLines
<1>1. Belongs(i)
  <2>1. latest'[i] = latest[i] \/ Belongs(i)
    BY DEF Handles, Enters, Passes, Broadcasts, StaysSilent, Hears, HearsNothing
  <2> QED
    BY <2>1 DEF MembersLines
<1> QED
  BY <1>1, StandsHandled DEF Calm

\* Whoever listens to a sender with a line hears it.
LEMMA LinesHeard ==
  ASSUME Calm, Known, MembersLines, NEW n \in Node, Handles(n), NEW i \in Node,
         latest[i] # Empty, turn = i, slice = "SEND", n # i
  PROVE  /\ age[n] > 0 => Hears(n)
         /\ Hears(n) => view'[n].stage[i] = "MEMBER" /\ view'[n].last[i] = latest[i]
         /\ HearsNothing(n) => view'[n].stage[i] = "INACTIVE"
<1>0. /\ TypeOK /\ Runs(n) /\ view[n].stage \in [Node -> Stage]
      /\ view[n].last \in [Node -> Body \cup {Null}]
  BY HandledRuns DEF Calm, TypeOK, View
<1>1. Belongs(i) /\ Sends(i)
  BY DEF MembersLines, Belongs, Sends
<1>2. Listening(n, i) /\ (Hears(n) \/ HearsNothing(n))
  BY <1>0, ListenerHears DEF Listening, Runs
<1>3. age[n] > 0 => Hears(n)
  BY <1>1, <1>2, HearsNoSender DEF Known
<1>4. ASSUME Hears(n)
      PROVE  view'[n].stage[i] = "MEMBER" /\ view'[n].last[i] = latest[i]
  <2>1. Belongs(n) => view[n].stage[i] = "MEMBER"
    <3> SUFFICES ASSUME Belongs(n)
                 PROVE  view[n].stage[i] = "MEMBER"
      OBVIOUS
    <3>1. up[n] /\ age[n] > Since(i)
      BY SendersHeard DEF Belongs, Sends
    <3> QED
      BY <1>0, <1>1, <3>1 DEF Known, Stages, StageOf, Listening, Runs
  <2>2. view'[n].stage[i] = IF ~Belongs(n) THEN Stands(i)
                            ELSE IF view[n].stage[i] = "INACTIVE" THEN "ACTIVE"
                            ELSE view[n].stage[i]
    BY <1>0, <1>4 DEF Hears
  <2>3. view'[n].last[i] = latest[i]
    BY <1>0, <1>4 DEF Hears
  <2> QED
    BY <1>1, <2>1, <2>2, <2>3 DEF Belongs
<1>5. ASSUME HearsNothing(n)
      PROVE  view'[n].stage[i] = "INACTIVE"
  <2>1. age[n] = 0
    BY <1>1, <1>5, HearsNoSender, AgeTypes DEF Known, Calm
  <2>2. view[n] = InitView
    BY <1>0, <2>1 DEF Calm, Newborn, Runs
  <2> QED
    BY <1>5, <2>2 DEF HearsNothing, InitView
<1> QED
  BY <1>3, <1>4, <1>5

LEMMA LinedElsewhere ==
  ASSUME Calm, Known, MembersLines, Lined, NEW n \in Node, Handles(n),
         NEW m \in Node \ {n}, NEW i \in Node, latest'[i] # Empty
  PROVE  /\ LineStage(m, i)'
         /\ up[m] /\ m # i /\ age[m] > Since(i) => LineKept(m, i)'
<1>0. /\ TypeOK /\ Runs(n) /\ turn' = turn /\ slice' = slice /\ view'[m] = view[m]
      /\ (m \in ran' <=> m \in ran) /\ (Listening(m, i)' <=> Listening(m, i))
      /\ out \in [Node -> Seq(Nat)]
  <2>1. TypeOK /\ Runs(n) /\ out \in [Node -> Seq(Nat)]
    BY HandledRuns DEF Calm, TypeOK
  <2>2. Listening(m, i)' <=> Listening(m, i)
    BY <2>1, HeardHandled
  <2> QED
    BY <2>1, <2>2 DEF Runs
<1>1. CASE latest'[i] = latest[i]
  <2>1. out'[m] = out[m]
    BY <1>0 DEF Handles, Enters, Passes, Broadcasts, StaysSilent, Hears, HearsNothing
  <2>2. Belongs(m)' <=> Belongs(m)
    BY <1>0 DEF Belongs, Stands
  <2>3. Delivered(m)' = Delivered(m)
    BY <2>1 DEF Delivered
  <2> QED
    BY <1>0, <1>1, <2>2, <2>3 DEF Lined, LineStage, LineKept
<1>2. CASE latest'[i] # latest[i]
  <2>1. Broadcasts(n) /\ i = n
    BY <1>2 DEF Handles, Enters, Passes, Broadcasts, StaysSilent, Hears, HearsNothing
  <2>2. CASE m \in ran
    <3>1. age[m] = 0 /\ view[m] = InitView
      BY <2>1, <2>2, NobodyBeforeSender
    <3>2. Since(i) \in Nat
      BY <1>0, SinceFacts
    <3> QED
      BY <1>0, <3>1, <3>2 DEF LineStage, InitView
  <2>3. CASE m \notin ran
    <3>1. Listening(m, i)'
      BY <1>0, <2>1, <2>3 DEF Broadcasts, Listening
    <3> QED
      BY <1>0, <2>1, <3>1 DEF LineStage, LineKept, Broadcasts
  <2> QED
    BY <2>2, <2>3
<1> QED
  BY <1>1, <1>2

LEMMA LineStageHere ==
  ASSUME Calm, Known, MembersLines, Lined, NEW n \in Node, Handles(n),
         NEW i \in Node, latest'[i] # Empty
  PROVE  view'[n].stage[i] # "ACTIVE"
<1>0. TypeOK /\ Runs(n) /\ view[n].stage \in [Node -> Stage]
  BY HandledRuns DEF Calm, TypeOK, View
<1>1. CASE i = n
  <2>1. Belongs(n)'
    BY <1>1, MembersLinesHandled DEF MembersLines
  <2> QED
    BY <1>1, <2>1 DEF Belongs, Stands
<1>2. CASE i # n
  <2>1. latest[i] # Empty
    BY <1>2 DEF Handles, Enters, Passes, Broadcasts, StaysSilent, Hears, HearsNothing
  <2>2. CASE turn = i /\ slice = "SEND"
    <3>1. Hears(n) \/ HearsNothing(n)
      BY <1>0, <1>2, <2>2, ListenerHears DEF Listening, Runs
    <3> QED
      BY <1>2, <2>1, <2>2, <3>1, LinesHeard
  <2>3. CASE ~(turn = i /\ slice = "SEND")
    <3>1. view[n].stage[i] # "ACTIVE"
      BY <2>1, <2>3 DEF Lined, LineStage, Listening
    <3>2. view'[n].stage[i] = view[n].stage[i] \/ view'[n].stage[i] = "MEMBER"
      BY <1>0, <1>2, <2>3 DEF Handles, Enters, Passes, Steady, Broadcasts,
         StaysSilent, Hears, HearsNothing
    <3> QED
      BY <3>1, <3>2
  <2> QED
    BY <2>2, <2>3
<1> QED
  BY <1>1, <1>2

LEMMA LineKeptHere ==
  ASSUME Calm, Known, MembersLines, Lined, NEW n \in Node, Handles(n),
         NEW i \in Node \ {n}, latest[i] # Empty, up[n], age[n] > Since(i)
  PROVE  LineKept(n, i)'
<1>0. /\ TypeOK /\ Runs(n) /\ view[n].stage \in [Node -> Stage] /\ view[n].count \in Int
      /\ view[n].last \in [Node -> Body \cup {Null}] /\ out \in [Node -> Seq(Nat)]
      /\ turn' = turn /\ slice' = slice /\ n \notin ran /\ n \in ran'
  BY HandledRuns DEF Calm, TypeOK, View, Runs
<1>1. latest'[i] = latest[i]
  BY DEF Handles, Enters, Passes, Broadcasts, StaysSilent, Hears, HearsNothing
<1>2. CASE slice = "MEMBERSHIP" /\ turn = i
  <2>1. view[n].last[i] = latest[i] /\ view[n].stage[i] # "ACTIVE"
    BY <1>0, <1>2 DEF Lined, LineKept, LineStage, Listening
  <2>2. Passes(n)
    BY <1>2, <2>1 DEF Handles, Enters, Admits, Broadcasts, StaysSilent, Hears, HearsNothing
  <2>3. CASE Decides(n)
    <3>1. out'[n] = Append(out[n], latest[i])
      BY <1>0, <1>2, <2>1, <2>2, <2>3 DEF Passes
    <3>2. /\ Len(out[n]) + 1 \in DOMAIN out'[n]
          /\ out'[n][Len(out[n]) + 1] = latest[i]
      <4>1. out[n] \in Seq(Nat) /\ latest[i] \in Nat
        BY <1>0 DEF TypeOK, Body
      <4> QED
        BY <3>1, <4>1
    <3>3. latest'[i] \in Delivered(n)'
      BY <1>1, <3>2 DEF Delivered
    <3> QED
      BY <1>0, <1>2, <3>3 DEF LineKept
  <2>4. CASE ~Decides(n)
    <3>1. Belongs(n) => view[n].stage[i] = "MEMBER"
      <4>1. Belongs(i)
        BY DEF MembersLines
      <4>2. Admitting(n, i)
        BY <1>0, <1>2 DEF Known, Stages, StageOf
      <4> QED
        BY <1>0, <2>1, <4>1, <4>2 DEF Admitting, Belongs
    <3>2. Belongs(n) => view[n].count < MIN_MEMBERS
      <4>1. Belongs(n) => ~(view[n].count >= MIN_MEMBERS)
        BY <1>2, <2>4, <3>1 DEF Decides, Belongs, Stands
      <4> QED
        BY <1>0, <4>1, NodeFacts
    <3>3. view'[n].stage = view[n].stage /\ view'[n].count = view[n].count
      BY <2>2 DEF Passes, Steady
    <3> QED
      BY <1>0, <1>2, <3>2, <3>3 DEF LineKept, Belongs, Stands
  <2> QED
    BY <2>3, <2>4
<1>3. CASE slice = "SEND" /\ turn = i
  <2>1. age[n] > 0
    BY <1>0, <1>3, SinceFacts
  <2>2. view'[n].last[i] = latest[i]
    BY <1>3, <2>1, LinesHeard
  <2> QED
    BY <1>0, <1>1, <1>3, <2>2 DEF LineKept
<1>4. CASE turn # i
  <2>1. view[n].last[i] = latest[i]
    BY <1>0, <1>4 DEF Lined, LineKept, Listening
  <2>2. view'[n].last[i] = view[n].last[i]
    BY <1>0, <1>4 DEF Handles, Enters, Passes, Broadcasts, StaysSilent, Hears, HearsNothing
  <2> QED
    BY <1>0, <1>1, <1>4, <2>1, <2>2 DEF LineKept
<1> QED
  BY <1>2, <1>3, <1>4 DEF Handles, Enters, Passes, Broadcasts, StaysSilent, Hears,
     HearsNothing

LEMMA LinedHandled ==
  ASSUME Calm, Known, MembersLines, Lined, NEW n \in Node, Handles(n)
  PROVE  Lined'
<1>0. TypeOK /\ Runs(n)
  BY HandledRuns DEF Calm
<1> SUFFICES ASSUME NEW m \in Node, NEW i \in Node, latest'[i] # Empty
             PROVE  /\ LineStage(m, i)'
                    /\ up'[m] /\ m # i /\ age'[m] > Since(i)' => LineKept(m, i)'
  BY DEF Lined
<1>1. up' = up /\ age' = age /\ Since(i)' = Since(i)
  BY <1>0, HeardHandled DEF Runs
<1>2. CASE m # n
  BY <1>1, <1>2, LinedElsewhere
<1>3. CASE m = n
  <2>1. LineStage(n, i)'
    BY LineStageHere DEF LineStage
  <2>2. n # i => latest[i] # Empty
    BY DEF Handles, Enters, Passes, Broadcasts, StaysSilent, Hears, HearsNothing
  <2> QED
    BY <1>1, <1>3, <2>1, <2>2, LineKeptHere
<1> QED
  BY <1>2, <1>3

LEMMA DeliverersHandled ==
  ASSUME Calm, Deliverers, NEW n \in Node, Handles(n)
  PROVE  Deliverers'
<1>0. /\ TypeOK /\ Runs(n) /\ turn \in Node /\ turn' = turn /\ slice' = slice
      /\ view[n].count \in Int /\ out \in [Node -> Seq(Nat)]
  BY HandledRuns DEF Calm, TypeOK, View, Runs
<1> SUFFICES ASSUME slice = "MEMBERSHIP", latest'[turn] # Empty,
                    NEW m \in Node, latest'[turn] \in Delivered(m)'
             PROVE  Belongs(m)' /\ view'[m].count >= MIN_MEMBERS
  BY <1>0 DEF Deliverers
<1>1. Enters(n) \/ Passes(n)
  BY DEF Handles, Broadcasts, StaysSilent, Hears, HearsNothing
<1>2. latest' = latest
  BY <1>1 DEF Enters, Passes
<1>3. CASE latest[turn] \in Delivered(m)
  <2>1. Belongs(m) /\ view[m].count >= MIN_MEMBERS
    BY <1>2, <1>3 DEF Deliverers
  <2>2. Belongs(m)'
    BY <1>0, <2>1, StandsHandled
  <2>3. view'[m].count >= MIN_MEMBERS
    <3>1. m # n => view'[m] = view[m]
      BY <1>0 DEF Runs
    <3>2. view'[n].count = view[n].count \/ view'[n].count = view[n].count + 1
      BY <1>1 DEF Enters, Passes, Steady
    <3>3. PICK c \in Int : c = view[n].count
      BY <1>0
    <3>4. m = n => c >= 3 /\ (view'[n].count = c \/ view'[n].count = c + 1)
      BY <2>1, <3>2, <3>3, NodeFacts
    <3>5. m = n => view'[n].count >= 3
      BY <3>4
    <3> QED
      BY <2>1, <3>1, <3>5, NodeFacts
  <2> QED
    BY <2>2, <2>3
<1>4. CASE latest[turn] \notin Delivered(m)
  <2>1. out'[m] # out[m]
    BY <1>2, <1>4 DEF Delivered
  <2>2. m = n /\ Passes(n) /\ Decides(n)
    BY <1>0, <1>1, <2>1 DEF Enters, Passes
  <2> QED
    BY <2>2 DEF Passes, Steady, Decides, Belongs, Stands
<1> QED
  BY <1>3, <1>4

LEMMA SameStepHandled ==
  ASSUME Calm, SameStep, NEW n \in Node, Handles(n)
  PROVE  SameStep'
<1>1. Runs(n)
  BY HandledRuns
<1> QED
  BY <1>1 DEF SameStep, Runs, Belongs, Stands

-----------------------------------------------------------------------------
(* Starting a process keeps the invariant                                   *)

\* A process starts with an empty view, and the others notice nothing.
LEMMA StartedFacts ==
  ASSUME Calm, NEW s \in Node, Start(s)
  PROVE  /\ TypeOK /\ turn \in Node /\ UNCHANGED <<view, age, sock, turn, slice, out, latest>>
         /\ up[s] = FALSE /\ view[s] = InitView /\ age[s] = 0 /\ sock[s] = <<>>
         /\ Stands(s) = "INACTIVE"
         /\ \A m \in Node \ {s} : up'[m] = up[m] /\ (m \in ran' <=> m \in ran)
         /\ \A m \in Node : m \in ran' => m \in ran \/ m = s
<1>1. up[s] = FALSE /\ view[s] = InitView /\ age[s] = 0 /\ sock[s] = <<>>
  BY DEF Start, Calm, NothingLeft, TypeOK
<1>2. Stands(s) = "INACTIVE"
  BY <1>1 DEF Stands, InitView
<1>3. \A m \in Node \ {s} : up'[m] = up[m] /\ (m \in ran' <=> m \in ran)
  BY DEF Start, Calm, TypeOK
<1> QED
  BY <1>1, <1>2, <1>3 DEF Start, Calm, TypeOK

LEMMA CalmStarted ==
  ASSUME Calm, NEW s \in Node, Start(s)
  PROVE  Newborn' /\ Grown' /\ SenderFirst'
<1>1. Newborn'
  BY StartedFacts DEF Calm, Newborn
<1>2. Grown'
  BY StartedFacts DEF Calm, Grown, Sends, Stands
<1>3. SenderFirst'
  <2>0. /\ UNCHANGED <<view, age, turn, slice>> /\ turn \in Node
        /\ view[s] = InitView /\ age[s] = 0
        /\ \A m \in Node \ {s} : up'[m] = up[m] /\ (m \in ran' <=> m \in ran)
    BY StartedFacts
  <2> SUFFICES ASSUME slice' = "SEND", turn' \notin ran', up'[turn'], age'[turn'] > 0,
                      NEW m \in ran'
               PROVE  age'[m] = 0 /\ view'[m] = InitView
    BY DEF SenderFirst
  <2>1. turn # s
    BY <2>0
  <2>2. slice = "SEND" /\ turn \notin ran /\ up[turn] /\ age[turn] > 0
    BY <2>0, <2>1
  <2>3. m \in ran \/ m = s
    BY DEF Start
  <2> QED
    BY <2>0, <2>2, <2>3 DEF Calm, SenderFirst
<1> QED
  BY <1>1, <1>2, <1>3

LEMMA KnownStarted ==
  ASSUME Calm, Known, NEW s \in Node, Start(s)
  PROVE  Known'
<1>0. /\ TypeOK /\ NothingLeft /\ turn \in Node
      /\ UNCHANGED <<view, age, sock, turn, slice, out, latest>>
      /\ Stands(s) = "INACTIVE" /\ view[s] = InitView /\ age[s] = 0 /\ sock[s] = <<>>
      /\ \A m \in Node \ {s} : up'[m] = up[m] /\ (m \in ran' <=> m \in ran)
  BY StartedFacts DEF Calm
<1>1. \A i \in Node : Stands(i)' = Stands(i) /\ (Sends(i)' <=> Sends(i))
                      /\ (Belongs(i)' <=> Belongs(i)) /\ Since(i)' = Since(i)
  BY <1>0, HeardStart DEF Stands, Sends, Belongs
<1>2. \A m, i \in Node : HasHeard(m, i)' => HasHeard(m, i)
  BY <1>0, HeardStart
<1>3. InSockets'
  <2> SUFFICES ASSUME slice = "SEND", NEW m \in Node
               PROVE  InSocket(m)'
    BY <1>0 DEF InSockets
  <2>1. InSocket(m) /\ FromSender(m)' = FromSender(m)
    BY <1>0 DEF Known, InSockets, FromSender
  <2>2. \A msg : Tells(msg)' <=> Tells(msg)
    BY <1>0, <1>1 DEF Tells, Stands, ArrayToByte
  <2>3. Sends(turn) => turn # s
    BY <1>0 DEF Sends
  <2>4. FromSender(s) = {}
    BY <1>0 DEF FromSender
  <2>5. Sends(turn)' <=> Sends(turn)
    BY <1>0 DEF Sends, Stands
  <2> QED
    BY <1>0, <2>1, <2>2, <2>3, <2>4, <2>5 DEF InSocket
<1>4. Vectors'
  BY <1>0, <1>1, <1>2 DEF Known, Vectors
<1>5. Rows'
  BY <1>0, <1>1, <1>2 DEF Known, Rows, Confirmed
<1>6. Stages'
  <2> SUFFICES ASSUME NEW m \in Node, NEW i \in Node, up'[m], m # i, age'[m] > Since(i)'
               PROVE  StageOf(m, i)'
    BY DEF Stages
  <2>1. up[m] /\ m # s /\ age[m] > Since(i)
    BY <1>0, HeardStart
  <2>2. StageOf(m, i)
    BY <2>1 DEF Known, Stages
  <2>3. Listening(m, i)' <=> Listening(m, i)
    BY <1>0, <2>1 DEF Listening
  <2>4. Admitting(m, i) => Admitting(m, i)'
    BY <1>0, <1>1, <2>1 DEF Admitting, Belongs
  <2> QED
    BY <1>0, <1>1, <2>2, <2>3, <2>4 DEF StageOf
<1>7. NoGhosts'
  <2>1. \A m, i \in Node : Joins(m, i) => Joins(m, i)'
    BY <1>0, <1>1 DEF Joins
  <2> QED
    BY <1>0, <1>1, <2>1 DEF Known, NoGhosts
<1>8. Flags'
  BY <1>0, <1>1 DEF Known, Flags, Stands
<1> QED
  BY <1>3, <1>4, <1>5, <1>6, <1>7, <1>8 DEF Known

LEMMA LinesStarted ==
  ASSUME Calm, NEW s \in Node, Start(s)
  PROVE  /\ Counts => Counts'
         /\ NoSuspicion => NoSuspicion'
         /\ MembersLines => MembersLines'
         /\ Lined => Lined'
         /\ Deliverers => Deliverers'
         /\ SameStep => SameStep'
<1>0. /\ TypeOK /\ NothingLeft /\ turn \in Node
      /\ UNCHANGED <<view, age, sock, turn, slice, out, latest>>
      /\ Stands(s) = "INACTIVE" /\ view[s] = InitView
      /\ \A m \in Node \ {s} : up'[m] = up[m] /\ (m \in ran' <=> m \in ran)
  BY StartedFacts DEF Calm
<1>1. \A i \in Node : Belongs(i)' <=> Belongs(i)
  BY <1>0 DEF Stands, Belongs
<1>2. (Counts => Counts') /\ (NoSuspicion => NoSuspicion') /\ (MembersLines => MembersLines')
  BY <1>0, <1>1 DEF Counts, NoSuspicion, MembersLines
<1>3. ASSUME Lined PROVE Lined'
  <2> SUFFICES ASSUME NEW m \in Node, NEW i \in Node, latest'[i] # Empty
               PROVE  /\ LineStage(m, i)'
                      /\ up'[m] /\ m # i /\ age'[m] > Since(i)' => LineKept(m, i)'
    BY DEF Lined
  <2>1. CASE m = s
    <3>1. ~(up'[s] /\ age'[s] > Since(i)')
      BY <1>0, HeardStart
    <3> QED
      BY <1>0, <2>1, <3>1 DEF LineStage, InitView
  <2>2. CASE m # s
    <3>1. (Listening(m, i)' <=> Listening(m, i)) /\ (m \in ran' <=> m \in ran)
          /\ Delivered(m)' = Delivered(m)
      BY <1>0, <2>2 DEF Listening, Delivered
    <3>2. up'[m] /\ age'[m] > Since(i)' => up[m] /\ age[m] > Since(i)
      BY <1>0, HeardStart
    <3>3. LineStage(m, i)'
      BY <1>0, <1>3, <3>1 DEF Lined, LineStage
    <3>4. LineKept(m, i) => LineKept(m, i)'
      BY <1>0, <1>1, <3>1 DEF LineKept
    <3> QED
      BY <1>0, <1>3, <3>2, <3>3, <3>4 DEF Lined
  <2> QED
    BY <2>1, <2>2
<1>4. Deliverers => Deliverers'
  BY <1>0, <1>1 DEF Deliverers, Delivered
<1>5. SameStep => SameStep'
  BY <1>0, <1>1 DEF SameStep, Belongs
<1> QED
  BY <1>2, <1>3, <1>4, <1>5

-----------------------------------------------------------------------------
(* The next slice                                                           *)

LEMMA SlicedFacts ==
  ASSUME Calm, NextSlice
  PROVE  /\ TypeOK /\ NothingLeft /\ turn \in Node /\ ran' = {}
         /\ UNCHANGED <<up, view, sock, out>>
         /\ \A i \in Node : /\ Stands(i)' = Stands(i) /\ (Sends(i)' <=> Sends(i))
                            /\ Belongs(i)' <=> Belongs(i)
                            /\ latest'[i] # Empty => latest'[i] = latest[i]
                            /\ Sends(i) => up[i]
         /\ \/ slice = "MEMBERSHIP" /\ slice' = "SEND" /\ turn' = turn /\ AllRan
               /\ latest'[turn] = Empty
            \/ slice = "SEND" /\ slice' = "PAUSE" /\ turn' = turn /\ AllRan
            \/ slice = "PAUSE" /\ slice' = "MEMBERSHIP" /\ turn' # turn /\ turn' \in Node
<1>0. TypeOK /\ NothingLeft /\ turn \in Node /\ latest \in [Node -> Body]
  BY DEF Calm, TypeOK
<1>1. ran' = {} /\ UNCHANGED <<up, view, sock, out>>
  BY DEF NextSlice, Calm, NobodyFails, files
<1>2. \/ slice = "MEMBERSHIP" /\ slice' = "SEND" /\ turn' = turn /\ AllRan
         /\ latest'[turn] = Empty
      \/ slice = "SEND" /\ slice' = "PAUSE" /\ turn' = turn /\ AllRan
      \/ slice = "PAUSE" /\ slice' = "MEMBERSHIP" /\ turn' # turn /\ turn' \in Node
  BY <1>0, NodeFacts DEF NextSlice
<1>3. ASSUME NEW i \in Node
      PROVE  /\ Stands(i)' = Stands(i) /\ (Sends(i)' <=> Sends(i))
             /\ Belongs(i)' <=> Belongs(i)
             /\ latest'[i] # Empty => latest'[i] = latest[i]
             /\ Sends(i) => up[i]
  <2>1. latest'[i] = Empty \/ latest'[i] = latest[i]
    BY <1>0 DEF NextSlice
  <2> QED
    BY <1>1, <2>1 DEF Stands, Sends, Belongs, Calm, Grown
<1> QED
  BY <1>0, <1>1, <1>2, <1>3

LEMMA CalmSliced ==
  ASSUME Calm, NextSlice
  PROVE  Newborn' /\ Grown' /\ SenderFirst'
<1>1. \A n \in Node : /\ age[n] \in Nat /\ age[n] <= CycleOver
                      /\ age'[n] = IF up[n] /\ age[n] < CycleOver THEN age[n] + 1 ELSE age[n]
  BY AgeTypes DEF NextSlice, Calm
<1>2. Newborn'
  <2> SUFFICES ASSUME NEW n \in Node, age'[n] = 0
               PROVE  view'[n] = InitView
    BY DEF Newborn
  <2>1. ~up[n]
    BY <1>1, CycleFacts
  <2> QED
    BY <2>1, SlicedFacts DEF Calm, NothingLeft
<1>3. Grown'
  <2> SUFFICES ASSUME NEW n \in Node, Sends(n)'
               PROVE  up'[n] /\ age'[n] >= CycleLength /\ age'[n] # CycleLength
    BY DEF Grown
  <2>1. up'[n] /\ up[n] /\ age[n] >= CycleLength
    BY SlicedFacts DEF Calm, Grown
  <2> QED
    BY <1>1, <2>1, CycleFacts
<1>4. SenderFirst'
  BY SlicedFacts DEF SenderFirst
<1> QED
  BY <1>2, <1>3, <1>4

LEMMA ConfirmedSliced ==
  ASSUME Calm, NextSlice, NEW i \in Node, NEW j \in Node,
         ~(slice = "MEMBERSHIP" /\ turn = i), Confirmed(i, j)'
  PROVE  Confirmed(i, j)
<1>1. Since(i)' = Since(i) + 1
      /\ Since(j)' = (IF slice = "MEMBERSHIP" /\ turn = j THEN 0 ELSE Since(j) + 1)
  BY SinceSlice DEF Calm
<1>2. Since(i) \in Nat /\ Since(j) \in Nat
  BY SinceFacts DEF Calm
<1>3. Since(i)' < Since(j)' => Since(i) < Since(j)
  BY <1>1, <1>2
<1> QED
  BY <1>3, SlicedFacts DEF Confirmed

\* Members look the same to each other when all have decided.
LEMMA DecidedStages ==
  ASSUME Calm, Known, Decided, NEW n \in Node, n # turn, Belongs(n)
  PROVE  view[n].stage[turn] = Stands(turn)
<1>1. slice = "MEMBERSHIP" /\ turn \in Node /\ (Sends(turn) => up[turn] /\ turn \in ran)
  BY DEF Decided, AllRan, Calm, TypeOK, Grown
<1>2. up[n] /\ age[n] > Since(turn) /\ n \in ran
  BY <1>1, SendersHeard DEF Belongs, Sends, Decided, AllRan
<1>3. Admitting(n, turn)
  BY <1>1, <1>2 DEF Known, Stages, StageOf
<1> QED
  BY <1>1, <1>2, <1>3 DEF Admitting, Sends

LEMMA KnownSliced ==
  ASSUME OrderInv, Calm, Known, NextSlice
  PROVE  Known'
<1>0. /\ TypeOK /\ NothingLeft /\ turn \in Node /\ ran' = {}
      /\ UNCHANGED <<up, view, sock, out>>
      /\ \A i \in Node : /\ Stands(i)' = Stands(i) /\ (Sends(i)' <=> Sends(i))
                         /\ Belongs(i)' <=> Belongs(i)
                         /\ Sends(i) => up[i]
      /\ \/ slice = "MEMBERSHIP" /\ slice' = "SEND" /\ turn' = turn /\ AllRan
         \/ slice = "SEND" /\ slice' = "PAUSE" /\ turn' = turn /\ AllRan
         \/ slice = "PAUSE" /\ slice' = "MEMBERSHIP" /\ turn' # turn /\ turn' \in Node
  BY SlicedFacts
<1>1. \A m, i \in Node : HasHeard(m, i)' => HasHeard(m, i)
  BY <1>0, HeardSlice DEF Calm
<1>2. InSockets'
  <2> SUFFICES ASSUME slice = "MEMBERSHIP", NEW m \in Node
               PROVE  InSocket(m)'
    BY <1>0 DEF InSockets
  <2>1. LeftOver(m) # turn
    BY <1>0, LeftOverFacts
  <2>2. m \notin late
    BY DEF Calm, NobodyFails
  <2>3. Leftovers(m)
    BY <2>2 DEF OrderInv, LinesInOrder, InFile
  <2>4. FromSender(m)' = {}
    BY <1>0, <2>1, <2>3 DEF FromSender, Leftovers
  <2> QED
    BY <1>0, <2>4 DEF InSocket
<1>3. Vectors'
  BY <1>0, <1>1 DEF Known, Vectors
<1>4. Rows'
  <2> SUFFICES ASSUME NEW m \in Node, NEW i \in Node, NEW j \in Node,
                      HasHeard(m, i)', i # j, Sends(i)', Confirmed(i, j)'
               PROVE  view'[m].vv[i][j] = "RECEIVED"
    BY DEF Rows
  <2>1. ~(slice = "MEMBERSHIP" /\ turn = i)
    BY <1>0 DEF HasHeard, Listening
  <2>2. Confirmed(i, j)
    BY <2>1, ConfirmedSliced
  <2> QED
    BY <1>0, <1>1, <2>2 DEF Known, Rows
<1>5. Stages'
  <2> SUFFICES ASSUME NEW m \in Node, NEW i \in Node, up[m], m # i, age'[m] > Since(i)'
               PROVE  StageOf(m, i)'
    BY <1>0 DEF Stages
  <2>1. CASE slice = "MEMBERSHIP" /\ turn = i
    <3>1. Listening(m, i)'
      BY <1>0, <2>1 DEF Listening
    <3>2. Belongs(m) => view[m].stage[i] = Stands(i)
      BY <1>0, <2>1, DecidedStages DEF Decided
    <3> QED
      BY <1>0, <2>1, <3>1, <3>2 DEF StageOf, Belongs
  <2>2. CASE ~(slice = "MEMBERSHIP" /\ turn = i)
    <3>1. age[m] > Since(i)
      BY <1>0, <2>2, HeardSlice DEF Calm
    <3>2. ~Listening(m, i) /\ ~Listening(m, i)'
      BY <1>0, <2>2 DEF Listening, AllRan
    <3>3. view[m].stage[i] = Stands(i)
      BY <2>2, <3>1, <3>2 DEF Known, Stages, StageOf
    <3>4. Admitting(m, i)'
      BY <1>0, <3>3 DEF Admitting
    <3> QED
      BY <1>0, <3>2, <3>3, <3>4 DEF StageOf
  <2> QED
    BY <2>1, <2>2
<1>6. NoGhosts'
  <2>1. ASSUME NEW m \in Node, NEW i \in Node, Joins(m, i)
        PROVE  FALSE
    <3>1. AllRan /\ up[i] /\ i \notin ran
      BY <1>0, <2>1 DEF Joins, Sends
    <3> QED
      BY <3>1 DEF AllRan
  <2> QED
    BY <1>0, <2>1 DEF Known, NoGhosts
<1>7. Flags'
  <2>1. slice = "MEMBERSHIP" /\ Stands(turn) = "ACTIVE" => ~view[turn].flag
    BY <1>0 DEF Sends, AllRan, Known, Flags
  <2>2. \/ slice' = "MEMBERSHIP" /\ turn' \in ran'
        \/ slice' = "SEND" /\ turn' \notin ran'
        => (Stands(turn)' = "ACTIVE" => ~view'[turn'].flag)
    BY <1>0, <2>1 DEF Stands
  <2> QED
    BY <1>0, <2>2 DEF Known, Flags
<1> QED
  BY <1>2, <1>3, <1>4, <1>5, <1>6, <1>7 DEF Known

LEMMA LinesSliced ==
  ASSUME OrderInv, Calm, Known, MembersLines, NextSlice
  PROVE  /\ Counts => Counts'
         /\ NoSuspicion => NoSuspicion'
         /\ MembersLines'
         /\ Lined => Lined'
         /\ Deliverers'
         /\ SameStep'
<1>0. /\ TypeOK /\ NothingLeft /\ turn \in Node /\ ran' = {}
      /\ UNCHANGED <<up, view, sock, out>>
      /\ \A i \in Node : /\ Stands(i)' = Stands(i)
                         /\ Belongs(i)' <=> Belongs(i)
                         /\ latest'[i] # Empty => latest'[i] = latest[i]
      /\ \/ slice = "MEMBERSHIP" /\ slice' = "SEND" /\ turn' = turn /\ AllRan
            /\ latest'[turn] = Empty
         \/ slice = "SEND" /\ slice' = "PAUSE" /\ turn' = turn /\ AllRan
         \/ slice = "PAUSE" /\ slice' = "MEMBERSHIP" /\ turn' # turn /\ turn' \in Node
  BY SlicedFacts
<1>1. (Counts => Counts') /\ (NoSuspicion => NoSuspicion') /\ MembersLines'
  BY <1>0 DEF Counts, NoSuspicion, MembersLines
<1>2. ASSUME Lined PROVE Lined'
  <2> SUFFICES ASSUME NEW m \in Node, NEW i \in Node, latest'[i] # Empty
               PROVE  /\ LineStage(m, i)'
                      /\ up[m] /\ m # i /\ age'[m] > Since(i)' => LineKept(m, i)'
    BY <1>0 DEF Lined
  <2>1. latest'[i] = latest[i] /\ ~(slice = "MEMBERSHIP" /\ turn = i)
    BY <1>0
  <2>2. up[m] => ~Listening(m, i)
    BY <1>0 DEF Listening, AllRan
  <2>3. LineStage(m, i)'
    <3>1. ~up[m] => view[m].stage[i] # "ACTIVE"
      BY <1>0 DEF NothingLeft, InitView
    <3> QED
      BY <1>0, <1>2, <2>1, <2>2, <3>1 DEF Lined, LineStage
  <2>4. ASSUME up[m], m # i, age'[m] > Since(i)'
        PROVE  LineKept(m, i)'
    <3>1. age[m] > Since(i)
      BY <2>1, <2>4, HeardSlice DEF Calm
    <3>2. view[m].last[i] = latest[i]
      BY <1>2, <2>1, <2>2, <2>4, <3>1 DEF Lined, LineKept
    <3> QED
      BY <1>0, <2>1, <3>2 DEF LineKept
  <2> QED
    BY <2>3, <2>4
<1>3. Deliverers'
  <2> SUFFICES ASSUME slice' = "MEMBERSHIP", latest'[turn'] # Empty, NEW m \in Node
               PROVE  latest'[turn'] \notin Delivered(m)'
    BY DEF Deliverers
  <2>1. slice = "PAUSE" /\ turn' \in Node /\ latest'[turn'] = latest[turn'] /\ Undec(turn')
    BY <1>0 DEF Undec
  <2>2. Older(m)
    BY DEF OrderInv, LinesInOrder, InFile, Calm, NobodyFails
  <2>3. \A k \in DOMAIN out[m] : out[m][k] < latest[turn']
    BY <2>1, <2>2 DEF Older
  <2>4. out[m] \in Seq(Nat) /\ latest[turn'] \in Nat
    BY <1>0, <2>1 DEF TypeOK, Body
  <2>5. \A k \in DOMAIN out[m] : out[m][k] # latest[turn']
    BY <2>3, <2>4
  <2> QED
    BY <1>0, <2>1, <2>5 DEF Delivered
<1>4. SameStep'
  <2> SUFFICES ASSUME slice' = "MEMBERSHIP", NEW n \in Node, Belongs(n)
               PROVE  view[n].stage[turn'] = Stands(turn')
    BY <1>0 DEF SameStep
  <2>1. slice = "PAUSE" /\ turn' \in Node
    BY <1>0
  <2>2. CASE n # turn'
    <3>1. up[n] /\ age[n] > Since(turn')
      BY <2>1, <2>2, SendersHeard DEF Belongs, Sends
    <3> QED
      BY <2>1, <2>2, <3>1 DEF Known, Stages, StageOf, Listening
  <2> QED
    BY <2>2 DEF Stands
<1> QED
  BY <1>1, <1>2, <1>3, <1>4

-----------------------------------------------------------------------------
(* The invariant holds                                                      *)

FreeInv == Inv /\ ValidityInv /\ Lined /\ Deliverers /\ SameStep

LEMMA InitFree == Init => FreeInv
<1> SUFFICES ASSUME Init
             PROVE  FreeInv
  OBVIOUS
<1>0. OrderInv /\ ValidityInv /\ TypeOK /\ NothingLeft /\ MessageHeld
  BY InitType, InitHeld, InitOrder, InitValidity DEF OrderInv
<1>1. /\ \A n \in Node : view[n] = InitView /\ age[n] = 0 /\ asleep[n] = 0
                         /\ latest[n] = Empty /\ sock[n] = <<>>
      /\ faulty = {} /\ late = {} /\ ran = {} /\ slice = "MEMBERSHIP" /\ turn = 0
  BY DEF Init
<1>2. \A n \in Node : Stands(n) = "INACTIVE" /\ ~Sends(n) /\ ~Belongs(n)
  BY <1>1 DEF Stands, Sends, Belongs, InitView
<1>3. Calm
  BY <1>0, <1>1, <1>2 DEF Calm, NobodyFails, Newborn, Grown, SenderFirst
<1>4. \A n, i \in Node : ~(age[n] > Since(i))
  BY <1>0, <1>1, SinceFacts
<1>5. Known
  <2>1. InSockets /\ Vectors /\ Rows /\ Stages
    BY <1>1, <1>4 DEF InSockets, Vectors, Rows, HasHeard, Stages
  <2>2. NoGhosts
    BY <1>1 DEF NoGhosts, InitView
  <2>3. Flags
    BY <1>1 DEF Flags, InitView
  <2> QED
    BY <2>1, <2>2, <2>3 DEF Known
<1>6. Counts /\ NoSuspicion /\ MembersLines
  <2>1. Members(InitView) = {} /\ InitView.count = 0
    BY DEF Members, InitView
  <2>2. Counts
    BY <1>1, <2>1, FS_EmptySet DEF Counts
  <2> QED
    BY <1>1, <2>2 DEF NoSuspicion, MembersLines, InitView
<1>7. Lined /\ Deliverers /\ SameStep
  <2>1. turn \in Node
    BY <1>0 DEF TypeOK
  <2> QED
    BY <1>1, <1>2, <2>1 DEF Lined, Deliverers, SameStep
<1> QED
  BY <1>0, <1>3, <1>5, <1>6, <1>7 DEF FreeInv, Inv

LEMMA FreeHandled ==
  ASSUME FreeInv, NEW n \in Node, Handles(n)
  PROVE  /\ Newborn' /\ Grown' /\ SenderFirst' /\ Known'
         /\ Counts' /\ NoSuspicion' /\ MembersLines'
         /\ Lined' /\ Deliverers' /\ SameStep'
<1>1. /\ Calm /\ Known /\ Counts /\ NoSuspicion /\ MembersLines
      /\ Lined /\ Deliverers /\ SameStep
      /\ InSockets /\ Vectors /\ Rows
  BY DEF FreeInv, Inv, Known
<1>2. Newborn' /\ Grown' /\ SenderFirst'
  BY <1>1, NewbornHandled, GrownHandled, SenderFirstHandled
<1>3. Known'
  BY <1>1, InSocketsHandled, VectorsHandled, RowsHandled, StagesHandled,
     NoGhostsHandled, FlagsHandled DEF Known
<1>4. Counts' /\ NoSuspicion' /\ MembersLines'
  BY <1>1, CountsHandled, NoSuspicionHandled, MembersLinesHandled
<1>5. Lined' /\ Deliverers' /\ SameStep'
  BY <1>1, LinedHandled, DeliverersHandled, SameStepHandled
<1> QED
  BY <1>2, <1>3, <1>4, <1>5

LEMMA FreeStutters ==
  ASSUME FreeInv, UNCHANGED vars
  PROVE  /\ Newborn' /\ Grown' /\ SenderFirst' /\ Known'
         /\ Counts' /\ NoSuspicion' /\ MembersLines'
         /\ Lined' /\ Deliverers' /\ SameStep'
<1>0. /\ UNCHANGED <<up, view, age, sock, turn, slice, ran, out, latest>>
      /\ Calm /\ Known /\ Counts /\ NoSuspicion /\ MembersLines
      /\ Lined /\ Deliverers /\ SameStep
  BY DEF vars, proc, clock, files, FreeInv, Inv
<1>1. Newborn' /\ Grown' /\ SenderFirst'
  BY <1>0 DEF Calm, Newborn, Grown, SenderFirst, Sends, Stands
<1>2. /\ \A i : Since(i)' = Since(i) /\ Stands(i)' = Stands(i)
               /\ (Sends(i)' <=> Sends(i)) /\ (Belongs(i)' <=> Belongs(i))
      /\ \A n, i : (Listening(n, i)' <=> Listening(n, i)) /\ Delivered(n)' = Delivered(n)
  BY <1>0 DEF Since, Wait, Sends, Belongs, Stands, Listening, Delivered
<1>3. InSockets'
  BY <1>0, <1>2 DEF Known, InSockets, InSocket, FromSender, Tells, ArrayToByte
<1>4. Vectors' /\ Rows'
  BY <1>0, <1>2 DEF Known, Vectors, Rows, HasHeard, Confirmed
<1>5. Stages' /\ NoGhosts'
  BY <1>0, <1>2 DEF Known, Stages, StageOf, Admitting, NoGhosts, Joins
<1>6. Flags'
  BY <1>0, <1>2 DEF Known, Flags
<1>7. Counts' /\ NoSuspicion' /\ MembersLines'
  BY <1>0, <1>2 DEF Counts, NoSuspicion, MembersLines
<1>8. Lined' /\ Deliverers' /\ SameStep'
  BY <1>0, <1>2 DEF Lined, LineStage, LineKept, Deliverers, SameStep
<1> QED
  BY <1>1, <1>3, <1>4, <1>5, <1>6, <1>7, <1>8 DEF Known

\* Without failures every step is one of these.
LEMMA FreeSteps ==
  ASSUME Spared, FreeInv, [Next]_vars
  PROVE  \/ \E n \in Node : Handles(n) \/ Start(n)
         \/ NextSlice
         \/ UNCHANGED vars
<1>1. TypeOK /\ Inv
  BY DEF FreeInv, Inv, Calm
<1>2. ASSUME NEW n \in Node PROVE ~Crash(n) /\ ~Oversleep(n)
  BY <1>1, NoFailure DEF Crash, Oversleep
<1> QED
  BY <1>1, <1>2, HandlerFree DEF Next

LEMMA FreeStep ==
  ASSUME Spared, FreeInv, [Next]_vars
  PROVE  FreeInv'
<1>0. /\ TypeOK /\ NothingLeft /\ NobodyFails /\ OrderInv /\ MessageHeld /\ ValidityInv
      /\ Calm /\ Known /\ Counts /\ NoSuspicion /\ MembersLines
      /\ Lined /\ Deliverers /\ SameStep
  BY DEF FreeInv, Inv, Calm
<1>1. OrderInv' /\ TypeOK' /\ NothingLeft'
  BY <1>0, NextType, NothingLeftStep, SleepersLateStep, LinesStep DEF OrderInv
<1>2. MessageHeld'
  BY <1>0, MessageHeldStep DEF OrderInv
<1>3. ValidityInv'
  BY <1>0, <1>1, SleepersStep, RebornStep, OwnLinesStep DEF ValidityInv
<1>4. NobodyFails'
  BY <1>0, NobodyFailsStep
<1>5. /\ Newborn' /\ Grown' /\ SenderFirst' /\ Known'
      /\ Counts' /\ NoSuspicion' /\ MembersLines'
      /\ Lined' /\ Deliverers' /\ SameStep'
  <2>1. CASE \E n \in Node : Handles(n)
    BY <2>1, FreeHandled
  <2>2. CASE \E s \in Node : Start(s)
    BY <1>0, <2>2, CalmStarted, KnownStarted, LinesStarted
  <2>3. CASE NextSlice
    BY <1>0, <2>3, CalmSliced, KnownSliced, LinesSliced
  <2>4. CASE UNCHANGED vars
    BY <2>4, FreeStutters
  <2> QED
    BY <2>1, <2>2, <2>3, <2>4, FreeSteps
<1> QED
  BY <1>1, <1>2, <1>3, <1>4, <1>5 DEF FreeInv, Inv, Calm

LEMMA FreeInvariant ==
  ASSUME FaultFree
  PROVE  Spec => []FreeInv
<1>1. FreeInv /\ [Next]_vars => FreeInv'
  <2> SUFFICES ASSUME FreeInv, [Next]_vars
               PROVE  FreeInv'
    OBVIOUS
  <2>1. Spared
    BY FreeSpared DEF FreeInv, Inv, Calm
  <2> QED
    BY <2>1, FreeStep
<1> QED
  BY <1>1, InitFree, PTL DEF Spec

\* All this holds up to the first failure.
LEMMA FreeBeforeFailure ==
  Spec => [](faults = MaxFaults => FreeInv)
<1>1. ASSUME TypeOK, faults = MaxFaults => FreeInv, [Next]_vars
      PROVE  (faults = MaxFaults => FreeInv)'
  <2> SUFFICES ASSUME faults' = MaxFaults
               PROVE  FreeInv'
    OBVIOUS
  <2>1. faults \in 0..MaxFaults /\ MaxFaults \in Nat
    BY <1>1, BoundsAssumption DEF TypeOK
  <2>2. Spared
    BY <1>1, <2>1, FaultsFall DEF Failing
  <2>3. faults = MaxFaults
    BY <2>2 DEF Spared
  <2> QED
    BY <1>1, <2>2, <2>3, FreeStep
<1>2. Init => (faults = MaxFaults => FreeInv)
  BY InitFree
<1>3. Spec => []TypeOK
  BY TypeCorrect
<1> QED
  BY <1>1, <1>2, <1>3, PTL DEF Spec

-----------------------------------------------------------------------------
(* The views of the members                                                 *)

\* A member has no doubt about anybody but the sender it decides about.
LEMMA TrueViews ==
  ASSUME Calm, Known, NEW n \in Node, Belongs(n), NEW i \in Node,
         ~(slice = "MEMBERSHIP" /\ i = turn)
  PROVE  view[n].stage[i] = "MEMBER" <=> Belongs(i)
<1>1. CASE i = n
  BY <1>1 DEF Belongs, Stands
<1>2. CASE i # n
  <2>1. up[n] /\ age[n] > Since(i)
    BY <1>2, SendersHeard DEF Belongs, Sends
  <2>2. StageOf(n, i)
    BY <1>2, <2>1 DEF Known, Stages
  <2> QED
    BY <2>2 DEF StageOf, Belongs
<1> QED
  BY <1>1, <1>2

\* A member that has decided has admitted the sender that had sent.
LEMMA AdmittedViews ==
  ASSUME Calm, Known, slice = "MEMBERSHIP", NEW n \in ran, n \in Node, Belongs(n)
  PROVE  view[n].stage[turn] = "MEMBER" <=> Sends(turn)
<1>1. turn \in Node /\ Stands(turn) \in Stage
  BY DEF Calm, TypeOK, View, Stands
<1>2. CASE n = turn
  BY <1>2 DEF Belongs, Sends, Stands
<1>3. CASE n # turn
  <2>1. up[n] /\ age[n] > Since(turn)
    BY <1>1, <1>3, SendersHeard DEF Belongs, Sends
  <2>2. Admitting(n, turn)
    BY <1>1, <1>3, <2>1 DEF Known, Stages, StageOf
  <2> QED
    BY <1>1, <2>2 DEF Admitting, Belongs, Sends, Stage
<1> QED
  BY <1>2, <1>3

\* Two members that have both decided, or both not yet, have the same view.
LEMMA SameViews ==
  ASSUME Calm, Known, SameStep, NEW n \in Node, NEW m \in Node, Belongs(n), Belongs(m),
         slice = "MEMBERSHIP" => (n \in ran <=> m \in ran)
  PROVE  Members(view[n]) = Members(view[m])
<1> SUFFICES ASSUME NEW i \in Node
             PROVE  view[n].stage[i] = "MEMBER" <=> view[m].stage[i] = "MEMBER"
  BY DEF Members
<1>1. CASE ~(slice = "MEMBERSHIP" /\ i = turn)
  BY <1>1, TrueViews
<1>2. CASE slice = "MEMBERSHIP" /\ i = turn /\ n \in ran
  BY <1>2, AdmittedViews
<1>3. CASE slice = "MEMBERSHIP" /\ i = turn /\ n \notin ran
  BY <1>3 DEF SameStep
<1> QED
  BY <1>1, <1>2, <1>3

LEMMA CorrectMembers ==
  ASSUME Calm, NEW n \in Node
  PROVE  Correct(n) <=> Belongs(n)
BY DEF Calm, NobodyFails, Grown, Correct, IsMember, Belongs, Sends, Stands

\* The members whose views count.
Votes(n) == Belongs(n) /\ (n \in Undecided \/ Undecided = {})

OneView ==
  /\ \A n \in Node : Votes(n) => CommonViews = {Members(view[n])}
  /\ (\A n \in Node : ~Belongs(n)) => CommonViews = {}

LEMMA FreeOneView == FreeInv => OneView
<1> SUFFICES ASSUME FreeInv
             PROVE  OneView
  OBVIOUS
<1>1. Calm /\ Known /\ SameStep
  BY DEF FreeInv, Inv
<1>2. \A n \in Node : Correct(n) <=> Belongs(n)
  BY <1>1, CorrectMembers
<1> DEFINE Voters == IF Undecided # {} THEN Undecided ELSE {m \in Node : Correct(m)}
<1>3. CommonViews = {Members(view[n]) : n \in Voters}
  BY DEF CommonViews
<1>4. \A n : n \in Undecided <=> n \in Node /\ Belongs(n) /\ slice = "MEMBERSHIP" /\ n \notin ran
  BY <1>2 DEF Undecided
<1>5. \A n : n \in Voters <=> n \in Node /\ Votes(n)
  BY <1>2, <1>4 DEF Votes
<1>6. ASSUME NEW n \in Node, NEW m \in Node, Votes(n), Votes(m)
      PROVE  Members(view[n]) = Members(view[m])
  <2>1. Belongs(n) /\ Belongs(m)
    BY <1>6 DEF Votes
  <2>2. slice = "MEMBERSHIP" => (n \in ran <=> m \in ran)
    BY <1>4, <1>6 DEF Votes
  <2> QED
    BY <1>1, <2>1, <2>2, SameViews
<1> HIDE DEF Voters
<1>7. ASSUME NEW n \in Node, Votes(n)
      PROVE  CommonViews = {Members(view[n])}
  BY <1>3, <1>5, <1>6, <1>7
<1>8. (\A n \in Node : ~Belongs(n)) => CommonViews = {}
  BY <1>3, <1>5 DEF Votes
<1> QED
  BY <1>7, <1>8 DEF OneView

-----------------------------------------------------------------------------
(* The members go through the memberships of the abstract service           *)

\* Some voter votes before and after the step, and sees the same members.
Unmoved ==
  \/ \E n \in Node : Votes(n) /\ Votes(n)' /\ Members(view[n])' = Members(view[n])
  \/ \A n \in Node : ~Belongs(n) /\ ~Belongs(n)'

LEMMA UnmovedViews ==
  ASSUME OneView, OneView', Unmoved
  PROVE  CommonViews' = CommonViews
<1>1. CASE \E n \in Node : Votes(n) /\ Votes(n)' /\ Members(view[n])' = Members(view[n])
  <2>1. PICK n \in Node : Votes(n) /\ Votes(n)' /\ Members(view[n])' = Members(view[n])
    BY <1>1
  <2>2. CommonViews = {Members(view[n])} /\ CommonViews' = {Members(view[n])'}
    BY <2>1 DEF OneView
  <2> QED
    BY <2>1, <2>2
<1>2. CASE \A n \in Node : ~Belongs(n) /\ ~Belongs(n)'
  BY <1>2 DEF OneView
<1> QED
  BY <1>1, <1>2 DEF Unmoved

LEMMA UndecidedMembers ==
  ASSUME Calm, NEW n \in Node
  PROVE  n \in Undecided <=> Belongs(n) /\ slice = "MEMBERSHIP" /\ n \notin ran
BY CorrectMembers DEF Undecided

LEMMA UndecidedNext ==
  ASSUME Calm', NEW n \in Node
  PROVE  n \in Undecided' <=> Belongs(n)' /\ slice' = "MEMBERSHIP" /\ n \notin ran'
BY DEF Calm, NobodyFails, Grown, Undecided, Correct, IsMember, Belongs, Sends, Stands

\* If there is a member there is one that votes.
LEMMA SomeoneVotes ==
  ASSUME Calm, NEW n \in Node, Belongs(n)
  PROVE  \E m \in Node : Votes(m)
<1>1. CASE Undecided = {}
  BY <1>1 DEF Votes
<1>2. CASE Undecided # {}
  <2>1. PICK m \in Undecided : TRUE
    BY <1>2
  <2>2. m \in Node
    BY DEF Undecided
  <2> QED
    BY <2>1, <2>2, UndecidedMembers DEF Votes
<1> QED
  BY <1>1, <1>2

\* The steps after which the same members vote.
LEMMA SameVoters ==
  ASSUME Calm, Calm', UNCHANGED <<view, slice>>,
         \A n \in Node : Belongs(n) => (n \in ran' <=> n \in ran)
  PROVE  Unmoved
<1>1. \A n \in Node : (Belongs(n)' <=> Belongs(n)) /\ Members(view[n])' = Members(view[n])
  BY DEF Belongs, Stands, Members
<1>2. \A n \in Node : n \in Undecided' <=> n \in Undecided
  BY <1>1, UndecidedMembers, UndecidedNext
<1>3. Undecided' = Undecided
  <2>1. Undecided \subseteq Node /\ Undecided' \subseteq Node
    BY DEF Undecided
  <2> QED
    BY <1>2, <2>1
<1>4. \A n \in Node : Votes(n)' <=> Votes(n)
  BY <1>1, <1>3 DEF Votes
<1> QED
  BY <1>1, <1>4, SomeoneVotes DEF Unmoved

-----------------------------------------------------------------------------
(* Every step is one of the abstract membership service                     *)

MembershipChange == \E n \in Node : MS!Establish(n) \/ MS!Admit(n)

LEMMA StartMembers ==
  ASSUME Calm, Calm', NEW s \in Node, Start(s)
  PROVE  Unmoved
<1>1. UNCHANGED <<view, slice>>
  BY DEF Start
<1>2. Stands(s) = "INACTIVE" /\ \A m \in Node \ {s} : m \in ran' <=> m \in ran
  BY StartedFacts
<1>3. \A n \in Node : Belongs(n) => (n \in ran' <=> n \in ran)
  BY <1>2 DEF Belongs
<1> QED
  BY <1>1, <1>3, SameVoters

\* The slice ends when all have decided.
LEMMA SliceMembers ==
  ASSUME Calm, Calm', NextSlice
  PROVE  Unmoved
<1>1. /\ \A n \in Node : Belongs(n)' <=> Belongs(n)
      /\ \A n \in Node : Members(view[n])' = Members(view[n])
      /\ ran' = {} /\ (slice = "MEMBERSHIP" => AllRan)
  BY SlicedFacts DEF Members
<1>2. Undecided = {}
  <2>1. ASSUME NEW n \in Undecided
        PROVE  FALSE
    <3>1. n \in Node /\ Belongs(n) /\ slice = "MEMBERSHIP" /\ n \notin ran
      BY UndecidedMembers DEF Undecided
    <3> QED
      BY <1>1, <3>1 DEF AllRan, Calm, Grown, Belongs, Sends
  <2> QED
    BY <2>1
<1>3. ASSUME NEW n \in Node, Belongs(n)
      PROVE  Votes(n) /\ Votes(n)'
  <2>1. Votes(n)
    BY <1>2, <1>3 DEF Votes
  <2>2. n \in Undecided' \/ Undecided' = {}
    <3>1. CASE slice' = "MEMBERSHIP"
      BY <1>1, <1>3, <3>1, UndecidedNext
    <3>2. CASE slice' # "MEMBERSHIP"
      BY <3>2 DEF Undecided
    <3> QED
      BY <3>1, <3>2
  <2> QED
    BY <1>1, <1>3, <2>1, <2>2 DEF Votes
<1> QED
  BY <1>1, <1>3 DEF Unmoved

\* Outside of MEMBERSHIP slices every member votes.
LEMMA AllVote ==
  ASSUME NEW n \in Node, Belongs(n), slice # "MEMBERSHIP"
  PROVE  Votes(n)
BY DEF Votes, Undecided

LEMMA AllVoteNext ==
  ASSUME NEW n \in Node, Belongs(n)', slice' # "MEMBERSHIP"
  PROVE  Votes(n)'
BY DEF Votes, Undecided

\* A broadcast, heard or not, changes nobody's membership.
LEMMA SendMembers ==
  ASSUME Calm, NEW n \in Node, Broadcasts(n) \/ StaysSilent(n) \/ Hears(n) \/ HearsNothing(n)
  PROVE  Unmoved
<1>0. /\ Runs(n) /\ slice = "SEND" /\ slice' = "SEND" /\ turn \in Node /\ TypeOK
      /\ view[n].stage \in [Node -> Stage] /\ Handles(n)
  BY DEF Broadcasts, StaysSilent, Hears, HearsNothing, Runs, Calm, TypeOK, View, Handles
<1>1. ASSUME NEW i \in Node
      PROVE  Belongs(i)' <=> Belongs(i)
  <2>1. ~Enters(n)
    BY <1>0 DEF Enters
  <2> QED
    BY <1>0, <2>1, StandsHandled DEF Belongs
<1>2. ASSUME NEW i \in Node, Belongs(i)
      PROVE  Members(view[i])' = Members(view[i])
  <2>1. CASE i # n
    BY <1>0, <2>1 DEF Runs, Members
  <2>2. CASE i = n
    <3> SUFFICES ASSUME NEW j \in Node
                 PROVE  view'[n].stage[j] = "MEMBER" <=> view[n].stage[j] = "MEMBER"
      BY <2>2 DEF Members
    <3>1. CASE Broadcasts(n)
      BY <1>0, <1>2, <2>2, <3>1 DEF Broadcasts, Belongs, Stands
    <3>2. CASE StaysSilent(n)
      BY <3>2 DEF StaysSilent
    <3>3. CASE Hears(n)
      BY <1>0, <1>2, <2>2, <3>3 DEF Hears
    <3>4. CASE HearsNothing(n)
      BY <3>4 DEF HearsNothing
    <3> QED
      BY <3>1, <3>2, <3>3, <3>4
  <2> QED
    BY <2>1, <2>2
<1>3. ASSUME NEW i \in Node, Belongs(i)
      PROVE  Votes(i) /\ Votes(i)'
  BY <1>0, <1>1, <1>3, AllVote, AllVoteNext
<1>4. CASE \E i \in Node : Belongs(i)
  BY <1>2, <1>3, <1>4 DEF Unmoved
<1>5. CASE ~\E i \in Node : Belongs(i)
  <2>1. \A i \in Node : ~Belongs(i) /\ ~Belongs(i)'
    BY <1>1, <1>5
  <2> QED
    BY <2>1 DEF Unmoved
<1> QED
  BY <1>4, <1>5, Zenon

\* Only n is not undecided any more after its step.
LEMMA UndecidedHandled ==
  ASSUME Calm, Calm', NEW n \in Node, Runs(n), slice = "MEMBERSHIP", NEW i \in Node
  PROVE  i \in Undecided' <=> i \in Undecided /\ i # n
<1>1. slice' = slice /\ (i \in ran' <=> i \in ran \/ i = n)
  BY DEF Runs
<1>2. i # n => (Belongs(i)' <=> Belongs(i))
  BY DEF Runs, Belongs, Stands
<1> QED
  BY <1>1, <1>2, UndecidedMembers, UndecidedNext

LEMMA OthersVote ==
  ASSUME Calm, Calm', NEW n \in Node, Runs(n), slice = "MEMBERSHIP",
         NEW m \in Undecided, m # n
  PROVE  Unmoved
<1>1. m \in Node /\ m \in Undecided'
  BY UndecidedHandled DEF Undecided
<1>2. Belongs(m) /\ Belongs(m)' /\ view'[m] = view[m]
  BY <1>1, UndecidedMembers, UndecidedNext DEF Runs
<1> QED
  BY <1>1, <1>2 DEF Votes, Unmoved, Members

LEMMA PassMembers ==
  ASSUME Calm, Calm', NEW n \in Node, Passes(n)
  PROVE  Unmoved
<1>0. /\ Runs(n) /\ slice = "MEMBERSHIP" /\ view'[n].stage = view[n].stage
  BY DEF Passes, Steady
<1>1. ASSUME NEW i \in Node
      PROVE  (Belongs(i)' <=> Belongs(i)) /\ Members(view[i])' = Members(view[i])
  BY <1>0 DEF Runs, Members, Belongs, Stands
<1>2. CASE \E m \in Undecided : m # n
  BY <1>0, <1>2, OthersVote
<1>3. CASE Undecided \subseteq {n}
  <2>1. Undecided' = {}
    <3>1. \A i \in Node : i \in Undecided' <=> i \in Undecided /\ i # n
      BY <1>0, <1>1, UndecidedHandled
    <3>2. Undecided' \subseteq Node
      BY DEF Undecided
    <3> QED
      BY <1>3, <3>1, <3>2
  <2>2. ASSUME NEW m \in Node, Votes(m)
        PROVE  Votes(m)'
    BY <1>1, <2>1, <2>2 DEF Votes
  <2> QED
    BY <1>1, <2>2, SomeoneVotes DEF Unmoved
<1> QED
  BY <1>2, <1>3

\* One member after the other admits the sender; the last one changes the
\* common view.
LEMMA AdmitMembers ==
  ASSUME Calm, Calm', OneView, OneView', NEW n \in Node, Enters(n), turn # n
  PROVE  Unmoved \/ MembershipChange
<1>0. /\ Runs(n) /\ slice = "MEMBERSHIP" /\ Admits(n) /\ turn \in Node /\ Belongs(n)
      /\ view[n].stage \in [Node -> Stage] /\ n \notin ran
      /\ view'[n].stage = [view[n].stage EXCEPT ![turn] = "MEMBER"]
  BY DEF Enters, Admits, Runs, Belongs, Stands, Calm, TypeOK, View
<1>1. Belongs(n)'
  BY <1>0 DEF Belongs, Stands
<1>2. CASE \E m \in Undecided : m # n
  BY <1>0, <1>2, OthersVote
<1>3. CASE Undecided \subseteq {n}
  <2>1. Undecided' = {}
    <3>1. \A i \in Node : i \in Undecided' <=> i \in Undecided /\ i # n
      BY <1>0, <1>1, UndecidedHandled
    <3>2. Undecided' \subseteq Node
      BY DEF Undecided
    <3> QED
      BY <1>3, <3>1, <3>2
  <2>2. Votes(n) /\ Votes(n)'
    BY <1>0, <1>1, <2>1, UndecidedMembers DEF Votes
  <2>3. Members(view[n])' = Members(view[n]) \cup {turn}
    BY <1>0 DEF Members
  <2>4. CommonViews = {Members(view[n])} /\ CommonViews' = {Members(view[n])'}
    BY <2>2 DEF OneView
  <2>5. MS!Admit(turn)
    BY <2>3, <2>4 DEF MS!Admit
  <2> QED
    BY <1>0, <2>5 DEF MembershipChange
<1> QED
  BY <1>2, <1>3

\* The sender enters before or after the members admit it; if there are none
\* it is the membership.
LEMMA EnterMembers ==
  ASSUME Calm, Calm', Known, OneView, OneView', NEW n \in Node, Enters(n), turn = n
  PROVE  Unmoved \/ MembershipChange
<1>0. /\ Runs(n) /\ slice = "MEMBERSHIP" /\ TypeOK /\ Handles(n)
      /\ view[n].stage \in [Node -> Stage]
      /\ view'[n].stage = [view[n].stage EXCEPT ![turn] = "MEMBER"]
  BY DEF Enters, Handles, Calm, TypeOK, View
<1>1. ~Belongs(n) /\ Belongs(n)'
  BY <1>0, StandsHandled DEF Belongs
<1>2. \A i \in Node : i \in Undecided' <=> i \in Undecided
  BY <1>0, <1>1, UndecidedHandled, UndecidedMembers
<1>3. Undecided' = Undecided
  <2>1. Undecided \subseteq Node /\ Undecided' \subseteq Node
    BY DEF Undecided
  <2> QED
    BY <1>2, <2>1
<1>4. CASE \E m \in Node : Belongs(m)
  <2>1. PICK m \in Node : Votes(m)
    BY <1>4, SomeoneVotes
  <2>2. m # n /\ view'[m] = view[m]
    BY <1>0, <1>1, <2>1 DEF Votes, Runs
  <2>3. Votes(m)'
    BY <1>3, <2>1, <2>2 DEF Votes, Belongs, Stands
  <2> QED
    BY <2>1, <2>2, <2>3 DEF Unmoved, Members
<1>5. CASE \A m \in Node : ~Belongs(m)
  <2>1. Undecided = {}
    BY <1>5, UndecidedMembers DEF Undecided
  <2>2. Votes(n)'
    BY <1>1, <1>3, <2>1 DEF Votes
  <2>3. CommonViews = {} /\ CommonViews' = {Members(view[n])'}
    BY <1>5, <2>2 DEF OneView
  <2>4. Members(view[n])' = {n}
    <3>1. \A i \in Node : view[n].stage[i] # "MEMBER"
      BY <1>5 DEF Known, NoGhosts, Joins
    <3> QED
      BY <1>0, <3>1 DEF Members
  <2>5. MS!Establish(n)
    BY <2>3, <2>4 DEF MS!Establish
  <2> QED
    BY <2>5 DEF MembershipChange
<1> QED
  BY <1>4, <1>5

LEMMA MembershipStutters ==
  ASSUME Calm, Calm', UNCHANGED vars
  PROVE  Unmoved
BY SameVoters DEF vars, proc, clock

-----------------------------------------------------------------------------
(* What follows                                                             *)

LEMMA NobodyEndsStep ==
  ASSUME Spared, FreeInv, [Next]_vars, NEW n \in Node
  PROVE  up[n] => up'[n]
<1>1. ASSUME NEW m \in Node, Handles(m)
      PROVE  up' = up
  BY <1>1, HandledRuns DEF Runs
<1>2. ASSUME NEW m \in Node, Start(m)
      PROVE  up[n] => up'[n]
  <2>1. up \in [Node -> BOOLEAN]
    BY DEF FreeInv, Inv, Calm, TypeOK
  <2> QED
    BY <1>2, <2>1 DEF Start
<1>3. NextSlice \/ UNCHANGED vars => up' = up
  BY DEF NextSlice, vars, proc
<1> QED
  BY <1>1, <1>2, <1>3, FreeSteps

LEMMA FreeCounts == FreeInv => CountIsExact
BY DEF FreeInv, Inv, Counts, CountIsExact

LEMMA FreeAgreement == FreeInv => UniformAgreement
<1> SUFFICES ASSUME FreeInv, Decided, latest[turn] # Empty,
                    NEW n \in Node, NEW m \in Node,
                    latest[turn] \in Delivered(n), Correct(m)
             PROVE  latest[turn] \in Delivered(m)
  BY DEF UniformAgreement
<1>1. /\ Calm /\ Known /\ SameStep /\ Counts /\ Lined /\ Deliverers /\ OwnLines
      /\ slice = "MEMBERSHIP" /\ turn \in Node
  BY DEF FreeInv, Inv, Calm, TypeOK, ValidityInv, Decided
<1>2. Belongs(n) /\ view[n].count >= MIN_MEMBERS
  BY <1>1 DEF Deliverers
<1>3. Belongs(m) /\ up[m] /\ m \in ran /\ m \notin faulty
  BY <1>1, CorrectMembers DEF Decided, AllRan, Correct, IsMember
<1>4. n \in ran
  BY <1>1, <1>2 DEF Belongs, Sends, Calm, Grown, Decided, AllRan
<1>5. Members(view[n]) = Members(view[m])
  BY <1>1, <1>2, <1>3, <1>4, SameViews
<1>6. ~(view[m].count < MIN_MEMBERS)
  <2>1. view[m].count = view[n].count /\ view[n].count \in Nat
    BY <1>1, <1>5, MembersFinite DEF Counts
  <2> QED
    BY <1>2, <2>1, NodeFacts
<1>7. CASE m = turn
  BY <1>1, <1>3, <1>6, <1>7 DEF OwnLines, OwnLine, IsMember, Belongs, Stands
<1>8. CASE m # turn
  <2>1. up[m] /\ age[m] > Since(turn)
    BY <1>1, <1>3, <1>8, SendersHeard DEF Belongs, Sends
  <2>2. LineKept(m, turn)
    BY <1>1, <1>8, <2>1 DEF Lined
  <2> QED
    BY <1>1, <1>3, <1>6, <2>2 DEF LineKept
<1> QED
  BY <1>7, <1>8

\* Every step that changes the common view admits one node or founds the
\* membership.
LEMMA ViewsGrow ==
  ASSUME Spared, FreeInv, FreeInv', OneView, OneView', [Next]_vars
  PROVE  UNCHANGED CommonViews \/ MembershipChange
<1>1. Calm /\ Calm' /\ Known
  BY DEF FreeInv, Inv
<1>2. ASSUME NEW n \in Node, Handles(n)
      PROVE  Unmoved \/ MembershipChange
  BY <1>1, <1>2, AdmitMembers, EnterMembers, PassMembers, SendMembers DEF Handles
<1>3. ASSUME NEW n \in Node, Start(n)
      PROVE  Unmoved
  BY <1>1, <1>3, StartMembers
<1>4. NextSlice \/ UNCHANGED vars => Unmoved
  BY <1>1, SliceMembers, MembershipStutters
<1>5. Unmoved \/ MembershipChange
  BY <1>2, <1>3, <1>4, FreeSteps
<1> QED
  BY <1>5, UnmovedViews

LEMMA NoViews == Init => MS!Init
<1> SUFFICES ASSUME Init
             PROVE  MS!Init
  OBVIOUS
<1>1. FreeInv /\ OneView
  BY InitFree, FreeOneView
<1>2. \A n \in Node : ~Belongs(n)
  BY DEF Init, Belongs, Stands, InitView
<1>3. CommonViews = {}
  BY <1>1, <1>2 DEF OneView
<1> QED
  BY <1>3 DEF MS!Init

-----------------------------------------------------------------------------
(* Theorems                                                                 *)

\* When nothing fails no process ever ends: neither handle_suspicion nor
\* membership_decision nor enter_membership makes a working process shut down.
THEOREM NobodyEnds ==
  ASSUME FaultFree
  PROVE  Spec => OnlyFaultyEnd
<1>1. FreeInv /\ [Next]_vars =>
        [\A n \in Node : up[n] /\ ~up'[n] => n \in faulty']_vars
  BY FreeSpared, NobodyEndsStep DEF FreeInv, Inv, Calm
<1>2. Spec => []FreeInv
  BY FreeInvariant
<1> QED
  BY <1>1, <1>2, PTL DEF Spec, OnlyFaultyEnd

\* memb_count is right in every process: the increments of enter_membership and
\* receive_operation and the decrement of remove_membership never miss a member.
THEOREM CountsMembers ==
  ASSUME FaultFree
  PROVE  Spec => []CountIsExact
<1>1. Spec => []FreeInv
  BY FreeInvariant
<1> QED
  BY <1>1, FreeCounts, PTL

\* What one node delivers every member delivers, once all have decided
\* (membership_decision, deliver_message).
THEOREM AllDeliver ==
  ASSUME FaultFree
  PROVE  Spec => []UniformAgreement
<1>1. Spec => []FreeInv
  BY FreeInvariant
<1> QED
  BY <1>1, FreeAgreement, PTL

\* All members see the same membership at any time, from the first process that
\* enters to that of all nodes: it changes by one node at a time, the same one
\* for every member, and loses no member (enter_membership,
\* membership_decision, receive_operation).
THEOREM OneMembership ==
  ASSUME FaultFree
  PROVE  Spec => ImplementsMembership
<1>1. FreeInv /\ FreeInv' /\ OneView /\ OneView' /\ [Next]_vars
        => [MS!Next]_(MS!vars)
  BY FreeSpared, ViewsGrow DEF FreeInv, Inv, Calm, MS!Next, MembershipChange
<1>2. Spec => []FreeInv
  BY FreeInvariant
<1> QED
  BY <1>1, <1>2, NoViews, FreeOneView, PTL DEF Spec, ImplementsMembership, MS!Spec

\* As long as nothing fails the abstract service only founds and extends the
\* membership: no member that works is ever removed, at any node
\* (remove_membership).
THEOREM NobodyRemoved ==
  ASSUME FaultFree
  PROVE  Spec => [][UNCHANGED CommonViews \/ MembershipChange]_vars
<1>1. FreeInv /\ FreeInv' /\ OneView /\ OneView' /\ [Next]_vars
        => UNCHANGED CommonViews \/ MembershipChange
  BY FreeSpared, ViewsGrow DEF FreeInv, Inv, Calm
<1>2. Spec => []FreeInv
  BY FreeInvariant
<1> QED
  BY <1>1, <1>2, FreeOneView, PTL DEF Spec
===============================================================================
