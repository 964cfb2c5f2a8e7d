------------------------ MODULE FaultToleranceProofs ------------------------
(***************************************************************************)
(* Theorems about TimeAwareTOB under the fault hypothesis of the protocol: *)
(* after all processes have joined, nodes crash, broadcasts are lost for   *)
(* everybody or for one receiver, any number of times, but the next        *)
(* failure comes no sooner than two cycles and a turn after the last one.  *)
(***************************************************************************)
EXTENDS FaultFreeProofs

\* The fault hypothesis, as far as it concerns the constants: the failures of
\* failures.c other than a node that stops for a while, and no failure before
\* the members had the time to recognise the last one and remove its node.
OneAtATime ==
  /\ FaultKinds \subseteq {"CRASH_FAILURE", "SENDER_OMISSION", "RECEIVER_OMISSION"}
  /\ Spacing >= 2 * AMOUNT_NODES + 1

\* All running processes are members in each other's views, and none is started
\* later.
Joined ==
  /\ \A n \in Node : starts[n] = 0
  /\ \A n, m \in Node : up[n] /\ up[m] => view[n].stage[m] = "MEMBER"

\* The fault hypothesis, as far as it concerns the behaviour: the first failure
\* comes when everybody has joined; how joining itself goes is FaultFreeProofs'.
FailsLate == [][faults = MaxFaults /\ faults' # faults => Joined]_vars

-----------------------------------------------------------------------------
(* The membership and its trouble                                           *)

\* What is wrong with the members, the nodes in group, if anything:
\*   FINE      nothing;
\*   DOOMED    node has crashed, its last message is still to be decided about;
\*   MUTE      nobody has heard the last message of node;
\*   DEAF      node has not heard the last message of other;
\*   REPORTED  node has since heard other, but the others still have its report;
\*   FROZEN    there are too few members to decide anything.
Trouble ==
  [ group : SUBSET Node,
    kind  : {"FINE", "DOOMED", "MUTE", "DEAF", "REPORTED", "FROZEN"},
    node  : Node,
    other : Node ]

\* The member before i on the ring of the nodes in group.
Prev(group, i) ==
  GetPrevMember([stage |-> [j \in Node |-> IF j \in group THEN "MEMBER" ELSE "INACTIVE"]], i)

\* i has missed a message of j, ...
Lost(T, i, j) ==
  \/ T.kind = "MUTE" /\ j = T.node /\ i # j
  \/ T.kind \in {"DEAF", "REPORTED"} /\ i = T.node /\ j = T.other

\* ... the last one of j, ...
Misses(T, i, j) == Lost(T, i, j) /\ T.kind # "REPORTED"

\* ... and has said so in its own last message.
Reports(T, i, j) == Lost(T, i, j) /\ (Since(i) < Since(j) \/ T.kind = "REPORTED")

\* n knows what the last message of i said, or that it was lost.
Settled(T, n, i) == up[n] /\ i \in T.group /\ i # n /\ ~Listening(n, i)

Deciding(i) == slice = "MEMBERSHIP" /\ turn = i

\* In the next MEMBERSHIP slice of T.node everybody removes it.
Leaving(T) ==
  \/ T.kind = "MUTE"
  \/ T.kind = "REPORTED" /\ T.other = Prev(T.group, T.node)

Purged(T, n) == Leaving(T) /\ Deciding(T.node) /\ n \in ran

GroupOf(T, n) == IF Purged(T, n) THEN T.group \ {T.node} ELSE T.group

-----------------------------------------------------------------------------
(* The invariant                                                            *)

Quiet == late = {} /\ \A n \in Node : starts[n] = 0 /\ asleep[n] = 0

\* Who is up, how many there are, and which of them have failed: when no
\* receiver does, only a sender that nobody hears.
Present(T) ==
  /\ \A n \in Node : up[n] => n \in T.group
  /\ \A n \in T.group : up[n] \/ n \in faulty
  /\ T.kind = "FROZEN" <=> Cardinality(T.group) < MIN_MEMBERS
  /\ \A n \in T.group : \/ up[n] \/ T.kind = "FROZEN"
                        \/ T.kind \in {"DOOMED", "MUTE"} /\ n = T.node
                        \/ Purged(T, n) /\ n = T.node
  /\ T.kind \notin {"FINE", "FROZEN"} => T.node \in T.group \cap faulty
  /\ T.kind \in {"DEAF", "REPORTED"} => T.other \in T.group \ {T.node}
  /\ T.kind = "DOOMED" => ~up[T.node]
  /\ Purged(T, T.node) => ~up[T.node]
  /\ T.kind \in {"DEAF", "REPORTED"} => "RECEIVER_OMISSION" \in FaultKinds
  /\ T.kind # "FROZEN" /\ "RECEIVER_OMISSION" \notin FaultKinds =>
       \A n \in faulty : up[n] => T.kind = "MUTE" /\ n = T.node

\* When the trouble is over, long before the next failure.
Phase(T) ==
  /\ T.kind = "DOOMED" => /\ calm + Wait(T.node) <= AMOUNT_NODES
                          /\ slice = "SEND" /\ turn = T.node => turn \in ran
  /\ T.kind = "MUTE" => /\ calm + Wait(T.node) <= 2 * AMOUNT_NODES
                        /\ slice = "SEND" /\ turn = T.node => turn \in ran \/ ~up[turn]
  /\ T.kind = "DEAF" => /\ calm + Wait(T.other) <= AMOUNT_NODES
                        /\ slice = "SEND" /\ turn = T.other => turn \in ran
  /\ T.kind = "REPORTED" => /\ calm + Wait(T.node) < 2 * AMOUNT_NODES
                            /\ Since(T.other) < Since(T.node)

\* Nobody sees other members.
Sees(T, n) ==
  /\ Members(view[n]) = GroupOf(T, n)
  /\ view[n].count = Cardinality(GroupOf(T, n))
  /\ \A i \in Node : view[n].stage[i] # "ACTIVE"

Seen(T) == \A n \in Node : up[n] => Sees(T, n)

Sources(T) ==
  slice = "SEND" => \A n \in Node : \A k \in FromSender(n) : turn \in T.group \cap ran

\* Nobody has delivered the line of a sender that is about to be removed.
Withheld(T) ==
  Deciding(turn) /\ (T.kind = "FROZEN" \/ (T.kind = "MUTE" /\ turn = T.node)) =>
    latest[turn] = Empty \/ \A n \in Node : latest[turn] \notin Delivered(n)

Standing(T) == Quiet /\ Present(T) /\ Phase(T) /\ Seen(T) /\ Sources(T) /\ Withheld(T)

\* The rest is about memberships that are not frozen.
InOrder(T) ==
  slice = "SEND" /\ up[turn] /\ turn \notin ran => \A n \in Node : up[n] => n \notin ran

OwnVector(T, n) ==
  \A i \in Node : Settled(T, n, i) =>
    view[n].vv[n][i] = IF Misses(T, n, i) THEN "NOT_RECEIVED" ELSE "RECEIVED"

Reported(T, n, i, j) ==
  IF Misses(T, n, i) THEN "NO_INFO"
  ELSE IF Reports(T, i, j) THEN "NOT_RECEIVED" ELSE "RECEIVED"

OtherVectors(T, n) ==
  \A i \in Node : Settled(T, n, i) =>
    \A j \in T.group \ {i} : view[n].vv[i][j] = Reported(T, n, i, j)

\* n takes i for suspicious.
Suspects(T, n, i) ==
  LET prev == Prev(T.group, i)
  IN  /\ Lost(T, i, prev) /\ ~Purged(T, n)
      /\ IF n = i THEN Reports(T, i, prev) \/ (Deciding(i) /\ i \in ran)
                  ELSE Reports(T, i, prev) /\ ~Listening(n, i)

\* The one that has missed the message of other suspects it, until its next
\* message.
Estranged(T, n, i) ==
  /\ n = T.node /\ i = T.other
  /\ \/ T.kind = "DEAF" /\ Deciding(i) /\ n \in ran
     \/ T.kind = "REPORTED" /\ Listening(n, i)

Suspicions(T, n) ==
  \A i \in GroupOf(T, n) : up[n] /\ ~Estranged(T, n, i) =>
    /\ view[n].sus[i].flag <=> Suspects(T, n, i)
    /\ view[n].sus[i].flag => view[n].sus[i].trigger = Prev(T.group, i)

\* What a message of this turn's sender says.
Says(T, msg) ==
  /\ \A j \in T.group \ {turn} : j \in msg.vector <=> ~Reports(T, turn, j)
  /\ LET prev == Prev(T.group, turn)
     IN  /\ msg.sus.flag <=> Reports(T, turn, prev)
         /\ msg.sus.flag => msg.sus.trigger = prev
  /\ msg.body = latest[turn]

Mailbox(T, n) ==
  /\ \A k \in FromSender(n) : ~Misses(T, n, turn) /\ Says(T, sock[n][k])
  /\ /\ up[n] /\ n \notin ran /\ n # turn /\ turn \in T.group
     /\ turn \in ran \/ ~up[turn]
     /\ ~Misses(T, n, turn)
     => FromSender(n) # {}

Mailboxes(T) == slice = "SEND" => \A n \in Node : Mailbox(T, n)

LineOf(T, n, i) ==
  IF Deciding(i) /\ n \in ran
  THEN latest[i] = Empty \/ latest[i] \in Delivered(n)
  ELSE view[n].last[i] = latest[i]

LinesOf(T, n) ==
  \A i \in Node : Settled(T, n, i) /\ ~Misses(T, n, i) => LineOf(T, n, i)

Knows(T, n) ==
  OwnVector(T, n) /\ OtherVectors(T, n) /\ Suspicions(T, n) /\ LinesOf(T, n)

Senders(T) == \A i \in Node : latest[i] # Empty => i \in T.group

Knowing(T) ==
  InOrder(T) /\ Mailboxes(T) /\ Senders(T) /\ \A n \in Node : Knows(T, n)

Tolerates(T) == Standing(T) /\ (T.kind # "FROZEN" => Knowing(T))

Tolerant == \E T \in Trouble : Tolerates(T)

-----------------------------------------------------------------------------
(* The ring of members                                                      *)

LEMMA PrevOf ==
  ASSUME NEW v, NEW group \in SUBSET Node, Members(v) = group, NEW i
  PROVE  GetPrevMember(v, i) = Prev(group, i)
<1> DEFINE w == [stage |-> [j \in Node |-> IF j \in group THEN "MEMBER" ELSE "INACTIVE"]]
<1>1. Members(w) = group
  BY DEF Members
<1> HIDE DEF w
<1>2. GetPrevMember(v, i) = GetPrevMember(w, i)
  BY <1>1 DEF GetPrevMember, Nearest
<1> QED
  BY <1>2 DEF Prev, w

LEMMA PrevIn ==
  ASSUME NEW group \in SUBSET Node, NEW i \in Node, Cardinality(group) >= 2
  PROVE  Prev(group, i) \in group \ {i}
<1> DEFINE w == [stage |-> [j \in Node |-> IF j \in group THEN "MEMBER" ELSE "INACTIVE"]]
<1>1. Members(w) = group
  BY DEF Members
<1> HIDE DEF w
<1>2. Members(w) \ {i} # {}
  BY <1>1, AnotherMember
<1>3. GetPrevMember(w, i) \in Members(w) \ {i}
  BY <1>2, PrevMember
<1> QED
  BY <1>1, <1>3 DEF Prev, w

\* The nodes d places before and after i on the ring.
Back(i, d)  == IF d <= i THEN i - d ELSE i - d + AMOUNT_NODES
Ahead(i, d) == IF i + d < AMOUNT_NODES THEN i + d ELSE i + d - AMOUNT_NODES

LEMMA RingPlaces ==
  ASSUME NEW i \in Node, NEW d \in 1..(AMOUNT_NODES - 1)
  PROVE  /\ (i + AMOUNT_NODES - d) % AMOUNT_NODES = Back(i, d)
         /\ (i + d) % AMOUNT_NODES = Ahead(i, d)
         /\ Back(i, d) # i /\ Ahead(i, d) # i
<1>1. /\ i \in Int /\ 0 <= i /\ i < AMOUNT_NODES
      /\ AMOUNT_NODES \in Int /\ AMOUNT_NODES >= 3
      /\ d \in Int /\ 1 <= d /\ d < AMOUNT_NODES
  BY NodeFacts
<1>2. PICK x \in Int : x = i + AMOUNT_NODES - d
  BY <1>1
<1>3. x \in 0..(2 * AMOUNT_NODES - 1)
  BY <1>1, <1>2
<1>4. x % AMOUNT_NODES = IF x < AMOUNT_NODES THEN x ELSE x - AMOUNT_NODES
  BY <1>3, RingPosition
<1>5. x % AMOUNT_NODES = Back(i, d)
  <2>1. /\ x < AMOUNT_NODES <=> ~(d <= i)
        /\ x = i - d + AMOUNT_NODES /\ x - AMOUNT_NODES = i - d
    BY <1>1, <1>2
  <2> QED
    BY <1>4, <2>1 DEF Back
<1>6. PICK y \in Int : y = i + d
  BY <1>1
<1>7. y \in 0..(2 * AMOUNT_NODES - 1)
  BY <1>1, <1>6
<1>8. y % AMOUNT_NODES = IF y < AMOUNT_NODES THEN y ELSE y - AMOUNT_NODES
  BY <1>7, RingPosition
<1>9. y % AMOUNT_NODES = Ahead(i, d)
  <2>1. y < AMOUNT_NODES <=> i + d < AMOUNT_NODES
    BY <1>6
  <2> QED
    BY <1>1, <1>6, <1>8, <2>1 DEF Ahead
<1>10. Back(i, d) # i /\ Ahead(i, d) # i
  BY <1>1 DEF Back, Ahead
<1> QED
  BY <1>2, <1>5, <1>6, <1>9, <1>10

LEMMA PrevPlace ==
  ASSUME NEW group \in SUBSET Node, NEW i \in Node, group \ {i} # {}
  PROVE  \E d \in 1..(AMOUNT_NODES - 1) :
           /\ Prev(group, i) = Back(i, d) /\ Back(i, d) \in group
           /\ \A e \in 1..(AMOUNT_NODES - 1) : Back(i, e) \in group => d <= e
<1> DEFINE w == [stage |-> [j \in Node |-> IF j \in group THEN "MEMBER" ELSE "INACTIVE"]]
           at == [d \in 1..(AMOUNT_NODES - 1) |-> (i + AMOUNT_NODES - d) % AMOUNT_NODES]
           distances == {d \in 1..(AMOUNT_NODES - 1) : at[d] \in Members(w)}
<1>1. Members(w) = group
  BY DEF Members
<1> HIDE DEF w
<1>2. \A d \in 1..(AMOUNT_NODES - 1) : at[d] = Back(i, d)
  BY RingPlaces
<1>3. Prev(group, i) = IF distances = {} THEN i
                       ELSE at[CHOOSE d \in distances : \A e \in distances : d <= e]
  BY DEF Prev, GetPrevMember, Nearest, w
<1>4. Prev(group, i) # i
  BY <1>1, PrevMember DEF Prev, w
<1>5. distances # {} /\ distances \subseteq 1..(AMOUNT_NODES - 1)
  BY <1>3, <1>4
<1>6. \E d \in distances : \A e \in distances : d <= e
  BY <1>5, SmallestDistance
<1> DEFINE near == CHOOSE d \in distances : \A e \in distances : d <= e
<1>7. near \in distances /\ \A e \in distances : near <= e
  BY <1>6
<1>8. Prev(group, i) = at[near]
  BY <1>3, <1>5
<1> HIDE DEF near, at
<1> QED
  BY <1>1, <1>2, <1>7, <1>8

\* Whose predecessor is j is the successor of j.
LEMMA NextOf ==
  ASSUME NEW v, NEW group \in SUBSET Node, Members(v) = group,
         NEW i \in group, NEW j \in group, i # j, Prev(group, i) = j
  PROVE  GetNextMember(v, j) = i
<1> DEFINE at == [d \in 1..(AMOUNT_NODES - 1) |-> (j + d) % AMOUNT_NODES]
           distances == {d \in 1..(AMOUNT_NODES - 1) : at[d] \in group}
<1>0. i \in Node /\ j \in Node /\ group \ {i} # {}
  OBVIOUS
<1>1. /\ i \in Int /\ 0 <= i /\ i < AMOUNT_NODES
      /\ j \in Int /\ 0 <= j /\ j < AMOUNT_NODES
      /\ AMOUNT_NODES \in Int /\ AMOUNT_NODES >= 3
  BY <1>0, NodeFacts
<1>2. PICK d \in 1..(AMOUNT_NODES - 1) :
        /\ j = Back(i, d)
        /\ \A e \in 1..(AMOUNT_NODES - 1) : Back(i, e) \in group => d <= e
  BY <1>0, PrevPlace
<1>3. \A e \in 1..(AMOUNT_NODES - 1) : at[e] = Ahead(j, e)
  BY <1>0, RingPlaces
<1> HIDE DEF at
<1>4. d \in distances /\ at[d] = i
  <2>1. Ahead(j, d) = i
    BY <1>1, <1>2 DEF Ahead, Back
  <2> QED
    BY <1>3, <2>1
<1>5. ASSUME NEW e \in distances
      PROVE  d <= e
  <2> SUFFICES ASSUME ~(d <= e)
               PROVE  FALSE
    OBVIOUS
  <2>1. e \in Int /\ 1 <= e /\ e < d /\ d < AMOUNT_NODES /\ d \in Int
    BY <1>1
  <2>2. PICK b \in 1..(AMOUNT_NODES - 1) : b = d - e
    BY <1>1, <2>1
  <2>3. Back(i, b) = Ahead(j, e)
    BY <1>1, <1>2, <2>1, <2>2 DEF Ahead, Back
  <2>4. Back(i, b) \in group
    BY <1>3, <2>3
  <2>5. d <= b
    BY <1>2, <2>4
  <2> QED
    BY <2>1, <2>2, <2>5
<1>6. (CHOOSE x \in distances : \A e \in distances : x <= e) = d
  <2> DEFINE c == CHOOSE x \in distances : \A e \in distances : x <= e
  <2>1. c \in distances /\ \A e \in distances : c <= e
    BY <1>4, <1>5
  <2> HIDE DEF c
  <2>2. c \in Int /\ d \in Int /\ c <= d /\ d <= c
    BY <1>1, <1>4, <1>5, <2>1
  <2>3. c = d
    BY <2>2
  <2> QED
    BY <2>3 DEF c
<1>7. GetNextMember(v, j) = at[CHOOSE x \in distances : \A e \in distances : x <= e]
  BY <1>4 DEF GetNextMember, Nearest, at
<1> QED
  BY <1>4, <1>6, <1>7

\* A node that has left has the predecessor it had.
LEMMA PrevWithout ==
  ASSUME NEW group \in SUBSET Node, NEW i \in Node
  PROVE  Prev(group \ {i}, i) = Prev(group, i)
<1> DEFINE w(g) == [stage |-> [j \in Node |-> IF j \in g THEN "MEMBER" ELSE "INACTIVE"]]
           at == [d \in 1..(AMOUNT_NODES - 1) |-> (i + AMOUNT_NODES - d) % AMOUNT_NODES]
<1>1. Members(w(group)) = group /\ Members(w(group \ {i})) = group \ {i}
  BY DEF Members
<1>2. \A d \in 1..(AMOUNT_NODES - 1) : at[d] # i
  BY RingPlaces
<1> HIDE DEF w
<1>3. Nearest(w(group), i, at) = Nearest(w(group \ {i}), i, at)
  <2> HIDE DEF at
  <2> DEFINE near(set) == IF set = {} THEN i
                          ELSE at[CHOOSE d \in set : \A e \in set : d <= e]
  <2>1. {d \in 1..(AMOUNT_NODES - 1) : at[d] \in Members(w(group))} =
        {d \in 1..(AMOUNT_NODES - 1) : at[d] \in Members(w(group \ {i}))}
    BY <1>1, <1>2
  <2>2. \A v : Nearest(v, i, at) = near({d \in 1..(AMOUNT_NODES - 1) : at[d] \in Members(v)})
    BY DEF Nearest
  <2> QED
    BY <2>1, <2>2, Zenon
<1> QED
  BY <1>3 DEF Prev, GetPrevMember, w

-----------------------------------------------------------------------------
(* Decisions                                                                *)

LEMMA HeardPredecessor ==
  ASSUME NEW v, NEW t, PrevReceived(v, t)
  PROVE  CheckReceiverOmission(v, t) /\ EnterSuspicion(v, t) = v
<1>1. ASSUME NEW p, NEW q
      PROVE  ~(CompareVV(v, p, q) < 0)
  <2>1. PICK a \in Int : a = -1
    OBVIOUS
  <2>2. CompareVV(v, p, q) \in {a % 256, 0}
    BY <2>1 DEF CompareVV
  <2>3. a % 256 >= 0
    OBVIOUS
  <2> QED
    BY <2>2, <2>3
<1> QED
  BY <1>1 DEF CheckReceiverOmission, EnterSuspicion

\* v with t in suspicious mode
Doubting(v, t) ==
  [v EXCEPT !.sus[t] = [flag |-> TRUE, trigger |-> GetPrevMember(v, t)]]

LEMMA MissedPredecessor ==
  ASSUME NEW v, NEW t, ~PrevReceived(v, t), ~MissedAnotherMember(v, t)
  PROVE  CheckReceiverOmission(v, t) /\ EnterSuspicion(v, t) = Doubting(v, t)
BY DEF CheckReceiverOmission, EnterSuspicion, Doubting

LEMMA DoubtingFields ==
  ASSUME NEW v \in View, NEW t \in Node, NEW w, w = Doubting(v, t)
  PROVE  /\ w.stage = v.stage /\ w.vv = v.vv /\ w.last = v.last /\ w.count = v.count
         /\ w.sus = [v.sus EXCEPT ![t] = [flag |-> TRUE, trigger |-> GetPrevMember(v, t)]]
BY DEF Doubting, View

LEMMA RemovalFields ==
  ASSUME NEW v \in View, NEW t \in Node
  PROVE  LET w == RemoveMembership(v, t)
         IN  /\ w.stage = [v.stage EXCEPT ![t] = "INACTIVE"] /\ w.vv = v.vv /\ w.last = v.last
             /\ w.count = v.count - 1
BY DEF RemoveMembership, View

\* A removal acquits the next member of what the removed one has triggered.
LEMMA RemovalAcquits ==
  ASSUME NEW v \in View, NEW t \in Node
  PROVE  LET w == RemoveMembership(v, t)
         IN  \A i \in Node : w.sus[i].flag =>
                /\ v.sus[i].flag
                /\ ~(i = GetNextMember(v, t) /\ v.sus[i].trigger = t)
<1> DEFINE next == GetNextMember(v, t)
           sus  == [v.sus EXCEPT ![next] = IF @.trigger = t THEN Acquit(@) ELSE @]
<1>1. RemoveMembership(v, t).sus = sus
  BY DEF RemoveMembership, View
<1>2. v.sus \in [Node -> Suspicion]
  BY DEF View
<1> HIDE DEF next
<1>3. ASSUME NEW i \in Node, sus[i].flag
      PROVE  v.sus[i].flag /\ ~(i = next /\ v.sus[i].trigger = t)
  BY <1>2, <1>3 DEF Suspicion, Acquit
<1> QED
  BY <1>1, <1>3 DEF next

\* n is about to decide about a member.
Judging(T, n) ==
  /\ TypeOK /\ Tolerates(T) /\ T.kind # "FROZEN"
  /\ slice = "MEMBERSHIP" /\ up[n] /\ n \notin ran /\ turn \in T.group

LEMMA JudgingFacts ==
  ASSUME NEW T \in Trouble, NEW n \in Node, Judging(T, n)
  PROVE  /\ n \in T.group /\ T.group \in SUBSET Node /\ turn \in Node
         /\ IsFiniteSet(T.group) /\ Cardinality(T.group) \in Nat /\ Cardinality(T.group) >= 3
         /\ Members(view[n]) = T.group /\ view[n].count = Cardinality(T.group)
         /\ \A i : ~Listening(n, i)
         /\ \A i : Settled(T, n, i) <=> i \in T.group \ {n}
         /\ \A i \in Node : GetPrevMember(view[n], i) = Prev(T.group, i)
         /\ \A i \in Node : Prev(T.group, i) \in T.group \ {i}
         /\ \A j \in Node \ {turn} : Since(j) < Since(turn) /\ ~(Since(turn) < Since(j))
         /\ ~Purged(T, n)
         /\ Standing(T) /\ Knowing(T) /\ TypeOK /\ view[n] \in View
<1>1. /\ TypeOK /\ Standing(T) /\ Knowing(T) /\ T.kind # "FROZEN" /\ T.group \in SUBSET Node
      /\ slice = "MEMBERSHIP" /\ up[n] /\ n \notin ran /\ turn \in Node
      /\ Present(T) /\ Seen(T) /\ view[n] \in View
  BY DEF Judging, Tolerates, Trouble, TypeOK, Standing
<1>2. ~Purged(T, n) /\ GroupOf(T, n) = T.group
  BY <1>1 DEF Purged, GroupOf
<1>3. /\ n \in T.group /\ Members(view[n]) = T.group /\ view[n].count = Cardinality(T.group)
  BY <1>1, <1>2 DEF Present, Seen, Sees
<1>4. IsFiniteSet(T.group) /\ Cardinality(T.group) \in Nat
  BY <1>3, MembersFinite
<1>5. Cardinality(T.group) >= 3
  BY <1>1, <1>4 DEF Present, MIN_MEMBERS
<1>6. \A i : ~Listening(n, i)
  BY <1>1 DEF Listening
<1>7. \A i : Settled(T, n, i) <=> i \in T.group \ {n}
  BY <1>1, <1>6 DEF Settled
<1>8. \A i \in Node : GetPrevMember(view[n], i) = Prev(T.group, i)
  BY <1>1, <1>3, PrevOf
<1>9. \A i \in Node : Prev(T.group, i) \in T.group \ {i}
  BY <1>1, <1>4, <1>5, PrevIn
<1>10. \A j \in Node \ {turn} : Since(j) < Since(turn) /\ ~(Since(turn) < Since(j))
  BY <1>1, SinceFacts, CycleFacts
<1> QED
  BY <1>1, <1>2, <1>3, <1>4, <1>5, <1>6, <1>7, <1>8, <1>9, <1>10

\* The view vector of i that n has, before the decision.
LEMMA VectorsBefore ==
  ASSUME NEW T \in Trouble, NEW n \in Node, Judging(T, n), NEW i \in T.group,
         NEW j \in T.group, i # j
  PROVE  view[n].vv[i][j] = IF i = n
                            THEN IF Misses(T, n, j) THEN "NOT_RECEIVED" ELSE "RECEIVED"
                            ELSE Reported(T, n, i, j)
<1>1. /\ T.group \in SUBSET Node /\ Knowing(T)
      /\ \A k : Settled(T, n, k) <=> k \in T.group \ {n}
  BY JudgingFacts
<1>2. CASE i = n
  <2>1. Settled(T, n, j) /\ j \in Node
    BY <1>1, <1>2
  <2> QED
    BY <1>1, <1>2, <2>1 DEF Knowing, Knows, OwnVector
<1>3. CASE i # n
  <2>1. Settled(T, n, i) /\ i \in Node /\ j \in T.group \ {i}
    BY <1>1, <1>3
  <2> QED
    BY <1>1, <1>3, <2>1 DEF Knowing, Knows, OtherVectors
<1> QED
  BY <1>2, <1>3

\* Only the node that is in trouble may not have heard the sender, ...
LEMMA OneOmits ==
  ASSUME NEW T \in Trouble, NEW n \in Node, Judging(T, n), T.kind = "MUTE" => turn # T.node
  PROVE  CountOmittedReceptions(view[n], turn)
<1>1. T.group \in SUBSET Node /\ Members(view[n]) = T.group /\ turn \in T.group
  BY JudgingFacts DEF Judging
<1>2. Omitted(view[n], turn) \subseteq {T.node}
  <2> SUFFICES ASSUME NEW i \in T.group, i # turn, i # T.node,
                      view[n].vv[i][turn] = "NOT_RECEIVED"
               PROVE  FALSE
    BY <1>1 DEF Omitted
  <2>1. ~Lost(T, i, turn)
    BY DEF Lost
  <2> QED
    BY <1>1, <2>1, VectorsBefore DEF Misses, Reports, Reported
<1>3. IsFiniteSet({T.node}) /\ Cardinality({T.node}) = 1
  BY FS_Singleton
<1>4. IsFiniteSet(Omitted(view[n], turn)) /\ Cardinality(Omitted(view[n], turn)) <= 1
  BY <1>2, <1>3, FS_Subset
<1>5. Cardinality(Omitted(view[n], turn)) \in Nat
  BY <1>4, FS_CardinalityType
<1> QED
  BY <1>4, <1>5 DEF CountOmittedReceptions

\* ... unless it is the sender itself: then everybody has not.
LEMMA AllOmit ==
  ASSUME NEW T \in Trouble, NEW n \in Node, Judging(T, n), T.kind = "MUTE", turn = T.node
  PROVE  /\ ~CheckSenderOmission(view[n], n, turn)
<1>1. /\ T.group \in SUBSET Node /\ Members(view[n]) = T.group /\ turn \in T.group
      /\ n \in T.group /\ Cardinality(T.group) \in Nat /\ Cardinality(T.group) >= 3
      /\ IsFiniteSet(T.group)
      /\ \A j \in Node \ {turn} : Since(j) < Since(turn)
  BY JudgingFacts DEF Judging
<1>2. ASSUME NEW i \in T.group \ {turn}
      PROVE  view[n].vv[i][turn] = "NOT_RECEIVED"
  <2>1. Lost(T, i, turn) /\ Misses(T, i, turn) /\ Reports(T, i, turn)
    BY <1>1 DEF Lost, Misses, Reports
  <2>2. ~Misses(T, n, i)
    BY DEF Misses, Lost
  <2> QED
    BY <1>1, <2>1, <2>2, VectorsBefore DEF Reported
<1>3. Omitted(view[n], turn) = T.group \ {turn}
  BY <1>1, <1>2 DEF Omitted
<1>4. Cardinality(T.group \ {turn}) = Cardinality(T.group) - 1
  BY <1>1, FS_RemoveElement
<1>5. ~CountOmittedReceptions(view[n], turn)
  BY <1>1, <1>3, <1>4 DEF CountOmittedReceptions
<1>6. ~(n # turn /\ view[n].vv[n][turn] = "RECEIVED")
  BY <1>1, <1>2
<1> QED
  BY <1>5, <1>6 DEF CheckSenderOmission

\* Nobody is suspected but the node that is about to be convicted.
LEMMA Accusation ==
  ASSUME NEW T \in Trouble, NEW n \in Node, Judging(T, n)
  PROVE  /\ view[n].sus[turn].flag <=>
              T.kind = "REPORTED" /\ turn = T.node /\ T.other = Prev(T.group, turn)
         /\ view[n].sus[turn].flag => view[n].sus[turn].trigger = Prev(T.group, turn)
<1>1. /\ T.group \in SUBSET Node /\ turn \in T.group /\ Knowing(T) /\ up[n] /\ n \notin ran
      /\ \A i : ~Listening(n, i) /\ ~Purged(T, n) /\ turn \in Node
      /\ \A i \in Node : Prev(T.group, i) \in T.group \ {i}
      /\ \A j \in Node \ {turn} : ~(Since(turn) < Since(j))
  BY JudgingFacts DEF Judging
<1>2. ~Estranged(T, n, turn) /\ turn \in GroupOf(T, n)
  BY <1>1 DEF Estranged, GroupOf
<1>3. view[n].sus[turn].flag <=> Suspects(T, n, turn)
  BY <1>1, <1>2 DEF Knowing, Knows, Suspicions
<1>4. Suspects(T, n, turn) <=>
        T.kind = "REPORTED" /\ turn = T.node /\ T.other = Prev(T.group, turn)
  BY <1>1 DEF Suspects, Reports, Lost, Listening
<1>5. view[n].sus[turn].flag => view[n].sus[turn].trigger = Prev(T.group, turn)
  BY <1>1, <1>2 DEF Knowing, Knows, Suspicions
<1> QED
  BY <1>3, <1>4, <1>5, Zenon

\* Whether the sender has heard its predecessor, as far as n knows.
LEMMA PredecessorBefore ==
  ASSUME NEW T \in Trouble, NEW n \in Node, Judging(T, n)
  PROVE  PrevReceived(view[n], turn) <=>
           IF n = turn THEN ~Misses(T, n, Prev(T.group, turn))
           ELSE /\ ~Misses(T, n, turn)
                /\ ~(T.kind = "REPORTED" /\ turn = T.node /\ T.other = Prev(T.group, turn))
<1> DEFINE prev == Prev(T.group, turn)
<1>1. /\ T.group \in SUBSET Node /\ turn \in T.group /\ turn \in Node
      /\ GetPrevMember(view[n], turn) = prev /\ prev \in T.group \ {turn}
      /\ \A j \in Node \ {turn} : ~(Since(turn) < Since(j))
  BY JudgingFacts DEF Judging
<1> HIDE DEF prev
<1>2. PrevReceived(view[n], turn) <=> view[n].vv[turn][prev] = "RECEIVED"
  BY <1>1 DEF PrevReceived
<1>3. CASE n = turn
  <2>1. view[n].vv[turn][prev] = IF Misses(T, n, prev) THEN "NOT_RECEIVED" ELSE "RECEIVED"
    BY <1>1, <1>3, VectorsBefore
  <2> QED
    BY <1>2, <1>3, <2>1 DEF prev
<1>4. CASE n # turn
  <2>1. view[n].vv[turn][prev] = Reported(T, n, turn, prev)
    BY <1>1, <1>4, VectorsBefore
  <2>2. Reports(T, turn, prev) <=> T.kind = "REPORTED" /\ turn = T.node /\ T.other = prev
    BY <1>1 DEF Reports, Lost
  <2>3. view[n].vv[turn][prev] = "RECEIVED" <=> ~Misses(T, n, turn) /\ ~Reports(T, turn, prev)
    BY <2>1 DEF Reported
  <2> QED
    BY <1>2, <1>4, <2>2, <2>3 DEF prev
<1> QED
  BY <1>3, <1>4

\* If n has not heard the predecessor, or not the sender, then there is no
\* other member that it has not heard, or knows the sender not to have heard.
LEMMA NobodyElse ==
  ASSUME NEW T \in Trouble, NEW n \in Node, Judging(T, n), ~PrevReceived(view[n], turn)
  PROVE  ~MissedAnotherMember(view[n], turn)
<1> DEFINE prev == Prev(T.group, turn)
<1>1. /\ T.group \in SUBSET Node /\ turn \in T.group /\ turn \in Node
      /\ Members(view[n]) = T.group
      /\ GetPrevMember(view[n], turn) = prev /\ prev \in T.group \ {turn}
      /\ \A j \in Node \ {turn} : ~(Since(turn) < Since(j))
  BY JudgingFacts DEF Judging
<1> HIDE DEF prev
<1> SUFFICES ASSUME NEW i \in T.group \ {turn, prev}
             PROVE  view[n].vv[turn][i] # "NOT_RECEIVED"
  BY <1>1 DEF MissedAnotherMember
<1>2. CASE n = turn
  <2>1. Misses(T, n, prev)
    BY <1>2, PredecessorBefore DEF prev
  <2>2. ~Misses(T, n, i)
    BY <2>1 DEF Misses, Lost
  <2> QED
    BY <1>1, <1>2, <2>2, VectorsBefore
<1>3. CASE n # turn
  <2>1. view[n].vv[turn][i] = Reported(T, n, turn, i)
    BY <1>1, <1>3, VectorsBefore
  <2>2. CASE Misses(T, n, turn)
    BY <2>1, <2>2 DEF Reported
  <2>3. CASE ~Misses(T, n, turn)
    <3>1. T.kind = "REPORTED" /\ turn = T.node /\ T.other = prev
      BY <1>3, <2>3, PredecessorBefore DEF prev
    <3>2. ~Reports(T, turn, i)
      BY <3>1 DEF Reports, Lost
    <3> QED
      BY <2>1, <2>3, <3>2 DEF Reported
  <2> QED
    BY <2>2, <2>3
<1> QED
  BY <1>2, <1>3

\* The sender is no longer believed: it leaves.
LEMMA NotLeaving ==
  ASSUME NEW T \in Trouble, NEW n \in Node, Judging(T, n), ~(Leaving(T) /\ turn = T.node)
  PROVE  /\ AfterSuspicion(n) = view[n] /\ ~SelfConvicted(n)
         /\ CheckSenderOmission(view[n], n, turn)
<1>1. ~view[n].sus[turn].flag
  BY Accusation DEF Leaving
<1>2. AfterSuspicion(n) = view[n] /\ ~SelfConvicted(n)
  BY <1>1 DEF AfterSuspicion, SelfConvicted, Convicted
<1>3. CheckSenderOmission(view[n], n, turn)
  BY OneOmits DEF CheckSenderOmission, Leaving
<1> QED
  BY <1>2, <1>3

LEMMA DeliversLine ==
  ASSUME TypeOK, MessageHeld, late = {}, NEW n \in Node, Delivers(n)
  PROVE  view[n].last[turn] # Null
BY HeldDelivers DEF NoNullDelivery

\* The usual decision: the sender's line is delivered.
LEMMA CleanDecision ==
  ASSUME NEW T \in Trouble, NEW n \in Node, Judging(T, n), MembershipDecision(n),
         MessageHeld, ~(Leaving(T) /\ turn = T.node), ~Misses(T, n, turn),
         ~(n = turn /\ Misses(T, n, Prev(T.group, turn)))
  PROVE  DeliverMessage(n, view[n]) /\ view[n].last[turn] # Null
<1>1. /\ AfterSuspicion(n) = view[n] /\ ~SelfConvicted(n)
      /\ CheckSenderOmission(view[n], n, turn)
  BY NotLeaving
<1>2. PrevReceived(view[n], turn)
  BY PredecessorBefore DEF Leaving
<1>3. CheckReceiverOmission(view[n], turn) /\ EnterSuspicion(view[n], turn) = view[n]
  BY <1>2, HeardPredecessor
<1>4. view[n].vv[n][turn] = "RECEIVED" \/ n = turn
  <2>1. n \in T.group /\ turn \in T.group
    BY JudgingFacts DEF Judging
  <2> QED
    BY <2>1, VectorsBefore
<1>5. Mval(view[n], n, turn)
  BY <1>1, <1>3 DEF Mval
<1>6. DeliverMessage(n, view[n])
  BY <1>1, <1>3, <1>4, <1>5 DEF MembershipDecision
<1>7. Delivers(n) /\ late = {} /\ TypeOK
  BY <1>1, <1>4, <1>5 DEF Delivers, MembershipDecision, Judging, Tolerates, Standing, Quiet
<1> QED
  BY <1>6, <1>7, DeliversLine

\* The sender that has not heard its predecessor doubts itself.
LEMMA SelfDoubt ==
  ASSUME NEW T \in Trouble, NEW n \in Node, Judging(T, n), MembershipDecision(n),
         MessageHeld, n = turn, Misses(T, n, Prev(T.group, turn))
  PROVE  DeliverMessage(n, Doubting(view[n], n)) /\ view[n].last[turn] # Null
<1>0. Prev(T.group, turn) \in T.group \ {turn} /\ ~(Leaving(T) /\ turn = T.node)
  BY JudgingFacts DEF Leaving, Misses, Lost
<1>1. /\ AfterSuspicion(n) = view[n] /\ ~SelfConvicted(n)
      /\ CheckSenderOmission(view[n], n, turn)
  BY <1>0, NotLeaving
<1>2. ~PrevReceived(view[n], turn)
  BY PredecessorBefore
<1>3. CheckReceiverOmission(view[n], turn) /\ EnterSuspicion(view[n], turn) = Doubting(view[n], turn)
  BY <1>2, NobodyElse, MissedPredecessor
<1>5. Mval(view[n], n, turn)
  BY <1>1, <1>3 DEF Mval
<1>6. DeliverMessage(n, Doubting(view[n], n))
  BY <1>1, <1>3, <1>5 DEF MembershipDecision
<1>7. Delivers(n) /\ late = {} /\ TypeOK
  BY <1>1, <1>5 DEF Delivers, MembershipDecision, Judging, Tolerates, Standing, Quiet
<1> QED
  BY <1>6, <1>7, DeliversLine

\* The node that has not heard the sender doubts it and delivers nothing.
LEMMA Doubt ==
  ASSUME NEW T \in Trouble, NEW n \in Node, Judging(T, n), MembershipDecision(n),
         ~(Leaving(T) /\ turn = T.node), Misses(T, n, turn), n # turn
  PROVE  Continue(n, Doubting(view[n], turn))
<1>1. /\ AfterSuspicion(n) = view[n] /\ ~SelfConvicted(n)
      /\ CheckSenderOmission(view[n], n, turn)
  BY NotLeaving
<1>2. ~PrevReceived(view[n], turn)
  BY PredecessorBefore
<1>3. CheckReceiverOmission(view[n], turn) /\ EnterSuspicion(view[n], turn) = Doubting(view[n], turn)
  BY <1>2, NobodyElse, MissedPredecessor
<1>4. view[n].vv[n][turn] # "RECEIVED"
  <2>1. n \in T.group /\ turn \in T.group
    BY JudgingFacts DEF Judging
  <2> QED
    BY <2>1, VectorsBefore
<1>5. Mval(view[n], n, turn)
  BY <1>1, <1>3 DEF Mval
<1>6. Doubting(view[n], turn).vv = view[n].vv
  BY DEF Doubting
<1> QED
  BY <1>1, <1>3, <1>4, <1>5, <1>6 DEF MembershipDecision

\* Everybody removes the node that nobody has heard, and it ends.
LEMMA Removal ==
  ASSUME NEW T \in Trouble, NEW n \in Node, Judging(T, n), MembershipDecision(n),
         T.kind = "MUTE", turn = T.node
  PROVE  IF n = turn THEN ProcessEnds(n) /\ UNCHANGED out
                     ELSE Continue(n, RemoveMembership(view[n], turn))
<1>1. ~view[n].sus[turn].flag
  BY Accusation
<1>2. AfterSuspicion(n) = view[n] /\ ~SelfConvicted(n)
  BY <1>1 DEF AfterSuspicion, SelfConvicted, Convicted
<1>3. ~CheckSenderOmission(view[n], n, turn) /\ ~Mval(view[n], n, turn)
  BY AllOmit DEF Mval
<1> QED
  BY <1>2, <1>3 DEF MembershipDecision

\* Everybody convicts the node that has reported not to have heard its
\* predecessor, delivers its last line and suspects it once more; the node
\* itself ends.
LEMMA Conviction ==
  ASSUME NEW T \in Trouble, NEW n \in Node, Judging(T, n), MembershipDecision(n),
         MessageHeld, T.kind = "REPORTED", Leaving(T), turn = T.node
  PROVE  IF n = turn THEN ProcessEnds(n) /\ UNCHANGED out
         ELSE /\ DeliverMessage(n, Doubting(RemoveMembership(view[n], turn), turn))
              /\ view[n].last[turn] # Null
<1> DEFINE prev == Prev(T.group, turn)
           v == RemoveMembership(view[n], turn)
<1>0. /\ T.other = prev /\ T.group \in SUBSET Node /\ turn \in T.group /\ turn \in Node
      /\ GetPrevMember(view[n], turn) = prev /\ prev \in T.group \ {turn}
      /\ Members(view[n]) = T.group /\ view[n] \in View /\ n \in T.group
  BY JudgingFacts DEF Judging, Leaving
<1> HIDE DEF prev
<1>1. view[n].sus[turn].flag /\ view[n].sus[turn].trigger = prev
  BY <1>0, Accusation DEF prev
<1>2. Convicted(view[n], turn)
  BY <1>0, <1>1 DEF Convicted, Members
<1>3. CASE n = turn
  BY <1>2, <1>3 DEF SelfConvicted, MembershipDecision, Mval
<1>4. CASE n # turn
  <2>1. AfterSuspicion(n) = v /\ ~SelfConvicted(n)
    BY <1>1, <1>2, <1>4 DEF AfterSuspicion, HandleSuspicion, SelfConvicted
  <2>2. v.vv = view[n].vv /\ v.stage = [view[n].stage EXCEPT ![turn] = "INACTIVE"] /\ v.last = view[n].last
    BY <1>0, RemovalFields
  <2> HIDE DEF v
  <2>3. Members(v) = T.group \ {turn}
    BY <1>0, <2>2 DEF Members, View
  <2>4. GetPrevMember(v, turn) = prev
    <3>1. T.group \ {turn} \in SUBSET Node
      BY <1>0
    <3> QED
      BY <1>0, <2>3, <3>1, PrevOf, PrevWithout DEF prev
  <2>5. view[n].vv[n][turn] = "RECEIVED"
    BY <1>0, <1>4, VectorsBefore DEF Misses
  <2>6. CheckSenderOmission(v, n, turn)
    BY <1>4, <2>2, <2>5 DEF CheckSenderOmission
  <2>7. ~PrevReceived(v, turn)
    <3>1. ~PrevReceived(view[n], turn)
      BY <1>0, <1>4, PredecessorBefore DEF prev
    <3> QED
      BY <1>0, <2>2, <2>4, <3>1 DEF PrevReceived
  <2>8. ~MissedAnotherMember(v, turn)
    <3>1. ~MissedAnotherMember(view[n], turn)
      BY <1>0, <1>4, PredecessorBefore, NobodyElse DEF prev
    <3> QED
      BY <1>0, <2>2, <2>3, <2>4, <3>1 DEF MissedAnotherMember
  <2>9. CheckReceiverOmission(v, turn) /\ EnterSuspicion(v, turn) = Doubting(v, turn)
    BY <2>7, <2>8, MissedPredecessor
  <2>10. Mval(v, n, turn)
    BY <2>6, <2>9 DEF Mval
  <2>11. Doubting(v, turn).vv = view[n].vv
    BY <2>2 DEF Doubting
  <2>12. DeliverMessage(n, Doubting(v, turn))
    BY <2>1, <2>5, <2>6, <2>9, <2>10, <2>11 DEF MembershipDecision
  <2>13. Delivers(n) /\ late = {} /\ TypeOK
    BY <2>1, <2>5, <2>10 DEF Delivers, MembershipDecision, Judging, Tolerates, Standing, Quiet
  <2>14. view[n].last[turn] # Null
    BY <2>13, DeliversLine
  <2> QED
    BY <1>4, <2>12, <2>14 DEF v
<1> QED
  BY <1>3, <1>4

-----------------------------------------------------------------------------
(* What the handlers of the MEMBERSHIP slice do                             *)

\* Process n runs its handler and nothing fails.
Works(n) == Runs(n) /\ UNCHANGED <<late, asleep, starts, faulty, calm>>

\* n takes the sender for suspicious when it has decided about it.
Doubts(T, n) ==
  Misses(T, n, turn) \/ (n = turn /\ Misses(T, n, Prev(T.group, turn)))

\* n decides, if it can, and nobody leaves.
Judges(T, n) ==
  /\ slice = "MEMBERSHIP" /\ Works(n) /\ UNCHANGED latest
  /\ ~(Leaving(T) /\ turn = T.node)
  /\ view'[n].stage = view[n].stage /\ view'[n].vv = view[n].vv
  /\ view'[n].count = view[n].count
  /\ \A i \in Node \ {turn} : /\ view'[n].sus[i] = view[n].sus[i]
                              /\ view'[n].last[i] = view[n].last[i]
  /\ T.kind # "FROZEN" /\ turn \in T.group =>
       /\ view'[n].sus[turn].flag <=> Doubts(T, n)
       /\ view'[n].sus[turn].flag => view'[n].sus[turn].trigger = Prev(T.group, turn)
       /\ n # turn /\ ~Misses(T, n, turn) =>
            latest[turn] = Empty \/ latest[turn] \in Delivered(n)'
  /\ \A m \in Node \ {n} : out'[m] = out[m]
  /\ T.kind = "FROZEN" => out' = out

\* n removes the sender.
Expels(T, n) ==
  /\ slice = "MEMBERSHIP" /\ Works(n) /\ UNCHANGED latest
  /\ Leaving(T) /\ turn = T.node /\ n # turn
  /\ view'[n].stage = [view[n].stage EXCEPT ![turn] = "INACTIVE"]
  /\ view'[n].vv = view[n].vv /\ view'[n].count = view[n].count - 1
  /\ \A i \in Node \ {turn} : view'[n].last[i] = view[n].last[i]
  /\ \A i \in T.group \ {turn} : ~view'[n].sus[i].flag
  /\ \A m \in Node \ {n} : out'[m] = out[m]
  /\ IF T.kind = "MUTE" THEN out' = out
     ELSE latest[turn] = Empty \/ latest[turn] \in Delivered(n)'

\* The sender ends.
Departs(T, n) ==
  /\ slice = "MEMBERSHIP" /\ up[n] /\ n \notin ran /\ ran' = ran \cup {n}
  /\ UNCHANGED <<turn, slice, latest, out, late, asleep, starts, faulty, calm>>
  /\ Leaving(T) /\ turn = T.node /\ n = turn /\ ProcessEnds(n)

LEMMA Waking ==
  ASSUME NEW n, Handler(n)
  PROVE  /\ up[n] /\ n \notin ran /\ ran' = ran \cup {n}
         /\ UNCHANGED <<turn, slice, late, asleep, starts>>
BY DEF Handler, EnterMembership, MembershipDecision, NoDecision, SendMessage, SendInit,
   SendNothing, ReceiveMessage, ReceiveNothing, Receives, Wakes

\* A member only sees members.
LEMMA MemberSees ==
  ASSUME TypeOK, NEW T \in Trouble, Standing(T), NEW n \in Node, up[n], n \notin ran
  PROVE  /\ n \in T.group /\ T.group \in SUBSET Node /\ view[n].stage[n] = "MEMBER"
         /\ Members(view[n]) = T.group /\ view[n].count = Cardinality(T.group)
         /\ \A i \in Node : view[n].stage[i] = IF i \in T.group THEN "MEMBER" ELSE "INACTIVE"
         /\ view[n].count < MIN_MEMBERS <=> T.kind = "FROZEN"
<1>1. Present(T) /\ Seen(T) /\ T.group \in SUBSET Node /\ view[n].stage \in [Node -> Stage]
  BY DEF Standing, Trouble, TypeOK, View
<1>2. GroupOf(T, n) = T.group
  BY DEF GroupOf, Purged
<1>3. n \in T.group
  BY <1>1 DEF Present
<1>4. Members(view[n]) = T.group /\ view[n].count = Cardinality(T.group)
  BY <1>1, <1>2 DEF Seen, Sees
<1>5. \A i \in Node : view[n].stage[i] = IF i \in T.group THEN "MEMBER" ELSE "INACTIVE"
  BY <1>1, <1>4 DEF Seen, Sees, Members, Stage
<1>6. view[n].count < MIN_MEMBERS <=> T.kind = "FROZEN"
  BY <1>1, <1>4 DEF Present
<1> QED
  BY <1>1, <1>3, <1>4, <1>5, <1>6

\* In a MEMBERSHIP slice members decide, if there are enough of them.
LEMMA MembershipHandler ==
  ASSUME TypeOK, NEW T \in Trouble, Standing(T), NEW n \in Node, Handler(n),
         slice = "MEMBERSHIP"
  PROVE  IF T.kind # "FROZEN" /\ turn \in T.group THEN MembershipDecision(n)
                                                  ELSE NoDecision(n)
<1>1. up[n] /\ n \notin ran /\ turn \in Node
  BY Waking DEF TypeOK
<1>2. /\ view[n].stage[n] = "MEMBER"
      /\ view[n].stage[turn] = IF turn \in T.group THEN "MEMBER" ELSE "INACTIVE"
      /\ view[n].count < MIN_MEMBERS <=> T.kind = "FROZEN"
  BY <1>1, MemberSees
<1>3. EnterMembership(n) \/ MembershipDecision(n) \/ NoDecision(n)
  BY DEF Handler, SendMessage, SendInit, SendNothing, ReceiveMessage, ReceiveNothing,
     Receives, Wakes
<1>4. ~EnterMembership(n)
  BY <1>2 DEF EnterMembership, Admits
<1>5. Decides(n) <=> T.kind # "FROZEN" /\ turn \in T.group
  <2>1. view[n].count \in Int
    BY DEF TypeOK, View
  <2> QED
    BY <1>2, <2>1 DEF Decides, MIN_MEMBERS
<1> QED
  BY <1>3, <1>4, <1>5 DEF MembershipDecision, NoDecision

\* A line that is delivered is in the file afterwards.
LEMMA DeliverMessageWorks ==
  ASSUME TypeOK, NEW n \in Node, NEW v \in View, v.last[turn] # Null, DeliverMessage(n, v)
  PROVE  /\ UNCHANGED <<up, age, sock>>
         /\ view'[n].stage = v.stage /\ view'[n].vv = v.vv /\ view'[n].count = v.count
         /\ view'[n].sus = v.sus
         /\ \A i \in Node \ {turn} : view'[n].last[i] = v.last[i]
         /\ \A m \in Node \ {n} : view'[m] = view[m] /\ out'[m] = out[m]
         /\ v.last[turn] = Empty \/ v.last[turn] \in Delivered(n)'
<1> DEFINE left == IF v.last[turn] = Empty THEN v ELSE [v EXCEPT !.last[turn] = Null]
<1>1. /\ view' = [view EXCEPT ![n] = left] /\ UNCHANGED <<up, age, unread, sock>>
      /\ out' = [out EXCEPT ![n] = IF v.last[turn] = Empty THEN @ ELSE Append(@, v.last[turn])]
  BY DEF DeliverMessage
<1>2. /\ left.stage = v.stage /\ left.vv = v.vv /\ left.count = v.count /\ left.sus = v.sus
      /\ \A i \in Node \ {turn} : left.last[i] = v.last[i]
  BY DEF View
<1> HIDE DEF left
<1>3. view'[n] = left /\ \A m \in Node \ {n} : view'[m] = view[m]
  BY <1>1 DEF TypeOK
<1>4. /\ \A m \in Node \ {n} : out'[m] = out[m]
      /\ out'[n] = IF v.last[turn] = Empty THEN out[n] ELSE Append(out[n], v.last[turn])
      /\ out[n] \in Seq(Nat)
  BY <1>1 DEF TypeOK
<1>5. ASSUME v.last[turn] # Empty
      PROVE  v.last[turn] \in Delivered(n)'
  <2>1. v.last[turn] \in Nat /\ turn \in Node
    BY DEF TypeOK, View, Body
  <2>2. out'[n] = Append(out[n], v.last[turn])
    BY <1>4, <1>5
  <2>3. /\ Len(out'[n]) = Len(out[n]) + 1 /\ Len(out[n]) \in Nat
        /\ out'[n][Len(out[n]) + 1] = v.last[turn] /\ out'[n] \in Seq(Nat)
    BY <1>4, <2>1, <2>2, AppendProperties, LenProperties
  <2>4. Len(out[n]) + 1 \in DOMAIN out'[n]
    BY <2>3, LenProperties
  <2> QED
    BY <2>3, <2>4 DEF Delivered
<1> QED
  BY <1>1, <1>2, <1>3, <1>4, <1>5

LEMMA DecisionWakes ==
  ASSUME NEW n, MembershipDecision(n) \/ NoDecision(n)
  PROVE  /\ slice = "MEMBERSHIP" /\ up[n] /\ n \notin ran /\ ran' = ran \cup {n}
         /\ UNCHANGED <<turn, slice, late, asleep, starts, faulty, calm, latest>>
BY DEF MembershipDecision, NoDecision, Wakes

LEMMA NoDecisionWorks ==
  ASSUME TypeOK, NEW T \in Trouble, NEW n \in Node, NoDecision(n),
         T.kind = "FROZEN" \/ turn \notin T.group, Present(T)
  PROVE  Judges(T, n)
<1>1. /\ slice = "MEMBERSHIP" /\ up[n] /\ n \notin ran /\ ran' = ran \cup {n}
      /\ UNCHANGED <<turn, slice, late, asleep, starts, faulty, calm, latest>>
      /\ UNCHANGED <<up, age, view, out>>
  BY DecisionWakes DEF NoDecision, proc
<1>2. ~(Leaving(T) /\ turn = T.node)
  BY DEF Leaving, Present
<1> QED
  BY <1>1, <1>2 DEF Judges, Works, Runs

\* What n holds of the sender is its undecided line.
LEMMA HeldLine ==
  ASSUME NEW T \in Trouble, NEW n \in Node, Judging(T, n), n # turn, ~Misses(T, n, turn)
  PROVE  view[n].last[turn] = latest[turn]
<1>1. Knowing(T) /\ Settled(T, n, turn) /\ turn \in Node /\ n \notin ran
  BY JudgingFacts DEF Judging
<1>2. LineOf(T, n, turn)
  BY <1>1 DEF Knowing, Knows, LinesOf
<1> QED
  BY <1>1, <1>2 DEF LineOf

LEMMA DoubtingView ==
  ASSUME NEW v \in View, NEW t \in Node
  PROVE  Doubting(v, t) \in View
<1>1. GetPrevMember(v, t) \in Node
  BY NeighbourType
<1>2. [flag |-> TRUE, trigger |-> GetPrevMember(v, t)] \in Suspicion
  BY <1>1 DEF Suspicion
<1> QED
  BY <1>2 DEF Doubting, View

LEMMA LostOther ==
  ASSUME NEW T \in Trouble, Present(T), NEW i, NEW j, Lost(T, i, j)
  PROVE  i # j
BY DEF Present, Lost

LEMMA ContinueWorks ==
  ASSUME TypeOK, NEW n \in Node, NEW v, Continue(n, v)
  PROVE  /\ view'[n] = v /\ \A m \in Node \ {n} : view'[m] = view[m]
         /\ UNCHANGED <<up, age, sock, out>>
BY DEF Continue, TypeOK

LEMMA DecisionJudges ==
  ASSUME NEW T \in Trouble, NEW n \in Node, Judging(T, n), MembershipDecision(n),
         MessageHeld, ~(Leaving(T) /\ turn = T.node)
  PROVE  Judges(T, n)
<1> DEFINE prev == Prev(T.group, turn)
<1>1. /\ TypeOK /\ Standing(T) /\ Present(T) /\ view[n] \in View /\ turn \in Node
      /\ T.kind # "FROZEN" /\ turn \in T.group
      /\ GetPrevMember(view[n], turn) = prev
  BY JudgingFacts DEF Judging, Standing
<1>2. /\ slice = "MEMBERSHIP" /\ up[n] /\ n \notin ran /\ ran' = ran \cup {n}
      /\ UNCHANGED <<turn, slice, late, asleep, starts, faulty, calm, latest>>
  BY DecisionWakes
<1>3. ~view[n].sus[turn].flag
  BY Accusation DEF Leaving
<1> HIDE DEF prev
<1>4. SUFFICES /\ UNCHANGED <<up, age>> /\ \A m \in Node \ {n} : view'[m] = view[m] /\ out'[m] = out[m]
               /\ view'[n].stage = view[n].stage /\ view'[n].vv = view[n].vv
               /\ view'[n].count = view[n].count
               /\ \A i \in Node \ {turn} : /\ view'[n].sus[i] = view[n].sus[i]
                                           /\ view'[n].last[i] = view[n].last[i]
               /\ view'[n].sus[turn].flag <=> Doubts(T, n)
               /\ view'[n].sus[turn].flag => view'[n].sus[turn].trigger = prev
               /\ n # turn /\ ~Misses(T, n, turn) =>
                    latest[turn] = Empty \/ latest[turn] \in Delivered(n)'
  BY <1>1, <1>2 DEF Judges, Works, Runs, prev
<1>0. PICK w : w = Doubting(view[n], turn)
  OBVIOUS
<1>5. /\ w \in View /\ w.stage = view[n].stage /\ w.vv = view[n].vv /\ w.last = view[n].last
      /\ w.count = view[n].count
      /\ w.sus = [view[n].sus EXCEPT ![turn] = [flag |-> TRUE, trigger |-> prev]]
  <2>1. w \in View
    BY <1>0, <1>1, DoubtingView
  <2> QED
    BY <1>0, <1>1, <2>1, DoubtingFields
<1>6. view[n].sus \in [Node -> Suspicion]
  BY <1>1 DEF View
<1>7. w.sus[turn].flag /\ w.sus[turn].trigger = prev
      /\ \A i \in Node \ {turn} : w.sus[i] = view[n].sus[i]
  BY <1>1, <1>5, <1>6
<1>8. CASE ~Misses(T, n, turn) /\ ~(n = turn /\ Misses(T, n, prev))
  <2>1. DeliverMessage(n, view[n]) /\ view[n].last[turn] # Null
    BY <1>8, CleanDecision DEF prev
  <2>2. ~Doubts(T, n)
    BY <1>8 DEF Doubts, prev
  <2>3. n # turn => view[n].last[turn] = latest[turn]
    BY <1>8, HeldLine
  <2> QED
    BY <1>1, <1>3, <2>1, <2>2, <2>3, DeliverMessageWorks
<1>9. CASE n = turn /\ Misses(T, n, prev)
  <2>1. DeliverMessage(n, w) /\ w.last[turn] # Null
    BY <1>0, <1>5, <1>9, SelfDoubt DEF prev
  <2>2. Doubts(T, n)
    BY <1>9 DEF Doubts, prev
  <2>3. /\ UNCHANGED <<up, age>>
        /\ view'[n].stage = w.stage /\ view'[n].vv = w.vv /\ view'[n].count = w.count
        /\ view'[n].sus = w.sus
        /\ \A i \in Node \ {turn} : view'[n].last[i] = w.last[i]
        /\ \A m \in Node \ {n} : view'[m] = view[m] /\ out'[m] = out[m]
    BY <1>1, <1>5, <2>1, DeliverMessageWorks
  <2> QED
    BY <1>5, <1>7, <1>9, <2>2, <2>3
<1>10. CASE Misses(T, n, turn)
  <2>1. n # turn
    BY <1>1, <1>10, LostOther DEF Misses
  <2>2. Continue(n, w)
    BY <1>0, <1>10, <2>1, Doubt
  <2>3. Doubts(T, n)
    BY <1>10 DEF Doubts
  <2>4. view'[n] = w /\ (\A m \in Node \ {n} : view'[m] = view[m]) /\ UNCHANGED <<up, age, out>>
    BY <1>1, <2>2, ContinueWorks
  <2> QED
    BY <1>5, <1>7, <1>10, <2>3, <2>4
<1> QED
  BY <1>8, <1>9, <1>10

\* Once the sender is removed nobody is suspected any more.
LEMMA Acquittal ==
  ASSUME NEW T \in Trouble, NEW n \in Node, Judging(T, n), Leaving(T), turn = T.node,
         NEW i \in T.group \ {turn}
  PROVE  ~RemoveMembership(view[n], turn).sus[i].flag
<1> DEFINE w == RemoveMembership(view[n], turn)
<1>1. /\ T.group \in SUBSET Node /\ turn \in T.group /\ turn \in Node /\ i \in Node
      /\ Members(view[n]) = T.group /\ view[n] \in View /\ Knowing(T)
      /\ ~Purged(T, n) /\ \A j : ~Listening(n, j)
      /\ Prev(T.group, i) \in T.group \ {i}
  BY JudgingFacts DEF Judging
<1>2. w.sus[i].flag => /\ view[n].sus[i].flag
                       /\ ~(i = GetNextMember(view[n], turn) /\ view[n].sus[i].trigger = turn)
  BY <1>1, RemovalAcquits
<1>3. ~Estranged(T, n, i) /\ i \in GroupOf(T, n)
  BY <1>1 DEF Estranged, GroupOf, Leaving
<1>4. view[n].sus[i].flag => Suspects(T, n, i) /\ view[n].sus[i].trigger = Prev(T.group, i)
  BY <1>1, <1>3 DEF Knowing, Knows, Suspicions, Judging
<1>5. Suspects(T, n, i) => Prev(T.group, i) = turn
  BY DEF Suspects, Lost, Leaving
<1>6. Prev(T.group, i) = turn => GetNextMember(view[n], turn) = i
  BY <1>1, NextOf
<1> QED
  BY <1>2, <1>4, <1>5, <1>6

LEMMA DecisionLeaves ==
  ASSUME NEW T \in Trouble, NEW n \in Node, Judging(T, n), MembershipDecision(n),
         MessageHeld, Leaving(T), turn = T.node
  PROVE  Expels(T, n) \/ Departs(T, n)
<1>1. /\ TypeOK /\ Present(T) /\ view[n] \in View /\ turn \in Node
      /\ T.kind # "FROZEN" /\ turn \in T.group /\ T.group \subseteq Node
  BY JudgingFacts DEF Judging, Standing, Trouble
<1>2. /\ slice = "MEMBERSHIP" /\ up[n] /\ n \notin ran /\ ran' = ran \cup {n}
      /\ UNCHANGED <<turn, slice, late, asleep, starts, faulty, calm, latest>>
  BY DecisionWakes
<1>3. CASE n = turn
  <2>1. ProcessEnds(n) /\ UNCHANGED out
    BY <1>3, Removal, Conviction DEF Leaving
  <2> QED
    BY <1>2, <1>3, <2>1 DEF Departs
<1>4. CASE n # turn
  <2> DEFINE v == RemoveMembership(view[n], turn)
  <2>1. /\ v \in View /\ v.stage = [view[n].stage EXCEPT ![turn] = "INACTIVE"]
        /\ v.vv = view[n].vv /\ v.last = view[n].last /\ v.count = view[n].count - 1
    <3>1. v \in View
      BY <1>1, RemoveMembershipType
    <3> QED
      BY <1>1, <3>1, RemovalFields
  <2>2. \A i \in T.group \ {turn} : ~v.sus[i].flag
    BY <1>4, Acquittal
  <2> HIDE DEF v
  <2>3. SUFFICES /\ UNCHANGED <<up, age>>
                 /\ \A m \in Node \ {n} : view'[m] = view[m] /\ out'[m] = out[m]
                 /\ view'[n].stage = v.stage /\ view'[n].vv = v.vv
                 /\ view'[n].count = v.count
                 /\ \A i \in Node \ {turn} : view'[n].last[i] = v.last[i]
                 /\ \A i \in T.group \ {turn} : ~view'[n].sus[i].flag
                 /\ IF T.kind = "MUTE" THEN out' = out
                    ELSE latest[turn] = Empty \/ latest[turn] \in Delivered(n)'
    BY <1>2, <1>4, <2>1 DEF Expels, Works, Runs
  <2>4. CASE T.kind = "MUTE"
    <3>1. Continue(n, v)
      BY <1>4, <2>4, Removal DEF v
    <3>2. view'[n] = v /\ (\A m \in Node \ {n} : view'[m] = view[m]) /\ UNCHANGED <<up, age, out>>
      BY <1>1, <3>1, ContinueWorks
    <3> QED
      BY <2>2, <2>4, <3>2
  <2>5. CASE T.kind = "REPORTED"
    <3>0. PICK w : w = Doubting(v, turn)
      OBVIOUS
    <3>1. DeliverMessage(n, w) /\ view[n].last[turn] # Null
      BY <1>4, <2>5, <3>0, Conviction DEF v
    <3>2. w \in View
      BY <1>1, <2>1, <3>0, DoubtingView
    <3>3. /\ w.stage = v.stage /\ w.vv = v.vv /\ w.last = v.last /\ w.count = v.count
          /\ w.sus = [v.sus EXCEPT ![turn] = [flag |-> TRUE, trigger |-> GetPrevMember(v, turn)]]
      BY <1>1, <2>1, <3>0, DoubtingFields
    <3>4. \A i \in T.group \ {turn} : w.sus[i] = v.sus[i]
      <4>1. v.sus \in [Node -> Suspicion]
        BY <2>1 DEF View
      <4> QED
        BY <1>1, <3>3, <4>1
    <3>5. /\ UNCHANGED <<up, age>>
          /\ view'[n].stage = w.stage /\ view'[n].vv = w.vv /\ view'[n].count = w.count
          /\ view'[n].sus = w.sus
          /\ \A i \in Node \ {turn} : view'[n].last[i] = w.last[i]
          /\ \A m \in Node \ {n} : view'[m] = view[m] /\ out'[m] = out[m]
          /\ w.last[turn] = Empty \/ w.last[turn] \in Delivered(n)'
      BY <1>1, <2>1, <3>1, <3>2, <3>3, DeliverMessageWorks
    <3>6. w.last[turn] = latest[turn]
      <4>1. ~Misses(T, n, turn)
        BY <2>5 DEF Misses
      <4> QED
        BY <1>4, <2>1, <3>3, <4>1, HeldLine
    <3> QED
      BY <2>2, <2>5, <3>3, <3>4, <3>5, <3>6
  <2> QED
    BY <2>4, <2>5 DEF Leaving
<1> QED
  BY <1>3, <1>4

\* All that can happen in a MEMBERSHIP slice
LEMMA MembershipWorks ==
  ASSUME TypeOK, MessageHeld, NEW T \in Trouble, Tolerates(T), NEW n \in Node, Handler(n),
         slice = "MEMBERSHIP"
  PROVE  Judges(T, n) \/ Expels(T, n) \/ Departs(T, n)
<1>1. Standing(T) /\ Present(T) /\ up[n] /\ n \notin ran
  BY Waking DEF Tolerates, Standing
<1>2. CASE T.kind # "FROZEN" /\ turn \in T.group
  <2>1. Judging(T, n) /\ MembershipDecision(n)
    BY <1>1, <1>2, MembershipHandler DEF Judging
  <2> QED
    BY <2>1, DecisionJudges, DecisionLeaves
<1>3. CASE ~(T.kind # "FROZEN" /\ turn \in T.group)
  <2>1. NoDecision(n)
    BY <1>1, <1>3, MembershipHandler
  <2> QED
    BY <1>1, <1>3, <2>1, NoDecisionWorks
<1> QED
  BY <1>2, <1>3

-----------------------------------------------------------------------------
(* Bystanders                                                               *)

LEMMA TimeStands ==
  ASSUME UNCHANGED <<turn, slice>>, NEW T, NEW i, NEW j
  PROVE  /\ Since(i)' = Since(i) /\ Wait(i)' = Wait(i)
         /\ Deciding(i)' <=> Deciding(i)
         /\ Reports(T, i, j)' <=> Reports(T, i, j)
<1>1. Wait(i)' = Wait(i) /\ Wait(j)' = Wait(j)
  BY DEF Wait
<1>2. Since(i)' = Since(i) /\ Since(j)' = Since(j)
  BY <1>1 DEF Since
<1> QED
  BY <1>1, <1>2 DEF Deciding, Reports

\* A process that does not run a handler knows what it knew.
LEMMA StaysPut ==
  ASSUME UNCHANGED <<turn, slice>>, NEW T, NEW p, p \in ran' <=> p \in ran,
         up'[p] => up[p], NEW i
  PROVE  /\ Listening(p, i)' <=> Listening(p, i)
         /\ Settled(T, p, i)' => Settled(T, p, i)
         /\ Purged(T, p)' <=> Purged(T, p)
         /\ GroupOf(T, p)' = GroupOf(T, p)
         /\ Suspects(T, p, i)' <=> Suspects(T, p, i)
         /\ Estranged(T, p, i)' <=> Estranged(T, p, i)
<1>1. p \in ran' <=> p \in ran
  OBVIOUS
<1>2. Listening(p, i)' <=> Listening(p, i)
  BY DEF Listening
<1>3. \A k : Deciding(k)' <=> Deciding(k)
  BY TimeStands
<1>4. \A k, l : Reports(T, k, l)' <=> Reports(T, k, l)
  BY TimeStands
<1>5. Purged(T, p)' <=> Purged(T, p)
  BY <1>1, <1>3 DEF Purged
<1>6. Settled(T, p, i)' => Settled(T, p, i)
  BY <1>2 DEF Settled
<1>7. Suspects(T, p, i)' <=> Suspects(T, p, i)
  BY <1>1, <1>2, <1>3, <1>4, <1>5 DEF Suspects
<1>8. Estranged(T, p, i)' <=> Estranged(T, p, i)
  BY <1>1, <1>2, <1>3 DEF Estranged
<1> QED
  BY <1>2, <1>5, <1>6, <1>7, <1>8 DEF GroupOf

LEMMA BystanderKnows ==
  ASSUME UNCHANGED <<turn, slice>>, NEW T \in Trouble, NEW p \in Node,
         p \in ran' <=> p \in ran, up'[p] => up[p], view'[p] = view[p], out'[p] = out[p],
         \A i \in Node : Settled(T, p, i) => latest'[i] = latest[i]
  PROVE  /\ Sees(T, p) => Sees(T, p)'
         /\ Knows(T, p) => Knows(T, p)'
<1>1. /\ \A i : Settled(T, p, i)' => Settled(T, p, i)
      /\ Purged(T, p)' <=> Purged(T, p)
      /\ GroupOf(T, p)' = GroupOf(T, p)
      /\ \A i : Suspects(T, p, i)' <=> Suspects(T, p, i)
      /\ \A i : Estranged(T, p, i)' <=> Estranged(T, p, i)
      /\ \A i : Deciding(i)' <=> Deciding(i)
      /\ p \in ran' <=> p \in ran
  BY StaysPut, TimeStands
<1>2. \A i, j : Reported(T, p, i, j)' = Reported(T, p, i, j)
  <2>1. \A i, j : Reports(T, i, j)' <=> Reports(T, i, j)
    BY TimeStands
  <2> QED
    BY <2>1 DEF Reported
<1>3. Sees(T, p) => Sees(T, p)'
  BY <1>1 DEF Sees
<1>4. OwnVector(T, p) => OwnVector(T, p)'
  BY <1>1 DEF OwnVector
<1>5. OtherVectors(T, p) => OtherVectors(T, p)'
  BY <1>1, <1>2 DEF OtherVectors
<1>6. Suspicions(T, p) => Suspicions(T, p)'
  BY <1>1 DEF Suspicions
<1>7. LinesOf(T, p) => LinesOf(T, p)'
  BY <1>1 DEF LinesOf, LineOf, Delivered
<1> QED
  BY <1>3, <1>4, <1>5, <1>6, <1>7 DEF Knows

-----------------------------------------------------------------------------
(* The MEMBERSHIP slice keeps the invariant                                 *)

LEMMA PhaseStands ==
  ASSUME UNCHANGED <<turn, slice, calm>>, NEW T, Phase(T),
         slice = "SEND" => (turn \in ran => turn \in ran') /\ (up'[turn] => up[turn])
  PROVE  Phase(T)'
<1>1. \A i : Wait(i)' = Wait(i) /\ Since(i)' = Since(i)
  BY TimeStands
<1> QED
  BY <1>1 DEF Phase

LEMMA OutsideSend ==
  ASSUME slice # "SEND", UNCHANGED <<turn, slice, latest, late, asleep, starts, calm>>, NEW T
  PROVE  /\ Quiet => Quiet'
         /\ Phase(T) => Phase(T)'
         /\ Sources(T)' /\ InOrder(T)' /\ Mailboxes(T)'
         /\ Senders(T) => Senders(T)'
<1>1. Phase(T) => Phase(T)'
  BY PhaseStands
<1> QED
  BY <1>1 DEF Quiet, Sources, InOrder, Mailboxes, Senders

LEMMA JudgesKnows ==
  ASSUME TypeOK, NEW T \in Trouble, Standing(T), NEW n \in Node, Knows(T, n), Judges(T, n),
         T.kind # "FROZEN"
  PROVE  Knows(T, n)'
<1> DEFINE prev == Prev(T.group, turn)
<1>1. /\ slice = "MEMBERSHIP" /\ UNCHANGED <<up, turn, slice, latest>>
      /\ n \notin ran /\ ran' = ran \cup {n} /\ up[n]
      /\ ~(Leaving(T) /\ turn = T.node)
      /\ view'[n].vv = view[n].vv
      /\ \A i \in Node \ {turn} : /\ view'[n].sus[i] = view[n].sus[i]
                                  /\ view'[n].last[i] = view[n].last[i]
  BY DEF Judges, Works, Runs
<1>2. /\ \A i : Deciding(i)' <=> Deciding(i)
      /\ \A i, j : Reports(T, i, j)' <=> Reports(T, i, j)
  BY <1>1, TimeStands
<1>3. /\ \A i : ~Listening(n, i) /\ ~Listening(n, i)'
      /\ \A i : Settled(T, n, i)' <=> Settled(T, n, i)
      /\ ~Purged(T, n) /\ ~Purged(T, n)' /\ GroupOf(T, n) = T.group /\ GroupOf(T, n)' = T.group
  <2>1. ~Purged(T, n) /\ ~Purged(T, n)'
    BY <1>1, <1>2 DEF Purged, Deciding
  <2>2. \A i : ~Listening(n, i) /\ ~Listening(n, i)'
    BY <1>1 DEF Listening
  <2> QED
    BY <1>1, <2>1, <2>2 DEF Settled, GroupOf
<1>4. OwnVector(T, n)'
  BY <1>1, <1>3 DEF Knows, OwnVector
<1>5. OtherVectors(T, n)'
  BY <1>1, <1>2, <1>3 DEF Knows, OtherVectors, Reported
<1>6. Suspicions(T, n)'
  <2> SUFFICES ASSUME NEW i \in T.group, ~Estranged(T, n, i)'
               PROVE  /\ view'[n].sus[i].flag <=> Suspects(T, n, i)'
                      /\ view'[n].sus[i].flag => view'[n].sus[i].trigger = Prev(T.group, i)
    BY <1>3 DEF Suspicions
  <2>0. i \in Node /\ Present(T) /\ turn \in Node
    BY DEF Trouble, Standing, TypeOK
  <2>1. CASE i # turn
    <3>1. Suspects(T, n, i)' <=> Suspects(T, n, i)
      BY <1>1, <1>2, <1>3, <2>1 DEF Suspects, Deciding
    <3>2. ~Estranged(T, n, i)
      BY <1>1, <1>2, <1>3, <2>1 DEF Estranged, Deciding
    <3> QED
      BY <1>1, <1>3, <2>0, <2>1, <3>1, <3>2 DEF Knows, Suspicions
  <2>2. CASE i = turn
    <3>1. /\ view'[n].sus[turn].flag <=> Doubts(T, n)
          /\ view'[n].sus[turn].flag => view'[n].sus[turn].trigger = prev
      BY <2>2 DEF Judges
    <3>2. ~Reports(T, turn, prev)
      <4>1. ASSUME Lost(T, turn, prev)
            PROVE  T.kind # "REPORTED" /\ ~(Since(turn) < Since(prev))
        <5>1. T.kind # "REPORTED"
          BY <1>1, <4>1 DEF Lost, Leaving
        <5>2. prev \in Node /\ prev # turn
          BY <2>0, <4>1, LostOther DEF Lost, Trouble
        <5>3. Since(prev) < Since(turn) /\ Since(prev) \in Nat /\ Since(turn) \in Nat
          BY <1>1, <2>0, <5>2, SinceFacts, CycleFacts
        <5> QED
          BY <5>1, <5>3
      <4> QED
        BY <4>1 DEF Reports
    <3>3. CASE n = turn
      <4>1. Suspects(T, n, i)' <=> Lost(T, turn, prev)
        BY <1>1, <1>2, <1>3, <2>2, <3>3 DEF Suspects, Deciding
      <4>2. ~Misses(T, n, turn)
        BY <2>0, <3>3, LostOther DEF Misses
      <4>3. Misses(T, n, prev) <=> Lost(T, turn, prev)
        BY <1>1, <3>3 DEF Misses, Lost, Leaving
      <4> QED
        BY <2>2, <3>1, <3>3, <4>1, <4>2, <4>3 DEF Doubts
    <3>4. CASE n # turn
      <4>1. ~Suspects(T, n, i)'
        BY <1>2, <2>2, <3>2, <3>4 DEF Suspects
      <4>2. ~Misses(T, n, turn)
        <5>1. T.kind = "DEAF" => ~(n = T.node /\ turn = T.other)
          BY <1>1, <1>2, <2>2 DEF Estranged, Deciding
        <5> QED
          BY <1>1, <5>1 DEF Misses, Lost, Leaving
      <4> QED
        BY <2>2, <3>1, <3>4, <4>1, <4>2 DEF Doubts
    <3> QED
      BY <3>3, <3>4
  <2> QED
    BY <2>1, <2>2
<1>7. LinesOf(T, n)'
  <2> SUFFICES ASSUME NEW i \in Node, Settled(T, n, i), ~Misses(T, n, i)
               PROVE  LineOf(T, n, i)'
    BY <1>3 DEF LinesOf
  <2>1. CASE i = turn
    <3>1. n # turn /\ turn \in T.group
      BY <2>1 DEF Settled
    <3> QED
      BY <1>1, <1>2, <2>1, <3>1 DEF LineOf, Deciding, Judges
  <2>2. CASE i # turn
    BY <1>1, <1>2, <2>2 DEF LineOf, Deciding, Knows, LinesOf
  <2> QED
    BY <2>1, <2>2
<1> QED
  BY <1>4, <1>5, <1>6, <1>7 DEF Knows

LEMMA JudgesKeeps ==
  ASSUME TypeOK, NEW T \in Trouble, Tolerates(T), NEW n \in Node, Judges(T, n)
  PROVE  Tolerates(T)'
<1>1. /\ slice = "MEMBERSHIP" /\ UNCHANGED <<up, turn, slice, latest, late, asleep, starts, faulty, calm>>
      /\ n \notin ran /\ ran' = ran \cup {n} /\ up[n]
      /\ ~(Leaving(T) /\ turn = T.node)
      /\ view'[n].stage = view[n].stage /\ view'[n].count = view[n].count
      /\ \A m \in Node \ {n} : view'[m] = view[m] /\ out'[m] = out[m]
  BY DEF Judges, Works, Runs
<1>2. Standing(T) /\ Quiet /\ Present(T) /\ Phase(T) /\ Seen(T) /\ Withheld(T)
  BY DEF Tolerates, Standing
<1>3. \A m : ~Purged(T, m) /\ ~Purged(T, m)'
  BY <1>1 DEF Purged, Deciding
<1>4. Quiet' /\ Phase(T)' /\ Sources(T)' /\ InOrder(T)' /\ Mailboxes(T)'
      /\ (Senders(T) => Senders(T)')
  BY <1>1, <1>2, OutsideSend
<1>5. Present(T)'
  BY <1>1, <1>2, <1>3 DEF Present
<1>6. Seen(T)'
  <2> SUFFICES ASSUME NEW p \in Node, up[p]
               PROVE  Sees(T, p)'
    BY <1>1 DEF Seen
  <2>1. Sees(T, p) /\ GroupOf(T, p)' = GroupOf(T, p)
    BY <1>2, <1>3 DEF Seen, GroupOf
  <2>2. view'[p].stage = view[p].stage /\ view'[p].count = view[p].count
    BY <1>1
  <2> QED
    BY <2>1, <2>2 DEF Sees, Members
<1>7. Withheld(T)'
  <2>1. T.kind = "FROZEN" => out' = out
    BY DEF Judges
  <2>2. ~(T.kind = "MUTE" /\ turn = T.node)
    BY <1>1 DEF Leaving
  <2> QED
    BY <1>1, <1>2, <2>1, <2>2 DEF Withheld, Deciding, Delivered
<1>8. ASSUME T.kind # "FROZEN"
      PROVE  Knowing(T)'
  <2>1. Knowing(T)
    BY <1>8 DEF Tolerates
  <2>2. ASSUME NEW p \in Node
        PROVE  Knows(T, p)'
    <3>1. Knows(T, p)
      BY <2>1 DEF Knowing
    <3>2. CASE p = n
      BY <1>2, <1>8, <3>1, <3>2, JudgesKnows
    <3>3. CASE p # n
      BY <1>1, <3>1, <3>3, BystanderKnows
    <3> QED
      BY <3>2, <3>3
  <2> QED
    BY <1>4, <2>1, <2>2 DEF Knowing
<1> QED
  BY <1>4, <1>5, <1>6, <1>7, <1>8 DEF Tolerates, Standing

LEMMA ExpelsKnows ==
  ASSUME TypeOK, NEW T \in Trouble, Standing(T), NEW n \in Node, Knows(T, n), Expels(T, n)
  PROVE  Knows(T, n)' /\ Sees(T, n)'
<1>1. /\ slice = "MEMBERSHIP" /\ UNCHANGED <<up, turn, slice, latest>>
      /\ n \notin ran /\ ran' = ran \cup {n} /\ up[n]
      /\ Leaving(T) /\ turn = T.node /\ n # turn /\ turn \in Node
      /\ view'[n].stage = [view[n].stage EXCEPT ![turn] = "INACTIVE"]
      /\ view'[n].vv = view[n].vv /\ view'[n].count = view[n].count - 1
      /\ \A i \in Node \ {turn} : view'[n].last[i] = view[n].last[i]
      /\ \A i \in T.group \ {turn} : ~view'[n].sus[i].flag
  BY DEF Expels, Works, Runs, TypeOK
<1>2. /\ \A i : Deciding(i)' <=> Deciding(i)
      /\ \A i, j : Reports(T, i, j)' <=> Reports(T, i, j)
  BY <1>1, TimeStands
<1>3. /\ \A i : ~Listening(n, i) /\ ~Listening(n, i)'
      /\ \A i : Settled(T, n, i)' <=> Settled(T, n, i)
      /\ ~Purged(T, n) /\ Purged(T, n)'
      /\ GroupOf(T, n) = T.group /\ GroupOf(T, n)' = T.group \ {turn}
  <2>1. ~Purged(T, n) /\ Purged(T, n)'
    BY <1>1, <1>2 DEF Purged, Deciding
  <2>2. \A i : ~Listening(n, i) /\ ~Listening(n, i)'
    BY <1>1 DEF Listening
  <2> QED
    BY <1>1, <2>1, <2>2 DEF Settled, GroupOf
<1>4. OwnVector(T, n)'
  BY <1>1, <1>3 DEF Knows, OwnVector
<1>5. OtherVectors(T, n)'
  BY <1>1, <1>2, <1>3 DEF Knows, OtherVectors, Reported
<1>6. Suspicions(T, n)'
  <2>1. \A i : ~Suspects(T, n, i)'
    BY <1>3 DEF Suspects
  <2> QED
    BY <1>1, <1>3, <2>1 DEF Suspicions
<1>7. LinesOf(T, n)'
  <2> SUFFICES ASSUME NEW i \in Node, Settled(T, n, i), ~Misses(T, n, i)
               PROVE  LineOf(T, n, i)'
    BY <1>3 DEF LinesOf
  <2>1. CASE i = turn
    <3>1. T.kind # "MUTE"
      BY <1>1, <2>1 DEF Misses, Lost
    <3>2. latest[turn] = Empty \/ latest[turn] \in Delivered(n)'
      BY <3>1 DEF Expels
    <3> QED
      BY <1>1, <1>2, <2>1, <3>2 DEF LineOf, Deciding
  <2>2. CASE i # turn
    BY <1>1, <1>2, <2>2 DEF LineOf, Deciding, Knows, LinesOf
  <2> QED
    BY <2>1, <2>2
<1>8. Sees(T, n)'
  <2>1. /\ T.group \in SUBSET Node /\ turn \in T.group
        /\ Members(view[n]) = T.group /\ view[n].count = Cardinality(T.group)
        /\ \A i \in Node : view[n].stage[i] # "ACTIVE"
        /\ view[n].stage \in [Node -> Stage]
    <3>1. Sees(T, n) /\ T.group \in SUBSET Node /\ view[n].stage \in [Node -> Stage]
      BY <1>1 DEF Standing, Seen, Trouble, TypeOK, View
    <3>2. turn \in T.group
      BY <1>1 DEF Standing, Present, Leaving
    <3> QED
      BY <1>3, <3>1, <3>2 DEF Sees
  <2>2. Members(view'[n]) = T.group \ {turn}
    BY <1>1, <2>1 DEF Members
  <2>3. Cardinality(T.group \ {turn}) = Cardinality(T.group) - 1
    <3>1. IsFiniteSet(T.group)
      BY <2>1, MembersFinite
    <3> QED
      BY <2>1, <3>1, FS_RemoveElement
  <2>4. \A i \in Node : view'[n].stage[i] # "ACTIVE"
    BY <1>1, <2>1
  <2> QED
    BY <1>1, <1>3, <2>1, <2>2, <2>3, <2>4 DEF Sees
<1> QED
  BY <1>4, <1>5, <1>6, <1>7, <1>8 DEF Knows

LEMMA ExpelsKeeps ==
  ASSUME TypeOK, NEW T \in Trouble, Tolerates(T), NEW n \in Node, Expels(T, n)
  PROVE  Tolerates(T)'
<1>1. /\ slice = "MEMBERSHIP" /\ UNCHANGED <<up, turn, slice, latest, late, asleep, starts, faulty, calm>>
      /\ n \notin ran /\ ran' = ran \cup {n} /\ up[n]
      /\ Leaving(T) /\ turn = T.node /\ n # turn
      /\ \A m \in Node \ {n} : view'[m] = view[m] /\ out'[m] = out[m]
  BY DEF Expels, Works, Runs
<1>2. /\ Standing(T) /\ Quiet /\ Present(T) /\ Phase(T) /\ Seen(T) /\ Withheld(T)
      /\ T.kind # "FROZEN" /\ Knowing(T)
  BY <1>1 DEF Tolerates, Standing, Leaving
<1>3. \A m : Purged(T, m)' <=> Purged(T, m) \/ m = n
  BY <1>1 DEF Purged, Deciding
<1>4. Quiet' /\ Phase(T)' /\ Sources(T)' /\ InOrder(T)' /\ Mailboxes(T)' /\ Senders(T)'
  BY <1>1, <1>2, OutsideSend DEF Knowing
<1>5. Present(T)'
  BY <1>1, <1>2, <1>3 DEF Present
<1>6. Knows(T, n)' /\ Sees(T, n)'
  BY <1>2, ExpelsKnows DEF Knowing
<1>7. ASSUME NEW p \in Node, p # n
      PROVE  Knows(T, p)' /\ (up[p] => Sees(T, p)')
  <2>1. Knows(T, p) /\ (up[p] => Sees(T, p))
    BY <1>2 DEF Knowing, Seen
  <2> QED
    BY <1>1, <1>7, <2>1, BystanderKnows
<1>8. Withheld(T)'
  <2>1. T.kind = "MUTE" => out' = out
    BY DEF Expels
  <2> QED
    BY <1>1, <1>2, <2>1 DEF Withheld, Deciding, Delivered
<1>9. Seen(T)' /\ Knowing(T)'
  BY <1>1, <1>4, <1>6, <1>7 DEF Seen, Knowing
<1> QED
  BY <1>4, <1>5, <1>8, <1>9 DEF Tolerates, Standing

\* A process that has ended knows nothing, and nothing is asked of it.
LEMMA EndedKnows ==
  ASSUME NEW T, NEW n, ~up'[n]
  PROVE  Knows(T, n)'
BY DEF Knows, OwnVector, OtherVectors, Suspicions, LinesOf, Settled

LEMMA DepartsKeeps ==
  ASSUME TypeOK, NEW T \in Trouble, Tolerates(T), NEW n \in Node, Departs(T, n)
  PROVE  Tolerates(T)'
<1>1. /\ slice = "MEMBERSHIP" /\ UNCHANGED <<turn, slice, latest, out, late, asleep, starts, faulty, calm>>
      /\ n \notin ran /\ ran' = ran \cup {n} /\ up[n]
      /\ Leaving(T) /\ turn = T.node /\ n = turn /\ ProcessEnds(n)
  BY DEF Departs
<1>2. /\ ~up'[n] /\ \A p \in Node \ {n} : up'[p] = up[p] /\ view'[p] = view[p]
      /\ \A p \in Node : up'[p] => up[p]
  <2>1. ~up'[n] /\ \A p \in Node \ {n} : up'[p] = up[p] /\ view'[p] = view[p]
    BY <1>1 DEF ProcessEnds, TypeOK
  <2> QED
    BY <2>1
<1>3. /\ Standing(T) /\ Quiet /\ Present(T) /\ Phase(T) /\ Seen(T) /\ Withheld(T)
      /\ T.kind # "FROZEN" /\ Knowing(T) /\ T.group \in SUBSET Node
  BY <1>1 DEF Tolerates, Standing, Leaving, Trouble
<1>4. \A m : Purged(T, m)' <=> Purged(T, m) \/ m = n
  BY <1>1 DEF Purged, Deciding
<1>5. Quiet' /\ Phase(T)' /\ Sources(T)' /\ InOrder(T)' /\ Mailboxes(T)' /\ Senders(T)'
  BY <1>1, <1>3, OutsideSend DEF Knowing
<1>6. Present(T)'
  <2>1. n \in faulty
    BY <1>1, <1>3 DEF Present, Leaving
  <2>2. \A m \in T.group : m # n => up'[m] = up[m]
    BY <1>2, <1>3
  <2>3. \A m \in faulty' : up'[m] => m \in faulty /\ up[m]
    BY <1>1, <1>2 DEF TypeOK
  <2> QED
    BY <1>1, <1>2, <1>3, <1>4, <2>1, <2>2, <2>3 DEF Present
<1>7. ASSUME NEW p \in Node, p # n
      PROVE  Knows(T, p)' /\ (up[p] => Sees(T, p)')
  <2>1. Knows(T, p) /\ (up[p] => Sees(T, p))
    BY <1>3 DEF Knowing, Seen
  <2> QED
    BY <1>1, <1>2, <1>7, <2>1, BystanderKnows
<1>8. Withheld(T)'
  BY <1>1, <1>3 DEF Withheld, Deciding, Delivered
<1>9. Seen(T)' /\ Knowing(T)'
  BY <1>2, <1>5, <1>7, EndedKnows DEF Seen, Knowing
<1> QED
  BY <1>5, <1>6, <1>8, <1>9 DEF Tolerates, Standing

LEMMA MembershipKeeps ==
  ASSUME TypeOK, MessageHeld, NEW T \in Trouble, Tolerates(T), NEW n \in Node, Handler(n),
         slice = "MEMBERSHIP"
  PROVE  Tolerates(T)'
BY MembershipWorks, JudgesKeeps, ExpelsKeeps, DepartsKeeps

-----------------------------------------------------------------------------
(* What the receivers do                                                    *)

\* n listens to the sender and hears it or does not.
Listens(n, heard) ==
  /\ slice = "SEND" /\ turn # n /\ Works(n) /\ UNCHANGED <<latest, out>>
  /\ turn \in ran \/ ~up[turn]
  /\ view'[n].stage = view[n].stage /\ view'[n].count = view[n].count
  /\ \A i \in Node \ {n, turn} : view'[n].vv[i] = view[n].vv[i]
  /\ view'[n].vv[n] = [view[n].vv[n] EXCEPT ![turn] = IF heard THEN "RECEIVED" ELSE "NOT_RECEIVED"]
  /\ \A i \in Node \ {turn} : /\ view'[n].sus[i] = view[n].sus[i]
                              /\ view'[n].last[i] = view[n].last[i]
  /\ \A m \in Node \ {n} : sock'[m] = sock[m]
  /\ \A k \in FromSender(n)' : \E l \in FromSender(n) : sock'[n][k] = sock[n][l]

\* n hears the sender, ...
Takes(T, n) ==
  /\ Listens(n, TRUE) /\ turn \in T.group \cap ran
  /\ T.kind # "FROZEN" =>
       /\ ~Misses(T, n, turn)
       /\ \A j \in T.group \ {turn} :
            view'[n].vv[turn][j] = IF Reports(T, turn, j) THEN "NOT_RECEIVED" ELSE "RECEIVED"
       /\ view'[n].sus[turn].flag <=> Reports(T, turn, Prev(T.group, turn))
       /\ view'[n].sus[turn].flag => view'[n].sus[turn].trigger = Prev(T.group, turn)
       /\ view'[n].last[turn] = latest[turn]

\* ... or waits in vain.
Waits(T, n) ==
  /\ Listens(n, FALSE)
  /\ T.kind # "FROZEN" /\ turn \in T.group =>
       /\ Misses(T, n, turn) /\ view'[n].sus = view[n].sus
       /\ \A j \in Node : view'[n].vv[turn][j] = "NO_INFO"

LEMMA ReceiveMessageWorks ==
  ASSUME TypeOK, NEW T \in Trouble, Tolerates(T), NEW n \in Node, ReceiveMessage(n)
  PROVE  Takes(T, n)
<1>1. PICK first \in FirstFromSender(n) :
        /\ view' = [view EXCEPT ![n] = AfterReceiving(n, sock[n][first])]
        /\ sock' = [sock EXCEPT ![n] = SubSeq(@, first + 1, Len(@))]
  BY DEF ReceiveMessage
<1>2. /\ view[n] \in View /\ turn \in Node
      /\ sock \in [Node -> Seq(Message)] /\ first \in FromSender(n)
  BY DEF TypeOK, FirstFromSender
<1>3. /\ Wakes(n, "SEND") /\ slice = "SEND" /\ turn # n /\ up[n] /\ n \notin ran
      /\ UNCHANGED <<up, age, turn, slice, out, latest, late, asleep, starts, faulty, calm>>
  BY DEF ReceiveMessage, Receives, Wakes
<1>4. Standing(T) /\ turn \in T.group \cap ran
  BY <1>2, <1>3 DEF Tolerates, Standing, Sources
<1>5. view[n].stage[n] = "MEMBER" /\ view[n].stage[turn] = "MEMBER"
  BY <1>2, <1>3, <1>4, MemberSees
<1> DEFINE msg == sock[n][first]
           v   == UpdateView(view[n], n, turn, msg.vector)
           told == v.stage[n] # "MEMBER" /\ msg.stage = "MEMBER"
           w == [v EXCEPT !.flag        = @ \/ told,
                          !.count       = IF told /\ v.stage[turn] # "MEMBER"
                                          THEN @ + 1 ELSE @,
                          !.stage[turn] = ReceivedStage(v, n, msg),
                          !.last[turn]  = msg.body,
                          !.sus[turn]   = msg.sus]
<1>6. w = AfterReceiving(n, msg)
  BY DEF AfterReceiving
<1>7. view' = [view EXCEPT ![n] = w]
  BY <1>1, <1>6
<1> HIDE DEF msg
<1>8. v \in View
  BY <1>2, UpdateViewType
<1>9. /\ v.stage = view[n].stage /\ v.sus = view[n].sus /\ v.last = view[n].last
      /\ v.count = view[n].count
      /\ \A i \in Node \ {n, turn} : v.vv[i] = view[n].vv[i]
      /\ v.vv[n] = [view[n].vv[n] EXCEPT ![turn] = "RECEIVED"]
      /\ \A j \in Node : v.vv[turn][j] = IF j \in msg.vector THEN "RECEIVED" ELSE "NOT_RECEIVED"
  BY <1>2, <1>3 DEF UpdateView, View
<1>10. ~told /\ ReceivedStage(v, n, msg) = "MEMBER"
  BY <1>5, <1>9 DEF ReceivedStage
<1> HIDE DEF v, told
<1>11. /\ w.stage = [v.stage EXCEPT ![turn] = ReceivedStage(v, n, msg)]
       /\ w.last = [v.last EXCEPT ![turn] = msg.body]
       /\ w.vv = v.vv
       /\ w.sus = [v.sus EXCEPT ![turn] = msg.sus]
       /\ w.count = IF told /\ v.stage[turn] # "MEMBER" THEN v.count + 1 ELSE v.count
  BY <1>8 DEF View
<1> HIDE DEF w
<1>12. Runs(n) /\ view'[n] = w
  BY <1>3, <1>7, RunsOn
<1>13. w.stage = view[n].stage /\ w.count = view[n].count
  <2>1. view[n].stage \in [Node -> Stage]
    BY <1>2 DEF View
  <2>2. w.stage = [view[n].stage EXCEPT ![turn] = "MEMBER"]
    BY <1>9, <1>10, <1>11
  <2>3. w.stage = view[n].stage
    BY <1>2, <1>5, <2>1, <2>2
  <2> QED
    BY <1>9, <1>10, <1>11, <2>3
<1>14. \A i \in Node \ {turn} : w.sus[i] = view[n].sus[i] /\ w.last[i] = view[n].last[i]
  <2>1. view[n].sus \in [Node -> Suspicion] /\ view[n].last \in [Node -> Body \cup {Null}]
    BY <1>2 DEF View
  <2> QED
    BY <1>9, <1>11, <2>1
<1>15. w.sus[turn] = msg.sus /\ w.last[turn] = msg.body
  <2>1. v.sus \in [Node -> Suspicion] /\ v.last \in [Node -> Body \cup {Null}]
    BY <1>8 DEF View
  <2> QED
    BY <1>2, <1>11, <2>1
<1>16. /\ \A m \in Node \ {n} : sock'[m] = sock[m]
       /\ sock'[n] = SubSeq(sock[n], first + 1, Len(sock[n]))
  BY <1>1, <1>2
<1>17. \A k \in FromSender(n)' : \E l \in FromSender(n) : sock'[n][k] = sock[n][l]
  <2>1. first \in Nat /\ Len(sock[n]) \in Nat /\ sock[n] \in Seq(Message)
    BY <1>2, LenProperties DEF FromSender
  <2>2. Len(sock[n]) \in 0..Len(sock[n])
    BY <2>1
  <2>3. \A k \in DOMAIN sock'[n] : k + first \in DOMAIN sock[n] /\ sock'[n][k] = sock[n][k + first]
    BY <1>16, <2>1, <2>2, SubSequence
  <2> QED
    BY <1>3, <2>3 DEF FromSender
<1>18. Listens(n, TRUE)
  <2>1. Works(n)
    BY <1>3, <1>12 DEF Works
  <2>2. view'[n].stage = view[n].stage /\ view'[n].count = view[n].count
    BY <1>12, <1>13
  <2>3. /\ \A i \in Node \ {n, turn} : view'[n].vv[i] = view[n].vv[i]
        /\ view'[n].vv[n] = [view[n].vv[n] EXCEPT ![turn] = "RECEIVED"]
    BY <1>9, <1>11, <1>12
  <2>4. \A i \in Node \ {turn} : view'[n].sus[i] = view[n].sus[i] /\ view'[n].last[i] = view[n].last[i]
    BY <1>12, <1>14
  <2> QED
    BY <1>3, <1>4, <1>16, <1>17, <2>1, <2>2, <2>3, <2>4 DEF Listens
<1>19. ASSUME T.kind # "FROZEN"
       PROVE  /\ ~Misses(T, n, turn)
              /\ \A j \in T.group \ {turn} :
                   view'[n].vv[turn][j] = IF Reports(T, turn, j) THEN "NOT_RECEIVED" ELSE "RECEIVED"
              /\ view'[n].sus[turn].flag <=> Reports(T, turn, Prev(T.group, turn))
              /\ view'[n].sus[turn].flag => view'[n].sus[turn].trigger = Prev(T.group, turn)
              /\ view'[n].last[turn] = latest[turn]
  <2>1. ~Misses(T, n, turn) /\ Says(T, msg)
    BY <1>2, <1>3, <1>19 DEF Tolerates, Knowing, Mailboxes, Mailbox, msg
  <2>2. T.group \in SUBSET Node
    BY DEF Trouble
  <2>3. \A j \in T.group \ {turn} :
          view'[n].vv[turn][j] = IF Reports(T, turn, j) THEN "NOT_RECEIVED" ELSE "RECEIVED"
    BY <1>9, <1>11, <1>12, <2>1, <2>2 DEF Says
  <2> QED
    BY <1>12, <1>15, <2>1, <2>3 DEF Says
<1> QED
  BY <1>4, <1>18, <1>19 DEF Takes

LEMMA ReceiveNothingWorks ==
  ASSUME TypeOK, NEW T \in Trouble, Tolerates(T), NEW n \in Node, ReceiveNothing(n)
  PROVE  Waits(T, n)
<1> DEFINE u == ForgetView(view[n], n, turn)
           v == [u EXCEPT !.last[turn] = Null]
<1>1. view[n] \in View /\ turn \in Node /\ sock \in [Node -> Seq(Message)]
  BY DEF TypeOK
<1>2. /\ Wakes(n, "SEND") /\ slice = "SEND" /\ turn # n /\ up[n] /\ n \notin ran
      /\ FromSender(n) = {} /\ (turn \in ran \/ ~up[turn])
      /\ UNCHANGED <<up, age, turn, slice, out, latest, late, asleep, starts, faulty, calm>>
      /\ sock' = [sock EXCEPT ![n] = <<>>]
  BY DEF ReceiveNothing, Receives, Wakes
<1>3. Standing(T)
  BY DEF Tolerates
<1>4. view[n].stage[n] = "MEMBER" /\ view[n].stage[turn] # "ACTIVE"
  BY <1>1, <1>2, <1>3, MemberSees
<1>5. u \in View
  BY <1>1, ForgetViewType
<1>6. /\ u.stage = view[n].stage /\ u.sus = view[n].sus /\ u.last = view[n].last
      /\ u.count = view[n].count
      /\ \A i \in Node \ {n, turn} : u.vv[i] = view[n].vv[i]
      /\ u.vv[n] = [view[n].vv[n] EXCEPT ![turn] = "NOT_RECEIVED"]
      /\ \A j \in Node : u.vv[turn][j] = "NO_INFO"
  BY <1>1, <1>2 DEF ForgetView, View
<1> HIDE DEF u
<1>7. /\ v.stage = u.stage /\ v.sus = u.sus /\ v.count = u.count
      /\ v.vv = u.vv /\ v.last = [u.last EXCEPT ![turn] = Null]
  BY <1>1, <1>5 DEF View
<1>8. view' = [view EXCEPT ![n] = v]
  <2>1. v.stage[turn] # "ACTIVE" /\ v.stage[n] = "MEMBER"
    BY <1>4, <1>6, <1>7
  <2> QED
    BY <2>1 DEF ReceiveNothing, u
<1> HIDE DEF v
<1>9. Runs(n) /\ view'[n] = v
  BY <1>2, <1>8, RunsOn
<1>10. /\ \A m \in Node \ {n} : sock'[m] = sock[m]
       /\ FromSender(n)' = {}
  BY <1>1, <1>2 DEF FromSender
<1>11. Listens(n, FALSE)
  <2>1. Works(n)
    BY <1>2, <1>9 DEF Works
  <2>2. \A i \in Node \ {turn} : v.last[i] = view[n].last[i]
    <3>1. u.last \in [Node -> Body \cup {Null}]
      BY <1>5 DEF View
    <3> QED
      BY <1>6, <1>7, <3>1
  <2>3. view'[n].stage = view[n].stage /\ view'[n].count = view[n].count
    BY <1>6, <1>7, <1>9
  <2>4. /\ \A i \in Node \ {n, turn} : view'[n].vv[i] = view[n].vv[i]
        /\ view'[n].vv[n] = [view[n].vv[n] EXCEPT ![turn] = "NOT_RECEIVED"]
    BY <1>6, <1>7, <1>9
  <2>5. \A i \in Node \ {turn} : view'[n].sus[i] = view[n].sus[i] /\ view'[n].last[i] = view[n].last[i]
    BY <1>6, <1>7, <1>9, <2>2
  <2> QED
    BY <1>2, <1>10, <2>1, <2>3, <2>4, <2>5 DEF Listens
<1>12. ASSUME T.kind # "FROZEN", turn \in T.group
       PROVE  Misses(T, n, turn)
  BY <1>2, <1>12 DEF Tolerates, Knowing, Mailboxes, Mailbox
<1> QED
  BY <1>6, <1>7, <1>9, <1>11, <1>12 DEF Waits

\* All that can happen in a SEND slice
LEMMA SendHandler ==
  ASSUME TypeOK, NEW T \in Trouble, Tolerates(T), NEW n \in Node, Handler(n),
         slice # "MEMBERSHIP"
  PROVE  /\ slice = "SEND" /\ n \in T.group
         /\ \/ turn = n /\ SendMessage(n)
            \/ turn # n /\ (Takes(T, n) \/ Waits(T, n))
<1>1. up[n] /\ n \notin ran /\ Standing(T)
  BY Waking DEF Tolerates
<1>2. n \in T.group /\ view[n].stage[n] = "MEMBER"
  BY <1>1, MemberSees
<1>3. /\ slice = "SEND"
      /\ \/ turn = n /\ SendMessage(n)
         \/ turn # n /\ (ReceiveMessage(n) \/ ReceiveNothing(n))
  BY <1>2 DEF Handler, EnterMembership, MembershipDecision, NoDecision, SendMessage,
     SendInit, SendNothing, ReceiveMessage, ReceiveNothing, Receives, Wakes
<1> QED
  BY <1>2, <1>3, ReceiveMessageWorks, ReceiveNothingWorks

-----------------------------------------------------------------------------
(* The receivers keep the invariant                                         *)

LEMMA ListensFacts ==
  ASSUME NEW T, NEW n \in Node, NEW heard, Listens(n, heard)
  PROVE  /\ slice = "SEND" /\ turn # n /\ up[n] /\ n \notin ran /\ ran' = ran \cup {n}
         /\ turn \in ran \/ ~up[turn]
         /\ UNCHANGED <<up, turn, slice, out, latest, late, asleep, starts, faulty, calm>>
         /\ \A m \in Node \ {n} : view'[m] = view[m] /\ out'[m] = out[m] /\ sock'[m] = sock[m]
         /\ \A i : ~Deciding(i) /\ ~Deciding(i)'
         /\ \A m : /\ ~Purged(T, m) /\ ~Purged(T, m)'
                   /\ GroupOf(T, m) = T.group /\ GroupOf(T, m)' = T.group
         /\ \A i, j : Reports(T, i, j)' <=> Reports(T, i, j)
         /\ \A i : ~Listening(n, i)' /\ (Listening(n, i) <=> i = turn)
         /\ \A i : Settled(T, n, i)' <=> \/ Settled(T, n, i)
                                         \/ i = turn /\ turn \in T.group
<1>1. /\ slice = "SEND" /\ turn # n /\ up[n] /\ n \notin ran /\ ran' = ran \cup {n}
      /\ turn \in ran \/ ~up[turn]
      /\ UNCHANGED <<up, turn, slice, out, latest, late, asleep, starts, faulty, calm>>
      /\ \A m \in Node \ {n} : view'[m] = view[m] /\ out'[m] = out[m] /\ sock'[m] = sock[m]
  BY DEF Listens, Works, Runs
<1>2. \A i : ~Deciding(i) /\ ~Deciding(i)'
  BY <1>1 DEF Deciding
<1>3. \A m : /\ ~Purged(T, m) /\ ~Purged(T, m)'
             /\ GroupOf(T, m) = T.group /\ GroupOf(T, m)' = T.group
  BY <1>2 DEF Purged, GroupOf
<1>4. \A i, j : Reports(T, i, j)' <=> Reports(T, i, j)
  BY <1>1, TimeStands
<1>5. \A i : ~Listening(n, i)' /\ (Listening(n, i) <=> i = turn)
  BY <1>1 DEF Listening
<1>6. \A i : Settled(T, n, i)' <=> \/ Settled(T, n, i)
                                   \/ i = turn /\ turn \in T.group
  BY <1>1, <1>5 DEF Settled
<1> QED
  BY <1>1, <1>2, <1>3, <1>4, <1>5, <1>6

LEMMA ListensKnows ==
  ASSUME TypeOK, NEW T \in Trouble, Present(T), NEW n \in Node, Knows(T, n),
         T.kind # "FROZEN", Takes(T, n) \/ Waits(T, n)
  PROVE  Knows(T, n)'
<1> DEFINE prev == Prev(T.group, turn)
<1>1. PICK heard \in BOOLEAN :
        /\ Listens(n, heard)
        /\ heard => Takes(T, n)
        /\ ~heard => Waits(T, n)
  BY DEF Takes, Waits
<1>2. /\ slice = "SEND" /\ turn # n /\ up[n] /\ turn \in Node
      /\ UNCHANGED <<turn, latest>>
      /\ \A i : ~Deciding(i) /\ ~Deciding(i)'
      /\ ~Purged(T, n) /\ ~Purged(T, n)'
      /\ GroupOf(T, n) = T.group /\ GroupOf(T, n)' = T.group
      /\ \A i, j : Reports(T, i, j)' <=> Reports(T, i, j)
      /\ \A i : ~Listening(n, i)' /\ (Listening(n, i) <=> i = turn)
      /\ \A i : Settled(T, n, i)' <=> Settled(T, n, i) \/ (i = turn /\ turn \in T.group)
  BY <1>1, ListensFacts DEF TypeOK
<1>3. /\ \A i \in Node \ {n, turn} : view'[n].vv[i] = view[n].vv[i]
      /\ view'[n].vv[n] = [view[n].vv[n] EXCEPT ![turn] = IF heard THEN "RECEIVED" ELSE "NOT_RECEIVED"]
      /\ \A i \in Node \ {turn} : /\ view'[n].sus[i] = view[n].sus[i]
                                  /\ view'[n].last[i] = view[n].last[i]
  BY <1>1 DEF Listens
<1>4. ASSUME turn \in T.group
      PROVE  /\ heard <=> ~Misses(T, n, turn)
             /\ \A j \in T.group \ {turn} : view'[n].vv[turn][j] = Reported(T, n, turn, j)
             /\ view'[n].sus[turn].flag <=> Reports(T, turn, prev)
             /\ view'[n].sus[turn].flag => view'[n].sus[turn].trigger = prev
             /\ heard => view'[n].last[turn] = latest[turn]
  <2>1. CASE heard
    BY <1>1, <2>1 DEF Takes, Reported
  <2>2. CASE ~heard
    <3>1. /\ Misses(T, n, turn) /\ view'[n].sus = view[n].sus
          /\ \A j \in Node : view'[n].vv[turn][j] = "NO_INFO"
      BY <1>1, <1>4, <2>2 DEF Waits
    <3>2. ~Lost(T, turn, prev)
      BY <1>2, <3>1 DEF Misses, Lost
    <3>3. ~Estranged(T, n, turn)
      BY <1>2, <3>1 DEF Estranged, Misses
    <3>4. ~view[n].sus[turn].flag
      BY <1>2, <1>4, <3>2, <3>3 DEF Knows, Suspicions, Suspects
    <3>5. \A j \in T.group \ {turn} : view'[n].vv[turn][j] = Reported(T, n, turn, j)
      BY <3>1 DEF Reported, Trouble
    <3> QED
      BY <2>2, <3>1, <3>2, <3>4, <3>5 DEF Reports
  <2> QED
    BY <2>1, <2>2
<1>5. OwnVector(T, n)'
  <2> SUFFICES ASSUME NEW i \in Node, Settled(T, n, i)'
               PROVE  view'[n].vv[n][i] = IF Misses(T, n, i) THEN "NOT_RECEIVED" ELSE "RECEIVED"
    BY DEF OwnVector
  <2>1. view[n].vv[n] \in [Node -> Information]
    <3>1. view[n] \in View
      BY DEF TypeOK
    <3> QED
      BY <3>1 DEF View
  <2>2. CASE i = turn
    <3>1. turn \in T.group
      BY <2>2 DEF Settled
    <3>2. view'[n].vv[n][i] = IF heard THEN "RECEIVED" ELSE "NOT_RECEIVED"
      BY <1>2, <1>3, <2>1, <2>2
    <3> QED
      BY <1>4, <2>2, <3>1, <3>2
  <2>3. CASE i # turn
    <3>1. view'[n].vv[n][i] = view[n].vv[n][i]
      BY <1>3, <2>1, <2>3
    <3> QED
      BY <1>2, <2>3, <3>1 DEF Knows, OwnVector
  <2> QED
    BY <2>2, <2>3
<1>6. OtherVectors(T, n)'
  <2> SUFFICES ASSUME NEW i \in Node, Settled(T, n, i)', NEW j \in T.group \ {i}
               PROVE  view'[n].vv[i][j] = Reported(T, n, i, j)'
    BY DEF OtherVectors
  <2>1. Reported(T, n, i, j)' = Reported(T, n, i, j)
    BY <1>2 DEF Reported
  <2>2. CASE i = turn
    <3>1. turn \in T.group
      BY <2>2 DEF Settled
    <3> QED
      BY <1>4, <2>1, <2>2, <3>1
  <2>3. CASE i # turn
    <3>1. Settled(T, n, i) /\ i # n
      BY <1>2, <2>3 DEF Settled
    <3> QED
      BY <1>3, <2>1, <2>3, <3>1 DEF Knows, OtherVectors
  <2> QED
    BY <2>2, <2>3
<1>7. Suspicions(T, n)'
  <2> SUFFICES ASSUME NEW i \in T.group
               PROVE  /\ view'[n].sus[i].flag <=> Suspects(T, n, i)'
                      /\ view'[n].sus[i].flag => view'[n].sus[i].trigger = Prev(T.group, i)
    BY <1>2 DEF Suspicions
  <2>1. CASE i = turn
    <3>1. Suspects(T, n, i)' <=> Reports(T, turn, prev)
      BY <1>2, <2>1 DEF Suspects, Reports
    <3> QED
      BY <1>4, <2>1, <3>1
  <2>2. CASE i # turn
    <3>1. Suspects(T, n, i)' <=> Suspects(T, n, i)
      BY <1>2, <2>2 DEF Suspects
    <3>2. ~Estranged(T, n, i)
      BY <1>2, <2>2 DEF Estranged
    <3>3. i \in Node
      BY DEF Trouble
    <3> QED
      BY <1>2, <1>3, <2>2, <3>1, <3>2, <3>3 DEF Knows, Suspicions
  <2> QED
    BY <2>1, <2>2
<1>8. LinesOf(T, n)'
  <2> SUFFICES ASSUME NEW i \in Node, Settled(T, n, i)', ~Misses(T, n, i)
               PROVE  view'[n].last[i] = latest[i]
    BY <1>2 DEF LinesOf, LineOf
  <2>1. CASE i = turn
    <3>1. turn \in T.group
      BY <2>1 DEF Settled
    <3> QED
      BY <1>4, <2>1, <3>1
  <2>2. CASE i # turn
    <3>1. Settled(T, n, i)
      BY <1>2, <2>2
    <3> QED
      BY <1>2, <1>3, <2>2, <3>1 DEF Knows, LinesOf, LineOf
  <2> QED
    BY <2>1, <2>2
<1> QED
  BY <1>5, <1>6, <1>7, <1>8 DEF Knows

LEMMA ListensStands ==
  ASSUME TypeOK, NEW T \in Trouble, Standing(T), NEW n \in Node, NEW heard, Listens(n, heard)
  PROVE  Standing(T)'
<1>1. /\ slice = "SEND" /\ turn # n /\ up[n] /\ n \notin ran /\ ran' = ran \cup {n}
      /\ UNCHANGED <<up, turn, slice, out, latest, late, asleep, starts, faulty, calm>>
      /\ \A m \in Node \ {n} : view'[m] = view[m] /\ sock'[m] = sock[m]
      /\ \A i : ~Deciding(i) /\ ~Deciding(i)'
      /\ \A m : /\ ~Purged(T, m) /\ ~Purged(T, m)'
                /\ GroupOf(T, m) = T.group /\ GroupOf(T, m)' = T.group
  BY ListensFacts
<1>2. /\ view'[n].stage = view[n].stage /\ view'[n].count = view[n].count
      /\ \A k \in FromSender(n)' : \E l \in FromSender(n) : sock'[n][k] = sock[n][l]
  BY DEF Listens
<1>3. Quiet /\ Present(T) /\ Phase(T) /\ Seen(T) /\ Sources(T)
  BY DEF Standing
<1>4. Quiet' /\ Withheld(T)'
  BY <1>1, <1>3 DEF Quiet, Withheld
<1>5. Present(T)'
  BY <1>1, <1>3 DEF Present
<1>6. Phase(T)'
  BY <1>1, <1>3, PhaseStands
<1>7. Seen(T)'
  <2> SUFFICES ASSUME NEW p \in Node, up[p]
               PROVE  Sees(T, p)'
    BY <1>1 DEF Seen
  <2>1. Sees(T, p)
    BY <1>3 DEF Seen
  <2>2. view'[p].stage = view[p].stage /\ view'[p].count = view[p].count
    BY <1>1, <1>2
  <2> QED
    BY <1>1, <2>1, <2>2 DEF Sees, Members
<1>8. Sources(T)'
  <2> SUFFICES ASSUME NEW m \in Node, NEW k \in FromSender(m)'
               PROVE  turn \in T.group \cap ran
    BY <1>1 DEF Sources
  <2>1. FromSender(m) # {}
    BY <1>1, <1>2 DEF FromSender
  <2> QED
    BY <1>1, <1>3, <2>1 DEF Sources
<1> QED
  BY <1>4, <1>5, <1>6, <1>7, <1>8 DEF Standing

LEMMA ListensKeeps ==
  ASSUME TypeOK, NEW T \in Trouble, Tolerates(T), NEW n \in Node, Takes(T, n) \/ Waits(T, n)
  PROVE  Tolerates(T)'
<1>1. PICK heard \in BOOLEAN : Listens(n, heard)
  BY DEF Takes, Waits
<1>2. /\ slice = "SEND" /\ turn # n /\ up[n] /\ n \notin ran /\ ran' = ran \cup {n}
      /\ turn \in ran \/ ~up[turn]
      /\ UNCHANGED <<up, turn, slice, out, latest>>
      /\ \A m \in Node \ {n} : view'[m] = view[m] /\ out'[m] = out[m] /\ sock'[m] = sock[m]
      /\ \A i, j : Reports(T, i, j)' <=> Reports(T, i, j)
  BY <1>1, ListensFacts
<1>3. Standing(T) /\ Present(T)
  BY DEF Tolerates, Standing
<1>4. Standing(T)'
  BY <1>1, <1>3, ListensStands
<1>5. ASSUME T.kind # "FROZEN"
      PROVE  Knowing(T)'
  <2>1. Knowing(T)
    BY <1>5 DEF Tolerates
  <2>2. InOrder(T)' /\ Senders(T)'
    BY <1>2, <2>1 DEF InOrder, Senders, Knowing
  <2>3. ASSUME NEW m \in Node
        PROVE  Mailbox(T, m)'
    <3>1. Mailbox(T, m)
      BY <1>2, <2>1 DEF Knowing, Mailboxes
    <3>2. \A msg : Says(T, msg)' <=> Says(T, msg)
      BY <1>2 DEF Says
    <3>3. \A k \in FromSender(m)' : \E l \in FromSender(m) : sock'[m][k] = sock[m][l]
      BY <1>1, <1>2 DEF FromSender, Listens
    <3>4. \A k \in FromSender(m)' : ~Misses(T, m, turn)' /\ Says(T, sock[m][k])'
      <4>1. \A k \in FromSender(m)' : ~Misses(T, m, turn)' /\ Says(T, sock'[m][k])
        BY <1>2, <3>1, <3>3 DEF Mailbox
      <4> QED
        BY <1>2, <4>1 DEF Says
    <3>5. CASE m = n
      BY <1>2, <3>4, <3>5 DEF Mailbox
    <3>6. CASE m # n
      <4>1. FromSender(m)' = FromSender(m)
        BY <1>2, <3>6 DEF FromSender
      <4> QED
        BY <1>2, <3>1, <3>4, <3>6, <4>1 DEF Mailbox
    <3> QED
      BY <3>5, <3>6
  <2>4. ASSUME NEW p \in Node
        PROVE  Knows(T, p)'
    <3>1. Knows(T, p)
      BY <2>1 DEF Knowing
    <3>2. CASE p = n
      BY <1>3, <1>5, <3>1, <3>2, ListensKnows
    <3>3. CASE p # n
      BY <1>2, <3>1, <3>3, BystanderKnows
    <3> QED
      BY <3>2, <3>3
  <2> QED
    BY <2>2, <2>3, <2>4 DEF Knowing, Mailboxes
<1> QED
  BY <1>4, <1>5 DEF Tolerates

-----------------------------------------------------------------------------
(* The sender                                                               *)

\* n broadcasts its message to those in heard.
Speaks(n, heard) ==
  /\ slice = "SEND" /\ turn = n /\ Runs(n) /\ UNCHANGED <<out, late, asleep, starts>>
  /\ view'[n].stage = view[n].stage /\ view'[n].vv = view[n].vv
  /\ view'[n].sus = view[n].sus /\ view'[n].count = view[n].count
  /\ \A i \in Node \ {n} : view'[n].last[i] = view[n].last[i] /\ latest'[i] = latest[i]
  /\ \E msg \in Message :
       /\ msg.nodeID = n /\ msg.vector = ArrayToByte(view[n], n)
       /\ msg.sus = view[n].sus[n] /\ msg.body = latest'[n]
       /\ sock' = [m \in Node |-> IF m \in heard THEN sock[m] \o <<msg, msg>> ELSE sock[m]]

LEMMA SendMessageSpeaks ==
  ASSUME TypeOK, NEW n \in Node, SendMessage(n)
  PROVE  \E heard \in SUBSET Listeners(n) : Heard(n, heard) /\ Speaks(n, heard)
<1> DEFINE body == IF Fetches(n) THEN bcast + 1 ELSE Empty
           w    == [view[n] EXCEPT !.last[n] = body]
<1>1. view[n] \in View /\ latest \in [Node -> Body]
  BY DEF TypeOK
<1>2. PICK msg : msg = PrepareMsg(n, "MEMBER", body)
  OBVIOUS
<1>3. /\ Wakes(n, "SEND") /\ slice = "SEND" /\ turn = n
      /\ UNCHANGED <<up, age, out, late, asleep, starts>> /\ BroadcastMessage(n, msg)
      /\ latest' = [latest EXCEPT ![n] = body]
  BY <1>2 DEF SendMessage, Wakes
<1>4. view' = [view EXCEPT ![n] = w]
  BY DEF SendMessage
<1>5. /\ w.stage = view[n].stage /\ w.vv = view[n].vv /\ w.sus = view[n].sus
      /\ w.count = view[n].count
      /\ \A s \in Node \ {n} : w.last[s] = view[n].last[s]
  BY <1>1 DEF View
<1>6. msg \in Message
  <2>1. body \in Body /\ "MEMBER" \in Stage
    BY DEF TypeOK, Body, Empty, Stage
  <2> QED
    BY <1>2, <2>1, PrepareMsgType
<1> HIDE DEF w, body
<1>7. Runs(n) /\ view'[n] = w
  BY <1>1, <1>3, <1>4, RunsOn
<1>8. latest'[n] = body /\ \A s \in Node \ {n} : latest'[s] = latest[s]
  BY <1>1, <1>3
<1>9. /\ msg.nodeID = n /\ msg.vector = ArrayToByte(view[n], n)
      /\ msg.sus = view[n].sus[n] /\ msg.body = body
  BY <1>2 DEF PrepareMsg
<1>10. PICK heard \in SUBSET Listeners(n) :
         /\ Heard(n, heard)
         /\ sock' = [m \in Node |-> IF m \in heard THEN sock[m] \o <<msg, msg>> ELSE sock[m]]
  BY <1>3 DEF BroadcastMessage
<1>11. Speaks(n, heard)
  BY <1>3, <1>5, <1>6, <1>7, <1>8, <1>9, <1>10 DEF Speaks
<1> QED
  BY <1>10, <1>11

\* Whom the members have heard and missed makes sense.
Sound(T) ==
  /\ \A n \in Node : up[n] => n \in T.group
  /\ T.kind \in {"DEAF", "REPORTED"} => T.other # T.node
  /\ T.kind = "REPORTED" => Since(T.other) < Since(T.node)

LEMMA SoundTrouble ==
  ASSUME NEW T \in Trouble, Present(T), Phase(T)
  PROVE  Sound(T)
BY DEF Present, Phase, Sound

\* Who sends now has heard everybody last.
LEMMA SenderReports ==
  ASSUME TypeOK, NEW T \in Trouble, Sound(T), slice = "SEND",
         NEW j, Lost(T, turn, j)
  PROVE  Reports(T, turn, j) /\ T.kind # "REPORTED"
<1>0. turn \in Node
  BY DEF TypeOK
<1>1. turn \in Node /\ j \in Node /\ j # turn
  BY <1>0 DEF Lost, Trouble, Sound
<1>2. Since(turn) = 0 /\ Since(j) \in Nat /\ Since(j) > 0
  BY <1>1, SinceFacts
<1>3. T.kind # "REPORTED"
  BY <1>2 DEF Sound, Lost
<1> QED
  BY <1>2, <1>3 DEF Reports

LEMMA SpeaksKnows ==
  ASSUME TypeOK, NEW T \in Trouble, Sound(T), Sources(T), Knowing(T),
         NEW n \in Node, NEW heard, Speaks(n, heard),
         heard = {m \in Listeners(n) : ~Misses(T, m, n)}
  PROVE  Knowing(T)'
<1> DEFINE prev == Prev(T.group, n)
<1>1. /\ slice = "SEND" /\ turn = n /\ up[n] /\ n \notin ran /\ ran' = ran \cup {n}
      /\ UNCHANGED <<up, turn, slice, out>>
      /\ \A p \in Node \ {n} : view'[p] = view[p] /\ latest'[p] = latest[p]
      /\ view'[n].vv = view[n].vv /\ view'[n].sus = view[n].sus
      /\ \A i \in Node \ {n} : view'[n].last[i] = view[n].last[i]
  BY DEF Speaks, Runs
<1>2. /\ \A i : ~Deciding(i) /\ ~Deciding(i)'
      /\ \A m : /\ ~Purged(T, m) /\ ~Purged(T, m)'
                /\ GroupOf(T, m) = T.group /\ GroupOf(T, m)' = T.group
      /\ \A i, j : Reports(T, i, j)' <=> Reports(T, i, j)
  <2>1. \A i : ~Deciding(i) /\ ~Deciding(i)'
    BY <1>1 DEF Deciding
  <2>2. \A i, j : Reports(T, i, j)' <=> Reports(T, i, j)
    BY <1>1, TimeStands
  <2> QED
    BY <2>1, <2>2 DEF Purged, GroupOf
<1>3. \A p \in Node : up[p] => p \notin ran
  BY <1>1 DEF Knowing, InOrder
<1>4. n \in T.group /\ T.group \subseteq Node
  BY <1>1 DEF Sound, Trouble
<1>5. \A j : Reports(T, n, j) <=> Misses(T, n, j)
  <2>1. \A j : Lost(T, turn, j) => Reports(T, turn, j) /\ T.kind # "REPORTED"
    BY <1>1, SenderReports
  <2> QED
    BY <1>1, <2>1 DEF Reports, Misses
<1>6. InOrder(T)' /\ Senders(T)'
  BY <1>1, <1>4 DEF InOrder, Senders, Knowing
<1>7. PICK msg \in Message :
        /\ msg.nodeID = n /\ msg.vector = ArrayToByte(view[n], n)
        /\ msg.sus = view[n].sus[n] /\ msg.body = latest'[n]
        /\ sock' = [m \in Node |-> IF m \in heard THEN sock[m] \o <<msg, msg>> ELSE sock[m]]
  BY DEF Speaks
<1>8. Says(T, msg)'
  <2>1. Knows(T, n)
    BY DEF Knowing
  <2>2. ASSUME NEW j \in T.group \ {n}
        PROVE  j \in msg.vector <=> ~Reports(T, n, j)
    <3>1. Settled(T, n, j) /\ j \in Node
      BY <1>1, <1>4 DEF Settled, Listening
    <3>2. view[n].vv[n][j] = IF Misses(T, n, j) THEN "NOT_RECEIVED" ELSE "RECEIVED"
      BY <2>1, <3>1 DEF Knows, OwnVector
    <3>3. j \in msg.vector <=> view[n].vv[n][j] = "RECEIVED"
      BY <1>7, <2>2, <3>1 DEF ArrayToByte
    <3> QED
      BY <1>5, <3>2, <3>3
  <2>3. ~Estranged(T, n, n) /\ n \in GroupOf(T, n)
    BY <1>1, <1>2, <1>4 DEF Estranged, Sound
  <2>4. Suspects(T, n, n) <=> Reports(T, n, prev)
    BY <1>2 DEF Suspects, Reports
  <2>5. /\ msg.sus.flag <=> Reports(T, n, prev)
        /\ msg.sus.flag => msg.sus.trigger = prev
    BY <1>1, <1>7, <2>1, <2>3, <2>4 DEF Knows, Suspicions
  <2> QED
    BY <1>1, <1>2, <1>7, <2>2, <2>5 DEF Says
<1>9. ASSUME NEW m \in Node
      PROVE  Mailbox(T, m)'
  <2>1. FromSender(m) = {} /\ sock[m] \in Seq(Message)
    BY <1>1, <1>4 DEF Sources, TypeOK
  <2>2. CASE m \in heard
    <3>1. PICK q : q = sock[m] \o <<msg, msg>>
      OBVIOUS
    <3>2. sock'[m] = q
      BY <1>7, <2>2, <3>1
    <3>3. /\ \A k \in DOMAIN q : q[k] = msg \/ (k \in DOMAIN sock[m] /\ q[k] = sock[m][k])
          /\ \E k \in DOMAIN q : q[k] = msg
      <4>1. LET r == sock[m] \o <<msg, msg>>
            IN  /\ \A k \in DOMAIN r : r[k] = msg \/ (k \in DOMAIN sock[m] /\ r[k] = sock[m][k])
                /\ \E k \in DOMAIN r : r[k] = msg
        BY <2>1, TwoCopies, Zenon
      <4> QED
        BY <3>1, <4>1, Zenon
    <3>4. \A k \in FromSender(m)' : sock'[m][k] = msg
      BY <1>1, <2>1, <3>2, <3>3 DEF FromSender
    <3>5. FromSender(m)' # {}
      BY <1>1, <1>7, <3>2, <3>3 DEF FromSender
    <3>6. ~Misses(T, m, turn)'
      BY <1>1, <2>2 DEF Listeners
    <3>7. \A k \in FromSender(m)' : Says(T, sock[m][k])'
      BY <1>8, <3>4 DEF Says
    <3> QED
      BY <3>5, <3>6, <3>7 DEF Mailbox
  <2>3. CASE m \notin heard
    <3>1. sock'[m] = sock[m]
      BY <1>7, <2>3
    <3>2. FromSender(m)' = {}
      BY <1>1, <2>1, <3>1 DEF FromSender
    <3>3. up[m] /\ m # n => Misses(T, m, turn)'
      BY <1>1, <2>3 DEF Listeners
    <3> QED
      BY <1>1, <3>2, <3>3 DEF Mailbox
  <2> QED
    BY <2>2, <2>3
<1>10. ASSUME NEW p \in Node \ {n}
       PROVE  Knows(T, p)'
  <2>1. \A i \in Node : Settled(T, p, i) => latest'[i] = latest[i]
    <3>1. ~Settled(T, p, n)
      BY <1>1, <1>3 DEF Settled, Listening
    <3> QED
      BY <1>1, <3>1
  <2>2. Knows(T, p)
    BY DEF Knowing
  <2> QED
    BY <1>1, <2>1, <2>2, BystanderKnows
<1>11. Knows(T, n)'
  <2>1. Knows(T, n)
    BY DEF Knowing
  <2>2. /\ \A i : Settled(T, n, i)' <=> Settled(T, n, i)
        /\ \A i : Settled(T, n, i) => i # n
        /\ \A i : i # n => ~Listening(n, i) /\ ~Listening(n, i)'
    BY <1>1 DEF Settled, Listening
  <2>3. OwnVector(T, n)'
    BY <1>1, <2>1, <2>2 DEF Knows, OwnVector
  <2>4. OtherVectors(T, n)'
    <3>1. \A i, j : Reported(T, n, i, j)' = Reported(T, n, i, j)
      BY <1>2 DEF Reported
    <3> QED
      BY <1>1, <2>1, <2>2, <3>1 DEF Knows, OtherVectors
  <2>5. Suspicions(T, n)'
    <3>1. \A i : Suspects(T, n, i)' <=> Suspects(T, n, i)
      BY <1>2, <2>2 DEF Suspects
    <3>2. \A i : ~Estranged(T, n, i)
      BY <1>2, <2>2 DEF Estranged, Sound
    <3> QED
      BY <1>1, <1>2, <2>1, <3>1, <3>2 DEF Knows, Suspicions
  <2>6. LinesOf(T, n)'
    BY <1>1, <1>2, <2>1, <2>2 DEF Knows, LinesOf, LineOf
  <2> QED
    BY <2>3, <2>4, <2>5, <2>6 DEF Knows
<1> QED
  BY <1>6, <1>9, <1>10, <1>11 DEF Knowing, Mailboxes

-----------------------------------------------------------------------------
(* A broadcast fails                                                        *)

LEMMA WaitRange ==
  ASSUME TypeOK, NEW s \in Node
  PROVE  /\ Wait(s) \in Int /\ 0 <= Wait(s) /\ Wait(s) <= AMOUNT_NODES
         /\ Wait(s) = 0 <=> turn = s /\ slice = "MEMBERSHIP"
         /\ Wait(s) = AMOUNT_NODES <=> turn = s /\ slice # "MEMBERSHIP"
<1>1. /\ turn \in Int /\ 0 <= turn /\ turn < AMOUNT_NODES
      /\ s \in Int /\ 0 <= s /\ s < AMOUNT_NODES /\ AMOUNT_NODES \in Int
      /\ AMOUNT_NODES >= 3
  BY NodeFacts DEF TypeOK
<1>2. CASE turn = s /\ slice = "MEMBERSHIP"
  BY <1>1, <1>2 DEF Wait
<1>3. CASE turn = s /\ slice # "MEMBERSHIP"
  BY <1>1, <1>3 DEF Wait
<1>4. CASE turn # s
  BY <1>1, <1>4 DEF Wait
<1> QED
  BY <1>2, <1>3, <1>4

\* The next failure comes when the trouble is over.
LEMMA FailsFine ==
  ASSUME TypeOK, OneAtATime, NEW T \in Trouble, Phase(T), NEW kind, MayFail(kind)
  PROVE  T.kind \in {"FINE", "FROZEN"}
<1>1. T.node \in Node /\ T.other \in Node
  BY DEF Trouble
<1>2. /\ calm \in Nat /\ calm >= 2 * AMOUNT_NODES + 1
      /\ AMOUNT_NODES \in Nat /\ AMOUNT_NODES >= 3
  BY NodeFacts, BoundsAssumption DEF MayFail, OneAtATime
<1>3. /\ Wait(T.node) \in Int /\ Wait(T.node) >= 0
      /\ Wait(T.other) \in Int /\ Wait(T.other) >= 0
  BY <1>1, WaitRange
<1> DEFINE a == Wait(T.node)
           b == Wait(T.other)
<1> HIDE DEF a, b
<1>4. ~(calm + a <= AMOUNT_NODES) /\ ~(calm + a <= 2 * AMOUNT_NODES)
      /\ ~(calm + b <= AMOUNT_NODES) /\ ~(calm + a < 2 * AMOUNT_NODES)
  BY <1>2, <1>3 DEF a, b
<1> QED
  BY <1>4 DEF Phase, Trouble, a, b

\* Before the sender of this turn speaks nobody knows whether it will be heard.
LEMMA Relabel ==
  ASSUME TypeOK, NEW T \in Trouble, NEW U \in Trouble, U.group = T.group,
         T.kind \in {"FINE", "DOOMED"}, Knowing(T),
         \/ U.kind = "MUTE" /\ U.node = turn
         \/ U.kind = "DEAF" /\ U.other = turn /\ U.node # turn,
         slice = "SEND", turn \notin ran, up[turn],
         \A n \in Node : FromSender(n) = {}
  PROVE  Knowing(U)
<1>1. turn \in Node /\ T.group \subseteq Node
  BY DEF TypeOK, Trouble
<1>2. \A p \in Node : up[p] => p \notin ran
  BY DEF Knowing, InOrder
<1>3. \A i : ~Deciding(i)
  BY DEF Deciding
<1>4. \A i, j : ~Lost(T, i, j)
  BY DEF Lost
<1>5. \A i, j : Lost(U, i, j) => j = turn /\ i # turn
  BY DEF Lost
<1>6. \A i \in Node : \A j : ~Reports(U, i, j)
  <2> SUFFICES ASSUME NEW i \in Node, NEW j, Reports(U, i, j)
               PROVE  FALSE
    OBVIOUS
  <2>1. j = turn /\ i # turn /\ Since(i) < Since(turn)
    BY <1>5 DEF Reports
  <2>2. Since(turn) = 0 /\ Since(i) \in Nat
    BY <1>1, SinceFacts
  <2> QED
    BY <2>1, <2>2
<1>7. ASSUME NEW p \in Node
      PROVE  Knows(U, p)
  <2>1. /\ \A i : Settled(U, p, i) <=> Settled(T, p, i)
        /\ \A i : Settled(T, p, i) => up[p] /\ i # turn
    BY <1>2 DEF Settled, Listening
  <2>2. \A i : i # turn => ~Misses(T, p, i) /\ ~Misses(U, p, i)
    BY <1>4, <1>5 DEF Misses
  <2>3. Knows(T, p)
    BY DEF Knowing
  <2>4. OwnVector(U, p)
    BY <2>1, <2>2, <2>3 DEF Knows, OwnVector
  <2>5. OtherVectors(U, p)
    <3>1. ASSUME NEW i \in Node, i # turn, NEW j
          PROVE  Reported(U, p, i, j) = Reported(T, p, i, j)
      BY <1>4, <1>6, <2>2, <3>1 DEF Reported, Reports
    <3> QED
      BY <2>1, <2>3, <3>1 DEF Knows, OtherVectors
  <2>6. Suspicions(U, p)
    <3>1. GroupOf(U, p) = T.group /\ GroupOf(T, p) = T.group
      BY <1>3 DEF GroupOf, Purged
    <3>2. \A i \in Node : ~Suspects(T, p, i) /\ ~Suspects(U, p, i)
      BY <1>3, <1>4, <1>6 DEF Suspects
    <3>3. \A i : ~Estranged(T, p, i)
      BY DEF Estranged
    <3>4. \A i \in T.group : up[p] => ~view[p].sus[i].flag
      BY <1>1, <2>3, <3>1, <3>2, <3>3 DEF Knows, Suspicions
    <3> QED
      BY <1>1, <3>1, <3>2, <3>4 DEF Suspicions
  <2>7. LinesOf(U, p)
    BY <1>3, <2>1, <2>2, <2>3 DEF Knows, LinesOf, LineOf
  <2> QED
    BY <2>4, <2>5, <2>6, <2>7 DEF Knows
<1> QED
  BY <1>7 DEF Knowing, InOrder, Senders, Mailboxes, Mailbox

LEMMA SpeaksStands ==
  ASSUME TypeOK, NEW T \in Trouble, Standing(T), NEW U \in Trouble, U.group = T.group,
         NEW n \in Node, NEW heard, Speaks(n, heard), Present(U)', Phase(U)'
  PROVE  Standing(U)'
<1>1. /\ slice = "SEND" /\ turn = n /\ up[n] /\ n \notin ran /\ ran' = ran \cup {n}
      /\ UNCHANGED <<up, turn, slice, late, asleep, starts>>
      /\ \A p \in Node : view'[p].stage = view[p].stage /\ view'[p].count = view[p].count
  BY DEF Speaks, Runs
<1>2. /\ \A i : ~Deciding(i) /\ ~Deciding(i)'
      /\ \A m : GroupOf(T, m) = T.group /\ GroupOf(U, m)' = T.group
  <2>1. \A i : ~Deciding(i) /\ ~Deciding(i)'
    BY <1>1 DEF Deciding
  <2> QED
    BY <2>1 DEF Purged, GroupOf
<1>3. Quiet' /\ Withheld(U)'
  BY <1>1 DEF Standing, Quiet, Withheld, Deciding
<1>4. Seen(U)'
  BY <1>1, <1>2 DEF Standing, Seen, Sees, Members
<1>5. n \in T.group
  BY <1>1 DEF Standing, Present
<1>6. Sources(U)'
  BY <1>1, <1>5 DEF Sources
<1> QED
  BY <1>3, <1>4, <1>6 DEF Standing

\* The sender speaks, and all goes well.
LEMMA SpeaksWell ==
  ASSUME TypeOK, NEW T \in Trouble, Tolerates(T), NEW n \in Node,
         Speaks(n, Listeners(n)), UNCHANGED <<calm, faulty>>
  PROVE  Tolerates(T)'
<1>1. /\ slice = "SEND" /\ turn = n /\ up[n] /\ n \notin ran /\ ran' = ran \cup {n}
      /\ UNCHANGED <<up, turn, slice>>
  BY DEF Speaks, Runs
<1>2. Standing(T) /\ Present(T) /\ Phase(T) /\ Sources(T)
  BY DEF Tolerates, Standing
<1>3. Present(T)'
  BY <1>1, <1>2 DEF Present, Purged, Deciding
<1>4. Phase(T)'
  BY <1>1, <1>2, PhaseStands
<1>5. Standing(T)'
  BY <1>2, <1>3, <1>4, SpeaksStands
<1>6. ASSUME T.kind # "FROZEN"
      PROVE  Knowing(T)'
  <2>1. Knowing(T) /\ Sound(T)
    BY <1>2, <1>6, SoundTrouble DEF Tolerates
  <2>2. \A m : ~Misses(T, m, n)
    BY <1>1, <1>2 DEF Misses, Lost, Phase
  <2>3. Listeners(n) = {m \in Listeners(n) : ~Misses(T, m, n)}
    BY <2>2
  <2> QED
    BY <1>2, <2>1, <2>3, SpeaksKnows
<1> QED
  BY <1>5, <1>6 DEF Tolerates

LEMMA SpeaksIll ==
  ASSUME TypeOK, OneAtATime, NEW T \in Trouble, Tolerates(T), NEW n \in Node, NEW heard,
         Speaks(n, heard), NEW f \in Node, up[f], NEW kind, MayFail(kind), Fail(f),
         \/ heard = {} /\ f = n
         \/ f # n /\ heard = Listeners(n) \ {f} /\ kind = "RECEIVER_OMISSION"
  PROVE  \E U \in Trouble : Tolerates(U)'
<1>1. /\ slice = "SEND" /\ turn = n /\ up[n] /\ n \notin ran /\ ran' = ran \cup {n}
      /\ UNCHANGED <<up, turn, slice>>
  BY DEF Speaks, Runs
<1>2. /\ Standing(T) /\ Present(T) /\ Phase(T) /\ Sources(T)
      /\ T.kind \in {"FINE", "FROZEN"}
      /\ T.group \in SUBSET Node /\ T.node \in Node /\ T.other \in Node
      /\ n \in T.group /\ f \in T.group
  BY <1>1, FailsFine DEF Tolerates, Standing, Trouble, Present
<1>3. calm' = 0 /\ faulty' = faulty \cup {f}
  BY DEF Fail
<1>4. \A U : \A m : ~Purged(T, m) /\ ~Purged(U, m)'
  BY <1>1 DEF Purged, Deciding
<1>5. Wait(n)' = AMOUNT_NODES /\ AMOUNT_NODES \in Nat
  BY <1>1, WaitBounds, TimeStands, NodeFacts
<1>6. CASE T.kind = "FROZEN"
  <2>1. Present(T)'
    BY <1>1, <1>2, <1>3, <1>4, <1>6 DEF Present
  <2>2. Phase(T)'
    BY <1>6 DEF Phase
  <2> QED
    BY <1>2, <1>6, <2>1, <2>2, SpeaksStands DEF Tolerates
<1>7. CASE T.kind = "FINE"
  <2>1. PICK U \in Trouble :
          /\ U.group = T.group /\ U.node = f /\ U.other = n
          /\ U.kind = IF f = n THEN "MUTE" ELSE "DEAF"
    <3>1. [group |-> T.group, kind |-> IF f = n THEN "MUTE" ELSE "DEAF",
           node |-> f, other |-> n] \in Trouble
      BY <1>2 DEF Trouble
    <3> QED
      BY <3>1
  <2>2. Present(U)'
    <3>1. /\ f # n => "RECEIVER_OMISSION" \in FaultKinds
          /\ "RECEIVER_OMISSION" \notin FaultKinds => \A m \in faulty : ~up[m]
      BY <1>2, <1>7 DEF MayFail, Present
    <3>2. \A m \in faulty' : up'[m] => m = f \/ (m \in faulty /\ up[m])
      BY <1>1, <1>3
    <3> QED
      BY <1>1, <1>2, <1>3, <1>4, <1>7, <2>1, <3>1, <3>2 DEF Present
  <2>3. Phase(U)'
    <3>1. /\ U.kind = "MUTE" => calm' + Wait(U.node)' <= 2 * AMOUNT_NODES
          /\ U.kind = "DEAF" => calm' + Wait(U.other)' <= AMOUNT_NODES
      BY <1>3, <1>5, <2>1
    <3> QED
      BY <1>1, <2>1, <3>1 DEF Phase
  <2>4. Standing(U)'
    BY <1>2, <2>1, <2>2, <2>3, SpeaksStands
  <2>5. Knowing(T)
    BY <1>7 DEF Tolerates
  <2>6. \A m \in Node : FromSender(m) = {}
    BY <1>1, <1>2 DEF Sources
  <2>7. Knowing(U)
    BY <1>1, <1>7, <2>1, <2>5, <2>6, Relabel
  <2>8. Sound(U) /\ Sources(U)
    BY <1>2, <2>1, <2>6 DEF Sound, Sources, Present
  <2>9. heard = {m \in Listeners(n) : ~Misses(U, m, n)}
    <3>1. CASE f = n
      <4>1. \A m : Misses(U, m, n) <=> m # n
        BY <2>1, <3>1 DEF Misses, Lost
      <4> QED
        BY <3>1, <4>1 DEF Listeners
    <3>2. CASE f # n
      <4>1. \A m : Misses(U, m, n) <=> m = f
        BY <2>1, <3>2 DEF Misses, Lost
      <4> QED
        BY <3>2, <4>1
    <3> QED
      BY <3>1, <3>2
  <2>10. Knowing(U)'
    BY <2>7, <2>8, <2>9, SpeaksKnows
  <2> QED
    BY <2>4, <2>10 DEF Tolerates
<1> QED
  BY <1>2, <1>6, <1>7

LEMMA SendKeeps ==
  ASSUME TypeOK, OneAtATime, NEW T \in Trouble, Tolerates(T), NEW n \in Node, SendMessage(n)
  PROVE  \E U \in Trouble : Tolerates(U)'
<1>1. PICK heard \in SUBSET Listeners(n) : Heard(n, heard) /\ Speaks(n, heard)
  BY SendMessageSpeaks
<1>2. up[n]
  BY <1>1 DEF Speaks, Runs
<1>3. CASE heard = Listeners(n) /\ UNCHANGED <<faults, calm, faulty>>
  BY <1>1, <1>3, SpeaksWell
<1>4. CASE heard = {} /\ MayFail("SENDER_OMISSION") /\ Fail(n)
  BY <1>1, <1>2, <1>4, SpeaksIll
<1>5. CASE \E m \in Listeners(n) :
             heard = Listeners(n) \ {m} /\ MayFail("RECEIVER_OMISSION") /\ Fail(m)
  <2>1. PICK m \in Listeners(n) :
          heard = Listeners(n) \ {m} /\ MayFail("RECEIVER_OMISSION") /\ Fail(m)
    BY <1>5
  <2>2. m \in Node /\ up[m] /\ m # n
    BY DEF Listeners
  <2> QED
    BY <1>1, <2>1, <2>2, SpeaksIll
<1> QED
  BY <1>1, <1>3, <1>4, <1>5 DEF Heard

\* Whatever a handler does, the trouble is tolerated.
LEMMA HandlerKeeps ==
  ASSUME TypeOK, MessageHeld, OneAtATime, Tolerant, NEW n \in Node, Handler(n)
  PROVE  Tolerant'
<1>1. PICK T \in Trouble : Tolerates(T)
  BY DEF Tolerant
<1>2. \E U \in Trouble : Tolerates(U)'
  <2>1. CASE slice = "MEMBERSHIP"
    BY <1>1, <2>1, MembershipKeeps
  <2>2. CASE slice # "MEMBERSHIP"
    BY <1>1, <2>2, SendHandler, SendKeeps, ListensKeeps
  <2> QED
    BY <2>1, <2>2
<1> QED
  BY <1>2 DEF Tolerant

-----------------------------------------------------------------------------
(* A node crashes                                                           *)

LEMMA CrashFacts ==
  ASSUME TypeOK, NEW n \in Node, Crash(n)
  PROVE  /\ up[n] /\ ~up'[n] /\ MayFail("CRASH_FAILURE") /\ Fail(n)
         /\ UNCHANGED <<turn, slice, ran, starts, late, latest>>
         /\ asleep' = [asleep EXCEPT ![n] = 0] /\ sock'[n] = <<>>
         /\ \A p \in Node \ {n} : /\ up'[p] = up[p] /\ view'[p] = view[p]
                                  /\ sock'[p] = sock[p] /\ out'[p] = out[p]
         /\ \A p \in Node : Delivered(p)' \subseteq Delivered(p)
<1>1. /\ up[n] /\ MayFail("CRASH_FAILURE") /\ Fail(n) /\ ProcessEnds(n)
      /\ UNCHANGED <<turn, slice, ran, starts, late, latest>>
      /\ asleep' = [asleep EXCEPT ![n] = 0]
  BY DEF Crash
<1>2. PICK k \in disk[n]..Len(out[n]) : out' = [out EXCEPT ![n] = SubSeq(@, 1, k)]
  BY DEF Crash, LosesOutput
<1>3. /\ ~up'[n] /\ sock'[n] = <<>>
      /\ \A p \in Node \ {n} : up'[p] = up[p] /\ view'[p] = view[p] /\ sock'[p] = sock[p]
  BY <1>1 DEF ProcessEnds, TypeOK
<1>4. out[n] \in Seq(Nat) /\ disk[n] \in Nat /\ out \in [Node -> Seq(Nat)]
  BY DEF TypeOK
<1>5. /\ \A p \in Node \ {n} : out'[p] = out[p]
      /\ out'[n] = SubSeq(out[n], 1, k)
  BY <1>2, <1>4
<1>6. Delivered(n)' \subseteq Delivered(n)
  <2>1. k \in 0..Len(out[n])
    BY <1>2, <1>4
  <2>2. LET r == SubSeq(out[n], 0 + 1, k)
        IN  \A i \in DOMAIN r : i + 0 \in DOMAIN out[n] /\ r[i] = out[n][i + 0] /\ i \in Nat
    BY <1>4, <2>1, SubSequence
  <2>3. \A i \in DOMAIN out'[n] : i \in DOMAIN out[n] /\ out'[n][i] = out[n][i]
    BY <1>5, <2>2
  <2> QED
    BY <2>3 DEF Delivered
<1>7. \A p \in Node \ {n} : Delivered(p)' = Delivered(p)
  BY <1>5 DEF Delivered
<1> QED
  BY <1>1, <1>3, <1>5, <1>6, <1>7

LEMMA CrashStands ==
  ASSUME TypeOK, NEW T \in Trouble, Standing(T), NEW U \in Trouble, U.group = T.group,
         NEW n \in Node, Crash(n), Present(U)', Phase(U)',
         T.kind \in {"FINE", "FROZEN"},
         U.kind = T.kind \/ U.kind = "DOOMED" \/ (U.kind = "MUTE" /\ slice = "SEND")
  PROVE  Standing(U)'
<1>1. /\ up[n] /\ ~up'[n]
      /\ UNCHANGED <<turn, slice, ran, starts, late, latest>>
      /\ asleep' = [asleep EXCEPT ![n] = 0] /\ sock'[n] = <<>>
      /\ \A p \in Node \ {n} : /\ up'[p] = up[p] /\ view'[p] = view[p]
                               /\ sock'[p] = sock[p] /\ out'[p] = out[p]
      /\ \A p \in Node : Delivered(p)' \subseteq Delivered(p)
  BY CrashFacts
<1>2. Quiet'
  BY <1>1 DEF Standing, Quiet, TypeOK
<1>3. \A p : GroupOf(T, p) = T.group /\ GroupOf(U, p)' = T.group
  BY <1>1 DEF GroupOf, Purged, Leaving, Deciding
<1>4. Seen(U)'
  <2> SUFFICES ASSUME NEW p \in Node, up'[p]
               PROVE  Sees(U, p)'
    BY DEF Seen
  <2>1. p # n /\ up[p] /\ view'[p] = view[p]
    BY <1>1
  <2> QED
    BY <1>3, <2>1 DEF Standing, Seen, Sees
<1>5. Sources(U)'
  <2>1. FromSender(n)' = {} /\ \A m \in Node \ {n} : FromSender(m)' = FromSender(m)
    BY <1>1 DEF FromSender
  <2> QED
    BY <1>1, <2>1 DEF Standing, Sources
<1>6. Withheld(U)'
  <2>1. /\ Deciding(turn)' <=> Deciding(turn)
        /\ Deciding(turn) => slice # "SEND"
    BY <1>1 DEF Deciding
  <2>2. \A p \in Node : latest[turn] \notin Delivered(p) => latest[turn] \notin Delivered(p)'
    BY <1>1
  <2>3. ASSUME Deciding(turn)', U.kind = "FROZEN" \/ (U.kind = "MUTE" /\ turn = U.node)
        PROVE  latest[turn] = Empty \/ \A p \in Node : latest[turn] \notin Delivered(p)'
    BY <2>1, <2>2, <2>3 DEF Standing, Withheld
  <2> QED
    BY <1>1, <2>3 DEF Withheld
<1> QED
  BY <1>2, <1>4, <1>5, <1>6 DEF Standing

LEMMA CrashKnows ==
  ASSUME TypeOK, NEW U \in Trouble, Knowing(U), NEW n \in Node, Crash(n),
         slice = "SEND" /\ turn = n /\ n \notin ran => U.kind = "MUTE" /\ U.node = n
  PROVE  Knowing(U)'
<1>1. /\ up[n] /\ ~up'[n] /\ UNCHANGED <<turn, slice, ran, latest>> /\ sock'[n] = <<>>
      /\ \A p \in Node \ {n} : /\ up'[p] = up[p] /\ view'[p] = view[p]
                               /\ sock'[p] = sock[p] /\ out'[p] = out[p]
  BY CrashFacts
<1>2. InOrder(U)' /\ Senders(U)'
  <2>1. turn \in Node /\ \A p \in Node : up'[p] => up[p]
    BY <1>1 DEF TypeOK
  <2> QED
    BY <1>1, <2>1 DEF Knowing, InOrder, Senders
<1>4. ASSUME slice = "SEND", NEW m \in Node
      PROVE  Mailbox(U, m)'
  <2>1. CASE m = n
    <3>1. FromSender(m)' = {}
      BY <1>1, <2>1 DEF FromSender
    <3> QED
      BY <1>1, <2>1, <3>1 DEF Mailbox
  <2>2. CASE m # n
    <3>1. FromSender(m)' = FromSender(m) /\ sock'[m] = sock[m]
      BY <1>1, <2>2 DEF FromSender
    <3>2. Mailbox(U, m)
      BY <1>4 DEF Knowing, Mailboxes
    <3>3. \A k \in FromSender(m) : Says(U, sock[m][k])'
      <4>1. \A k \in FromSender(m) : Says(U, sock'[m][k])
        BY <3>1, <3>2 DEF Mailbox
      <4>2. \A i, j : Reports(U, i, j)' <=> Reports(U, i, j)
        BY <1>1, TimeStands
      <4> QED
        BY <1>1, <4>1, <4>2 DEF Says
    <3>4. turn = n /\ n \notin ran /\ m # turn => Misses(U, m, turn)
      BY <1>4 DEF Misses, Lost
    <3>5. turn # n => (up'[turn] <=> up[turn])
      <4>1. turn \in Node
        BY DEF TypeOK
      <4> QED
        BY <1>1, <4>1
    <3> QED
      BY <1>1, <2>2, <3>1, <3>2, <3>3, <3>4, <3>5 DEF Mailbox
  <2> QED
    BY <2>1, <2>2
<1>5. ASSUME NEW p \in Node
      PROVE  Knows(U, p)'
  <2>1. Knows(U, p)
    BY DEF Knowing
  <2>2. CASE p = n
    BY <1>1, <2>2, EndedKnows
  <2>3. CASE p # n
    <3>1. /\ up'[p] => up[p]
          /\ view'[p] = view[p] /\ out'[p] = out[p] /\ (p \in ran' <=> p \in ran)
          /\ \A i \in Node : Settled(U, p, i) => latest'[i] = latest[i]
      BY <1>1, <2>3
    <3> QED
      BY <1>1, <2>1, <3>1, BystanderKnows
  <2> QED
    BY <2>2, <2>3
<1> QED
  BY <1>1, <1>2, <1>4, <1>5 DEF Knowing, Mailboxes

\* As long as nobody has missed anything.
LEMMA DoomedKnows ==
  ASSUME NEW T \in Trouble, NEW U \in Trouble, U.group = T.group,
         T.kind \in {"FINE", "DOOMED"}, U.kind \in {"FINE", "DOOMED"}, Knowing(T)
  PROVE  Knowing(U)
<1>1. \A i, j : /\ ~Lost(T, i, j) /\ ~Lost(U, i, j) /\ ~Misses(T, i, j) /\ ~Misses(U, i, j)
                /\ ~Reports(T, i, j) /\ ~Reports(U, i, j)
  BY DEF Lost, Misses, Reports
<1>2. \A n : ~Purged(T, n) /\ ~Purged(U, n)
  BY DEF Purged, Leaving
<1>3. /\ \A n, i : Settled(U, n, i) <=> Settled(T, n, i)
      /\ \A n : GroupOf(T, n) = T.group /\ GroupOf(U, n) = T.group
      /\ \A n, i, j : Reported(U, n, i, j) = Reported(T, n, i, j)
  BY <1>1, <1>2 DEF Settled, GroupOf, Reported
<1>4. \A n, i : ~Suspects(T, n, i) /\ ~Suspects(U, n, i) /\ ~Estranged(T, n, i) /\ ~Estranged(U, n, i)
  BY <1>1 DEF Suspects, Estranged
<1>5. \A msg : Says(T, msg) <=> Says(U, msg)
  BY <1>1 DEF Says
<1>6. ASSUME NEW n \in Node
      PROVE  Knows(U, n) /\ (Mailbox(T, n) => Mailbox(U, n))
  <2>1. Knows(T, n)
    BY DEF Knowing
  <2>2. OwnVector(U, n)
    BY <1>1, <1>3, <2>1 DEF Knows, OwnVector
  <2>3. OtherVectors(U, n)
    BY <1>3, <2>1 DEF Knows, OtherVectors
  <2>4. Suspicions(U, n)
    BY <1>3, <1>4, <2>1 DEF Knows, Suspicions
  <2>5. LinesOf(U, n)
    BY <1>1, <1>3, <2>1 DEF Knows, LinesOf, LineOf
  <2>6. Mailbox(T, n) => Mailbox(U, n)
    BY <1>1, <1>5 DEF Mailbox
  <2> QED
    BY <2>2, <2>3, <2>4, <2>5, <2>6 DEF Knows
<1> QED
  BY <1>6 DEF Knowing, InOrder, Senders, Mailboxes

LEMMA CrashKeeps ==
  ASSUME TypeOK, OneAtATime, Tolerant, NEW n \in Node, Crash(n)
  PROVE  Tolerant'
<1>0. PICK T \in Trouble : Tolerates(T)
  BY DEF Tolerant
<1>1. /\ up[n] /\ ~up'[n] /\ MayFail("CRASH_FAILURE") /\ Fail(n)
      /\ UNCHANGED <<turn, slice, ran, starts, late, latest>>
      /\ \A p \in Node \ {n} : up'[p] = up[p]
  BY CrashFacts
<1>2. /\ Standing(T) /\ Present(T) /\ Phase(T) /\ Sources(T)
      /\ T.kind \in {"FINE", "FROZEN"}
      /\ T.group \in SUBSET Node /\ T.node \in Node /\ T.other \in Node /\ n \in T.group
  BY <1>0, <1>1, FailsFine DEF Tolerates, Standing, Trouble, Present
<1>3. calm' = 0 /\ faulty' = faulty \cup {n}
  BY <1>1 DEF Fail
<1>4. \A m : ~Purged(T, m)
  BY <1>2 DEF Purged, Leaving
<1>5. CASE T.kind = "FROZEN"
  <2>1. Present(T)'
    <3>1. \A m : ~Purged(T, m)'
      BY <1>5 DEF Purged, Leaving
    <3> QED
      BY <1>1, <1>2, <1>3, <1>5, <3>1 DEF Present
  <2>2. Phase(T)'
    BY <1>5 DEF Phase
  <2> QED
    BY <1>2, <1>5, <2>1, <2>2, CrashStands DEF Tolerates, Tolerant
<1>6. CASE T.kind = "FINE"
  <2> DEFINE unheard == slice = "SEND" /\ turn = n /\ n \notin ran
  <2>1. PICK U \in Trouble :
          /\ U.group = T.group /\ U.node = n /\ U.other = n
          /\ U.kind = IF unheard THEN "MUTE" ELSE "DOOMED"
    <3>1. [group |-> T.group, kind |-> IF unheard THEN "MUTE" ELSE "DOOMED",
           node |-> n, other |-> n] \in Trouble
      BY <1>2 DEF Trouble
    <3> QED
      BY <3>1
  <2>2. \A m : ~Purged(U, m)'
    BY <1>1, <2>1 DEF Purged, Leaving, Deciding
  <2>3. Present(U)'
    <3>1. "RECEIVER_OMISSION" \notin FaultKinds => \A m \in faulty : ~up[m]
      BY <1>2, <1>6 DEF Present
    <3>2. \A m \in faulty' : up'[m] => m \in faulty /\ up[m]
      <4>1. faulty \subseteq Node
        BY DEF TypeOK
      <4> QED
        BY <1>1, <1>3, <4>1
    <3> QED
      BY <1>1, <1>2, <1>3, <1>4, <1>6, <2>1, <2>2, <3>1, <3>2 DEF Present
  <2>4. Phase(U)'
    <3>1. /\ Wait(n)' \in Int /\ Wait(n)' <= AMOUNT_NODES
          /\ AMOUNT_NODES \in Nat
      BY <1>1, WaitRange, TimeStands, NodeFacts
    <3>2. calm' + Wait(n)' <= AMOUNT_NODES /\ calm' + Wait(n)' <= 2 * AMOUNT_NODES
      <4>1. PICK w : w = Wait(n)'
        OBVIOUS
      <4> QED
        BY <1>3, <3>1, <4>1
    <3> QED
      BY <1>1, <2>1, <3>2 DEF Phase
  <2>5. Standing(U)'
    BY <1>2, <2>1, <2>3, <2>4, CrashStands
  <2>6. Knowing(T)
    BY <1>0, <1>6 DEF Tolerates
  <2>7. Knowing(U)
    <3>1. CASE unheard
      <4>1. \A m \in Node : FromSender(m) = {}
        BY <1>2, <3>1 DEF Sources
      <4> QED
        BY <1>1, <1>6, <2>1, <2>6, <3>1, <4>1, Relabel
    <3>2. CASE ~unheard
      BY <1>6, <2>1, <2>6, <3>2, DoomedKnows
    <3> QED
      BY <3>1, <3>2
  <2>8. Knowing(U)'
    BY <2>1, <2>7, CrashKnows
  <2> QED
    BY <2>5, <2>8 DEF Tolerates, Tolerant
<1> QED
  BY <1>2, <1>5, <1>6

-----------------------------------------------------------------------------
(* The next slice                                                           *)

\* Of what was known at the end of a slice enough is still known.
Inherits(T, U) ==
  /\ T.kind # "FROZEN"
  /\ \A n, i \in Node : Settled(U, n, i)' =>
       /\ Settled(T, n, i) /\ (Misses(U, n, i) <=> Misses(T, n, i))
       /\ \A j \in U.group \ {i} : Reported(U, n, i, j)' = Reported(T, n, i, j)
  /\ \A n \in Node, i \in U.group : up[n] /\ ~Estranged(U, n, i)' =>
       /\ ~Estranged(T, n, i) /\ (Suspects(U, n, i)' <=> Suspects(T, n, i))
       /\ Suspects(T, n, i) => Prev(U.group, i) = Prev(T.group, i)
  /\ \A i \in T.group \ U.group : latest'[i] = Empty
  /\ slice' = "SEND" /\ turn \in U.group =>
       up[turn] \/ \A n \in Node \ {turn} : Misses(U, n, turn)

LEMMA QuietSlice ==
  ASSUME TypeOK, Quiet, NextSlice
  PROVE  /\ turn \in Node /\ ran' = {} /\ Quiet'
         /\ UNCHANGED <<up, view, sock, out, faulty>>
         /\ \A V, n : ~Purged(V, n)' /\ GroupOf(V, n)' = V.group
         /\ \/ /\ slice = "MEMBERSHIP" /\ slice' = "SEND" /\ AllRan
               /\ UNCHANGED <<turn, calm>> /\ latest' = [latest EXCEPT ![turn] = Empty]
            \/ slice = "SEND" /\ slice' = "PAUSE" /\ AllRan /\ UNCHANGED <<turn, calm, latest>>
            \/ /\ slice = "PAUSE" /\ slice' = "MEMBERSHIP" /\ turn' \in Node
               /\ turn' = IF turn = AMOUNT_NODES - 1 THEN 0 ELSE turn + 1
               /\ calm' \in {calm, calm + 1} /\ UNCHANGED latest
<1>1. ran' = {} /\ UNCHANGED <<up, view, sock, out, faulty, late, starts>>
      /\ \A n \in Node : asleep'[n] = 0
  BY DEF NextSlice, Quiet, files
<1>2. turn \in Node
  BY DEF TypeOK
<1>3. \/ /\ slice = "MEMBERSHIP" /\ slice' = "SEND" /\ AllRan
         /\ UNCHANGED <<turn, calm>> /\ latest' = [latest EXCEPT ![turn] = Empty]
      \/ slice = "SEND" /\ slice' = "PAUSE" /\ AllRan /\ UNCHANGED <<turn, calm, latest>>
      \/ /\ slice = "PAUSE" /\ slice' = "MEMBERSHIP" /\ turn' \in Node
         /\ turn' = IF turn = AMOUNT_NODES - 1 THEN 0 ELSE turn + 1
         /\ calm' \in {calm, calm + 1} /\ UNCHANGED latest
  BY <1>2, NodeFacts DEF NextSlice
<1>4. \A V, n : ~Purged(V, n)' /\ GroupOf(V, n)' = V.group
  BY <1>1 DEF Purged, GroupOf
<1> QED
  BY <1>1, <1>2, <1>3, <1>4 DEF Quiet

\* A socket holds nothing of a sender before it has sent.
LEMMA EmptySockets ==
  ASSUME OrderInv, late = {}, slice = "MEMBERSHIP", slice' = "SEND", UNCHANGED <<turn, sock>>,
         NEW m \in Node
  PROVE  FromSender(m)' = {}
<1>1. LeftOver(m) # turn
  BY LeftOverFacts DEF OrderInv
<1>2. Leftovers(m)
  BY DEF OrderInv, LinesInOrder, InFile
<1> QED
  BY <1>1, <1>2 DEF FromSender, Leftovers

\* A line is not delivered before the MEMBERSHIP slice of its sender.
LEMMA NotYetDelivered ==
  ASSUME OrderInv, late = {}, slice = "PAUSE", NEW s \in Node, latest[s] # Empty, NEW n \in Node
  PROVE  latest[s] \notin Delivered(n)
<1>1. Older(n) /\ Undec(s)
  BY DEF OrderInv, LinesInOrder, InFile, Undec
<1>2. \A i \in DOMAIN out[n] : out[n][i] < latest[s]
  BY <1>1 DEF Older
<1>3. latest[s] \in Nat
  BY DEF OrderInv, TypeOK, Body
<1> QED
  BY <1>2, <1>3 DEF Delivered

LEMMA SlicedKnows ==
  ASSUME OrderInv, Quiet, NextSlice, NEW T \in Trouble, Knowing(T), NEW U \in Trouble,
         \A n \in Node : up[n] => GroupOf(T, n) = U.group, Inherits(T, U)
  PROVE  Knowing(U)'
<1>1. /\ TypeOK /\ turn \in Node /\ ran' = {}
      /\ UNCHANGED <<up, view, sock, out>>
      /\ \A n : GroupOf(U, n)' = U.group
      /\ \/ /\ slice = "MEMBERSHIP" /\ slice' = "SEND" /\ AllRan
            /\ turn' = turn /\ latest' = [latest EXCEPT ![turn] = Empty]
         \/ slice = "SEND" /\ slice' = "PAUSE" /\ AllRan /\ UNCHANGED <<turn, latest>>
         \/ slice = "PAUSE" /\ slice' = "MEMBERSHIP" /\ UNCHANGED latest
  BY QuietSlice DEF OrderInv
<1>2. latest \in [Node -> Body] /\ U.group \subseteq Node /\ T.group \subseteq Node
  BY <1>1 DEF TypeOK, Trouble
<1>3. InOrder(U)'
  BY <1>1 DEF InOrder
<1>4. Senders(U)'
  <2> SUFFICES ASSUME NEW i \in Node, latest'[i] # Empty
               PROVE  i \in U.group
    BY DEF Senders
  <2>1. latest[i] # Empty
    BY <1>1, <1>2
  <2> QED
    BY <2>1 DEF Knowing, Senders, Inherits
<1>5. Mailboxes(U)'
  <2> SUFFICES ASSUME slice = "MEMBERSHIP", slice' = "SEND", turn' = turn, NEW m \in Node
               PROVE  Mailbox(U, m)'
    BY <1>1 DEF Mailboxes
  <2>1. FromSender(m)' = {}
    BY <1>1, EmptySockets DEF Quiet
  <2>2. turn \in U.group /\ ~up[turn] /\ m # turn => Misses(U, m, turn)
    BY DEF Inherits
  <2> QED
    BY <1>1, <2>1, <2>2 DEF Mailbox
<1>6. ASSUME NEW n \in Node
      PROVE  Knows(U, n)'
  <2>1. Knows(T, n)
    BY DEF Knowing
  <2>2. OwnVector(U, n)'
    BY <1>1, <2>1 DEF Knows, OwnVector, Inherits
  <2>3. OtherVectors(U, n)'
    <3> SUFFICES ASSUME NEW i \in Node, Settled(U, n, i)', NEW j \in U.group \ {i}
                 PROVE  view[n].vv[i][j] = Reported(U, n, i, j)'
      BY <1>1 DEF OtherVectors
    <3>1. Settled(T, n, i) /\ Reported(U, n, i, j)' = Reported(T, n, i, j)
      BY DEF Inherits
    <3>2. j \in T.group \ {i}
      <4>1. up[n]
        BY <3>1 DEF Settled
      <4> QED
        BY <4>1 DEF GroupOf
    <3> QED
      BY <2>1, <3>1, <3>2 DEF Knows, OtherVectors
  <2>4. Suspicions(U, n)'
    <3> SUFFICES ASSUME NEW i \in U.group, up[n], ~Estranged(U, n, i)'
                 PROVE  /\ view[n].sus[i].flag <=> Suspects(U, n, i)'
                        /\ view[n].sus[i].flag => view[n].sus[i].trigger = Prev(U.group, i)
      BY <1>1 DEF Suspicions
    <3>1. /\ ~Estranged(T, n, i) /\ (Suspects(U, n, i)' <=> Suspects(T, n, i))
          /\ Suspects(T, n, i) => Prev(U.group, i) = Prev(T.group, i)
      BY DEF Inherits
    <3>2. i \in GroupOf(T, n)
      OBVIOUS
    <3> QED
      BY <2>1, <3>1, <3>2 DEF Knows, Suspicions
  <2>5. LinesOf(U, n)'
    <3> SUFFICES ASSUME NEW i \in Node, Settled(U, n, i)', ~Misses(U, n, i)
                 PROVE  LineOf(U, n, i)'
      BY DEF LinesOf
    <3>1. LineOf(T, n, i)
      BY <2>1 DEF Knows, LinesOf, Inherits
    <3>2. ~(slice = "MEMBERSHIP" /\ i = turn)
      BY <1>1 DEF Settled, Listening
    <3>3. latest'[i] = latest[i]
      BY <1>1, <1>2, <3>2
    <3>4. view[n].last[i] = latest[i]
      BY <3>1, <3>2 DEF LineOf, Deciding
    <3> QED
      BY <1>1, <3>3, <3>4 DEF LineOf
  <2> QED
    BY <2>2, <2>3, <2>4, <2>5 DEF Knows
<1> QED
  BY <1>3, <1>4, <1>5, <1>6 DEF Knowing

LEMMA Sliced ==
  ASSUME OrderInv, NextSlice, NEW T \in Trouble, Tolerates(T), NEW U \in Trouble,
         \A n \in Node : up[n] => GroupOf(T, n) = U.group,
         Present(U)', Phase(U)', U.kind # "FROZEN" => Inherits(T, U)
  PROVE  Tolerant'
<1>1. TypeOK /\ Quiet /\ Seen(T) /\ late = {}
  BY DEF OrderInv, Tolerates, Standing, Quiet
<1>2. /\ turn \in Node /\ ran' = {} /\ Quiet'
      /\ UNCHANGED <<up, view, sock, out>>
      /\ \A n : GroupOf(U, n)' = U.group
      /\ \/ slice = "MEMBERSHIP" /\ slice' = "SEND" /\ turn' = turn
         \/ slice' = "PAUSE"
         \/ slice = "PAUSE" /\ slice' = "MEMBERSHIP" /\ turn' \in Node /\ UNCHANGED latest
  BY <1>1, QuietSlice
<1>3. Seen(U)'
  BY <1>1, <1>2 DEF Seen, Sees
<1>4. Sources(U)'
  <2>1. slice' = "SEND" => \A m \in Node : FromSender(m)' = {}
    BY <1>1, <1>2, EmptySockets
  <2> QED
    BY <2>1 DEF Sources
<1>5. Withheld(U)'
  <2>1. ASSUME slice = "PAUSE", slice' = "MEMBERSHIP", turn' \in Node, UNCHANGED latest,
               latest[turn'] # Empty, NEW n \in Node
        PROVE  latest[turn'] \notin Delivered(n)'
    <3>1. latest[turn'] \notin Delivered(n)
      BY <1>1, <2>1, NotYetDelivered
    <3> QED
      BY <1>2, <3>1 DEF Delivered
  <2> QED
    BY <1>2, <2>1 DEF Withheld, Deciding
<1>6. Standing(U)'
  BY <1>2, <1>3, <1>4, <1>5 DEF Standing
<1>7. U.kind # "FROZEN" => Knowing(U)'
  <2>1. U.kind # "FROZEN" => T.kind # "FROZEN"
    BY DEF Inherits
  <2> QED
    BY <1>1, <2>1, SlicedKnows DEF Tolerates
<1> QED
  BY <1>6, <1>7 DEF Tolerates, Tolerant

-----------------------------------------------------------------------------
(* What becomes of the trouble                                              *)

LEMMA OrderStays ==
  ASSUME TypeOK, NextSlice, slice # "MEMBERSHIP", NEW T \in Trouble, NEW i \in Node
  PROVE  \A j : Reports(T, i, j)' <=> Reports(T, i, j)
<1> SUFFICES ASSUME NEW j, Lost(T, i, j)
             PROVE  Since(i)' < Since(j)' <=> Since(i) < Since(j)
  BY DEF Reports
<1>1. j \in Node
  BY DEF Lost, Trouble
<1>2. Since(i) \in Nat /\ Since(j) \in Nat
  BY <1>1, SinceFacts
<1>3. Since(i)' = Since(i) + 1 /\ Since(j)' = Since(j) + 1
  BY <1>1, SinceSlice
<1> QED
  BY <1>2, <1>3

\* After the SEND and the PAUSE slice it is the same.
LEMMA TroubleStays ==
  ASSUME OrderInv, NextSlice, slice # "MEMBERSHIP", NEW T \in Trouble, Tolerates(T)
  PROVE  Tolerant'
<1>1. TypeOK /\ Quiet /\ Present(T) /\ Phase(T)
  BY DEF OrderInv, Tolerates, Standing
<1>2. /\ turn \in Node /\ ran' = {} /\ UNCHANGED <<up, faulty>>
      /\ \A n : ~Purged(T, n)'
      /\ \/ slice = "SEND" /\ slice' = "PAUSE" /\ AllRan /\ UNCHANGED <<turn, calm, latest>>
         \/ /\ slice = "PAUSE" /\ slice' = "MEMBERSHIP" /\ turn' \in Node
            /\ turn' = IF turn = AMOUNT_NODES - 1 THEN 0 ELSE turn + 1
            /\ calm' \in {calm, calm + 1} /\ UNCHANGED latest
  BY <1>1, QuietSlice
<1>3. /\ \A i : ~Deciding(i)
      /\ \A n, i : ~(Deciding(i)' /\ n \in ran')
      /\ \A n \in Node : \A i : up[n] => ~Listening(n, i) /\ ~Listening(n, i)'
      /\ \A n : ~Purged(T, n) /\ GroupOf(T, n) = T.group
  BY <1>2 DEF Deciding, Listening, Purged, GroupOf, AllRan
<1>4. \A i \in Node : \A j : Reports(T, i, j)' <=> Reports(T, i, j)
  BY <1>1, OrderStays
<1>5. Present(T)'
  BY <1>1, <1>2, <1>3 DEF Present
<1>6. T.node \in Node /\ T.other \in Node /\ T.group \subseteq Node
  BY DEF Trouble
<1>7. Phase(T)'
  <2>1. ASSUME NEW s \in Node
        PROVE  /\ Wait(s)' \in Int /\ Wait(s) \in Int
               /\ calm' \in Int /\ calm \in Int
               /\ calm' + Wait(s)' <= calm + Wait(s)
    <3>1. Wait(s) \in Int
      BY <1>1, WaitRange
    <3>2. \/ slice = "SEND" /\ Wait(s)' = Wait(s) /\ calm' = calm
          \/ Wait(s)' = Wait(s) - 1 /\ calm' \in {calm, calm + 1}
      <4>1. CASE slice = "SEND"
        BY <1>2, <4>1 DEF Wait
      <4>2. CASE slice = "PAUSE"
        BY <1>1, <1>2, <4>2, WaitShrinks
      <4> QED
        BY <1>2, <4>1, <4>2
    <3>3. calm \in Int
      BY <1>1, BoundsAssumption DEF TypeOK
    <3>4. PICK w \in Int : w = Wait(s)
      BY <3>1
    <3>5. PICK x : x = Wait(s)'
      OBVIOUS
    <3> QED
      BY <3>2, <3>3, <3>4, <3>5
  <2>2. T.kind = "REPORTED" => Since(T.other)' < Since(T.node)'
    <3>1. /\ Since(T.other)' = Since(T.other) + 1 /\ Since(T.node)' = Since(T.node) + 1
          /\ Since(T.other) \in Nat /\ Since(T.node) \in Nat
      BY <1>1, <1>6, SinceFacts, SinceSlice
    <3>2. T.kind = "REPORTED" => Since(T.other) < Since(T.node)
      BY <1>1 DEF Phase
    <3> QED
      BY <3>1, <3>2
  <2>3. slice' # "SEND" /\ AMOUNT_NODES \in Nat
    BY <1>2, NodeFacts
  <2>4. /\ T.kind = "DOOMED" => calm + Wait(T.node) <= AMOUNT_NODES
        /\ T.kind = "MUTE" => calm + Wait(T.node) <= 2 * AMOUNT_NODES
        /\ T.kind = "DEAF" => calm + Wait(T.other) <= AMOUNT_NODES
        /\ T.kind = "REPORTED" => calm + Wait(T.node) < 2 * AMOUNT_NODES
    BY <1>1 DEF Phase
  <2>5. PICK a : a = Wait(T.node)'
    OBVIOUS
  <2>6. PICK b : b = Wait(T.other)'
    OBVIOUS
  <2>7. PICK c \in Int : c = calm + Wait(T.node)
    BY <1>6, <2>1
  <2>8. PICK d \in Int : d = calm + Wait(T.other)
    BY <1>6, <2>1
  <2>9. calm' + a <= c /\ calm' + b <= d /\ calm' + a \in Int /\ calm' + b \in Int
    BY <1>6, <2>1, <2>5, <2>6, <2>7, <2>8
  <2>10. /\ T.kind = "DOOMED" => calm' + Wait(T.node)' <= AMOUNT_NODES
         /\ T.kind = "MUTE" => calm' + Wait(T.node)' <= 2 * AMOUNT_NODES
         /\ T.kind = "DEAF" => calm' + Wait(T.other)' <= AMOUNT_NODES
         /\ T.kind = "REPORTED" => calm' + Wait(T.node)' < 2 * AMOUNT_NODES
    BY <2>3, <2>4, <2>5, <2>6, <2>7, <2>8, <2>9
  <2> QED
    BY <2>2, <2>3, <2>10 DEF Phase
<1>8. Inherits(T, T) \/ T.kind = "FROZEN"
  <2>1. ASSUME NEW n \in Node, NEW i \in Node, Settled(T, n, i)'
        PROVE  Settled(T, n, i) /\ \A j : Reported(T, n, i, j)' = Reported(T, n, i, j)
    BY <1>2, <1>3, <1>4, <2>1 DEF Settled, Reported
  <2>2. ASSUME NEW n \in Node, NEW i \in T.group, up[n]
        PROVE  ~Estranged(T, n, i) /\ (Suspects(T, n, i)' <=> Suspects(T, n, i))
    <3>1. ~Estranged(T, n, i)
      BY <1>3, <2>2 DEF Estranged
    <3>2. Suspects(T, n, i)' <=> Suspects(T, n, i)
      BY <1>2, <1>3, <1>4, <1>6, <2>2 DEF Suspects
    <3> QED
      BY <3>1, <3>2
  <2> QED
    BY <1>2, <2>1, <2>2 DEF Inherits
<1> QED
  BY <1>3, <1>5, <1>7, <1>8, Sliced

\* The sender's new turn begins: all have run, and all others have sent since.
LEMMA SendBegins ==
  ASSUME TypeOK, Quiet, NextSlice, slice = "MEMBERSHIP", NEW V \in Trouble
  PROVE  /\ turn \in Node /\ V.group \subseteq Node /\ V.node \in Node /\ V.other \in Node
         /\ slice' = "SEND" /\ ran' = {} /\ UNCHANGED <<up, faulty, turn, calm>>
         /\ latest' = [latest EXCEPT ![turn] = Empty] /\ latest \in [Node -> Body]
         /\ \A n \in Node : up[n] => n \in ran
         /\ \A n : ~Purged(V, n)'
         /\ \A i : ~Deciding(i)' /\ (Deciding(i) <=> i = turn)
         /\ \A n, i : ~Listening(n, i) /\ (Listening(n, i)' <=> i = turn)
         /\ \A n, i : /\ Settled(V, n, i)' <=> up[n] /\ i \in V.group /\ i # n /\ i # turn
                      /\ Settled(V, n, i) <=> up[n] /\ i \in V.group /\ i # n
         /\ \A i \in Node \ {turn} : Wait(i)' = Wait(i)
         /\ Wait(turn) = 0 /\ Wait(turn)' = AMOUNT_NODES
<1>1. /\ turn \in Node /\ slice' = "SEND" /\ ran' = {} /\ UNCHANGED <<up, faulty, turn, calm>>
      /\ latest' = [latest EXCEPT ![turn] = Empty]
      /\ AllRan /\ \A n : ~Purged(V, n)'
  BY QuietSlice
<1>2. V.group \subseteq Node /\ V.node \in Node /\ V.other \in Node /\ latest \in [Node -> Body]
  BY DEF Trouble, TypeOK
<1>3. \A i : ~Deciding(i)' /\ (Deciding(i) <=> i = turn)
  BY <1>1 DEF Deciding
<1>4. \A n, i : ~Listening(n, i) /\ (Listening(n, i)' <=> i = turn)
  BY <1>1 DEF Listening
<1>5. \A n, i : /\ Settled(V, n, i)' <=> up[n] /\ i \in V.group /\ i # n /\ i # turn
                /\ Settled(V, n, i) <=> up[n] /\ i \in V.group /\ i # n
  BY <1>1, <1>4 DEF Settled
<1>6. \A n \in Node : up[n] => n \in ran
  BY <1>1 DEF AllRan
<1>7. /\ \A i \in Node \ {turn} : Wait(i)' = Wait(i)
      /\ Wait(turn) = 0 /\ Wait(turn)' = AMOUNT_NODES
  <2>1. turn \in Int /\ AMOUNT_NODES \in Int
    BY <1>1, NodeFacts
  <2>2. ASSUME NEW i \in Node \ {turn}
        PROVE  Wait(i)' = Wait(i)
    BY <1>1 DEF Wait
  <2>3. Wait(turn) = 0 /\ Wait(turn)' = AMOUNT_NODES
    BY <1>1, <2>1 DEF Wait
  <2> QED
    BY <2>2, <2>3
<1> QED
  BY <1>1, <1>2, <1>3, <1>4, <1>5, <1>6, <1>7

LEMMA ReportsBegin ==
  ASSUME TypeOK, NextSlice, slice = "MEMBERSHIP", NEW V \in Trouble, NEW i \in Node, NEW j
  PROVE  /\ i # turn /\ j # turn => (Reports(V, i, j)' <=> Reports(V, i, j))
         /\ i # turn /\ j = turn => /\ Reports(V, i, j) <=> Lost(V, i, j)
                                    /\ Reports(V, i, j)' <=> Lost(V, i, j) /\ V.kind = "REPORTED"
         /\ i = turn /\ j # turn => /\ Reports(V, i, j) <=> Lost(V, i, j) /\ V.kind = "REPORTED"
                                    /\ Reports(V, i, j)' <=> Lost(V, i, j)
<1>1. CASE Lost(V, i, j)
  <2>1. j \in Node
    BY <1>1 DEF Lost, Trouble
  <2>2. PICK a \in Int : a = Since(i)
    BY SinceFacts
  <2>3. PICK b \in Int : b = Since(j)
    BY <2>1, SinceFacts
  <2>4. PICK c \in Int : c = CycleLength - 1
    BY CycleFacts
  <2>5. /\ 0 <= a /\ (i = turn => a = c) /\ (i # turn => a < c)
        /\ 0 <= b /\ (j = turn => b = c) /\ (j # turn => b < c)
    BY <2>1, <2>2, <2>3, <2>4, SinceFacts
  <2>6. /\ Since(i)' = IF i = turn THEN 0 ELSE a + 1
        /\ Since(j)' = IF j = turn THEN 0 ELSE b + 1
    BY <2>1, <2>2, <2>3, SinceSlice
  <2>7. /\ Reports(V, i, j) <=> a < b \/ V.kind = "REPORTED"
        /\ Reports(V, i, j)' <=> Since(i)' < Since(j)' \/ V.kind = "REPORTED"
    BY <1>1, <2>2, <2>3 DEF Reports
  <2>8. /\ i # turn /\ j # turn => (Since(i)' < Since(j)' <=> a < b)
        /\ i # turn /\ j = turn => a < b /\ ~(Since(i)' < Since(j)')
        /\ i = turn /\ j # turn => ~(a < b) /\ Since(i)' < Since(j)'
    BY <2>5, <2>6
  <2> QED
    BY <1>1, <2>7, <2>8
<1>2. CASE ~Lost(V, i, j)
  BY <1>2 DEF Reports
<1> QED
  BY <1>1, <1>2

\* The trouble is not about this sender ...
LEMMA OtherTrouble ==
  ASSUME OrderInv, NextSlice, slice = "MEMBERSHIP", NEW T \in Trouble, Tolerates(T),
         T.kind = "DEAF" => T.other # turn,
         T.kind \in {"DOOMED", "MUTE", "REPORTED"} => T.node # turn
  PROVE  Tolerant'
<1>1. TypeOK /\ Quiet /\ Present(T) /\ Phase(T)
  BY DEF OrderInv, Tolerates, Standing
<1>2. /\ turn \in Node /\ T.group \subseteq Node /\ T.node \in Node /\ T.other \in Node
      /\ slice' = "SEND" /\ ran' = {} /\ UNCHANGED <<up, faulty, turn, calm>>
      /\ \A n \in Node : up[n] => n \in ran
      /\ \A n : ~Purged(T, n)'
      /\ \A i : ~Deciding(i)' /\ (Deciding(i) <=> i = turn)
      /\ \A n, i : ~Listening(n, i) /\ (Listening(n, i)' <=> i = turn)
      /\ \A n, i : /\ Settled(T, n, i)' <=> up[n] /\ i \in T.group /\ i # n /\ i # turn
                   /\ Settled(T, n, i) <=> up[n] /\ i \in T.group /\ i # n
      /\ \A i \in Node \ {turn} : Wait(i)' = Wait(i)
  BY <1>1, SendBegins
<1>3. /\ \A n : ~Purged(T, n) /\ GroupOf(T, n) = T.group
      /\ \A i, j : Lost(T, i, j) => i # j
      /\ \A i : Lost(T, i, turn) => T.kind = "REPORTED"
      /\ \A j : Lost(T, turn, j) => T.kind # "REPORTED"
  <2>1. \A n : ~Purged(T, n)
    BY <1>2 DEF Purged, Leaving
  <2>2. \A i, j : Lost(T, i, j) => i # j
    BY <1>1, LostOther
  <2>3. /\ \A i : Lost(T, i, turn) => T.kind = "REPORTED"
        /\ \A j : Lost(T, turn, j) => T.kind # "REPORTED"
    BY DEF Lost
  <2> QED
    BY <2>1, <2>2, <2>3 DEF GroupOf
<1>4. ASSUME NEW i \in Node \ {turn}, NEW j
      PROVE  Reports(T, i, j)' <=> Reports(T, i, j)
  <2>1. CASE j = turn
    BY <1>1, <1>3, <2>1, ReportsBegin
  <2>2. CASE j # turn
    BY <1>1, <2>2, ReportsBegin
  <2> QED
    BY <2>1, <2>2
<1>5. ASSUME NEW i \in Node, i = turn, NEW j, Lost(T, i, j)
      PROVE  Reports(T, i, j)' /\ ~Reports(T, i, j)
  <2>1. j # turn /\ T.kind # "REPORTED"
    BY <1>3, <1>5
  <2> QED
    BY <1>1, <1>5, <2>1, ReportsBegin
<1>6. Present(T)'
  BY <1>1, <1>2, <1>3 DEF Present
<1>7. Phase(T)'
  <2>1. T.kind = "REPORTED" => Since(T.other)' < Since(T.node)'
    <3> SUFFICES ASSUME T.kind = "REPORTED"
                 PROVE  Since(T.other)' < Since(T.node)'
      OBVIOUS
    <3>1. /\ Since(T.other) \in Nat /\ Since(T.node) \in Nat
          /\ Since(T.node)' = Since(T.node) + 1
          /\ Since(T.other)' = IF T.other = turn THEN 0 ELSE Since(T.other) + 1
      BY <1>1, <1>2, SinceFacts, SinceSlice
    <3>2. Since(T.other) < Since(T.node)
      BY <1>1 DEF Phase
    <3> QED
      BY <3>1, <3>2
  <2>2. /\ T.kind \in {"DOOMED", "MUTE", "REPORTED"} => Wait(T.node)' = Wait(T.node)
        /\ T.kind = "DEAF" => Wait(T.other)' = Wait(T.other)
    BY <1>2
  <2> QED
    BY <1>1, <1>2, <2>1, <2>2 DEF Phase
<1>8. Inherits(T, T) \/ T.kind = "FROZEN"
  <2> SUFFICES ASSUME T.kind # "FROZEN"
               PROVE  Inherits(T, T)
    OBVIOUS
  <2>1. ASSUME NEW n \in Node, NEW i \in Node, Settled(T, n, i)'
        PROVE  Settled(T, n, i) /\ \A j : Reported(T, n, i, j)' = Reported(T, n, i, j)
    BY <1>2, <1>4, <2>1 DEF Reported
  <2>2. ASSUME NEW n \in Node, NEW i \in T.group, up[n], ~Estranged(T, n, i)'
        PROVE  ~Estranged(T, n, i) /\ (Suspects(T, n, i)' <=> Suspects(T, n, i))
    <3>1. ~Estranged(T, n, i)
      BY <1>2, <2>2 DEF Estranged
    <3>2. PICK prev : prev = Prev(T.group, i)
      OBVIOUS
    <3>3. Suspects(T, n, i) <=>
            /\ Lost(T, i, prev)
            /\ Reports(T, i, prev) \/ (n = i /\ i = turn)
      BY <1>2, <1>3, <2>2, <3>2 DEF Suspects
    <3>4. Suspects(T, n, i)' <=>
            /\ Lost(T, i, prev)
            /\ Reports(T, i, prev)' /\ (n = i \/ i # turn)
      BY <1>2, <3>2 DEF Suspects
    <3>5. CASE i = turn
      <4>1. Lost(T, i, prev) => Reports(T, i, prev)' /\ ~Reports(T, i, prev)
        BY <1>2, <1>5, <3>5
      <4> QED
        BY <3>1, <3>3, <3>4, <3>5, <4>1
    <3>6. CASE i # turn
      <4>1. Reports(T, i, prev)' <=> Reports(T, i, prev)
        BY <1>2, <1>4, <3>6
      <4> QED
        BY <3>1, <3>3, <3>4, <3>6, <4>1
    <3> QED
      BY <3>1, <3>5, <3>6
  <2>3. turn \in T.group => up[turn]
    BY <1>1, <1>3 DEF Present
  <2> QED
    BY <2>1, <2>2, <2>3 DEF Inherits
<1> QED
  BY <1>3, <1>6, <1>7, <1>8, Sliced

\* ... or the sender has crashed ...
LEMMA DoomedTrouble ==
  ASSUME OrderInv, NextSlice, slice = "MEMBERSHIP", NEW T \in Trouble, Tolerates(T),
         T.kind = "DOOMED", T.node = turn
  PROVE  Tolerant'
<1>1. TypeOK /\ Quiet /\ Present(T) /\ Phase(T)
  BY DEF OrderInv, Tolerates, Standing
<1>2. PICK U \in Trouble : U.group = T.group /\ U.kind = "MUTE" /\ U.node = turn
  <2>1. [group |-> T.group, kind |-> "MUTE", node |-> T.node, other |-> T.other] \in Trouble
    BY DEF Trouble
  <2> QED
    BY <2>1
<1>3. /\ turn \in Node /\ T.group \subseteq Node
      /\ slice' = "SEND" /\ ran' = {} /\ UNCHANGED <<up, faulty, turn, calm>>
      /\ \A n \in Node : up[n] => n \in ran
      /\ \A n : ~Purged(U, n)'
      /\ \A i : ~Deciding(i)'
      /\ \A n, i : /\ Settled(U, n, i)' <=> up[n] /\ i \in U.group /\ i # n /\ i # turn
      /\ Wait(turn) = 0 /\ Wait(turn)' = AMOUNT_NODES
  BY <1>1, SendBegins
<1>4. \A n, i : Settled(T, n, i) <=> up[n] /\ i \in T.group /\ i # n
  BY <1>1, SendBegins
<1>5. /\ \A n : ~Purged(T, n) /\ GroupOf(T, n) = T.group
      /\ \A i, j : ~Lost(T, i, j) /\ ~Reports(T, i, j)
      /\ \A i, j : Lost(U, i, j) <=> j = turn /\ i # turn
  BY <1>2 DEF Purged, Leaving, GroupOf, Lost, Reports
<1>6. \A i \in Node \ {turn} : \A j : ~Reports(U, i, j)'
  <2> SUFFICES ASSUME NEW i \in Node \ {turn}, NEW j, Reports(U, i, j)'
               PROVE  FALSE
    OBVIOUS
  <2>1. Lost(U, i, j)
    BY DEF Reports
  <2>2. j = turn
    BY <1>5, <2>1
  <2> QED
    BY <1>1, <1>2, <2>2, ReportsBegin
<1>7. Present(U)'
  BY <1>1, <1>2, <1>3, <1>5 DEF Present
<1>8. Phase(U)'
  <2>1. calm <= AMOUNT_NODES /\ calm \in Nat /\ AMOUNT_NODES \in Nat
    <3>1. calm \in Nat /\ AMOUNT_NODES \in Nat
      BY <1>1, BoundsAssumption, NodeFacts DEF TypeOK
    <3>2. calm + 0 <= AMOUNT_NODES
      BY <1>1, <1>3 DEF Phase
    <3> QED
      BY <3>1, <3>2
  <2>2. calm' + Wait(turn)' <= 2 * AMOUNT_NODES
    BY <1>3, <2>1
  <2>3. ~up[turn]
    BY <1>1 DEF Present
  <2> QED
    BY <1>2, <1>3, <2>2, <2>3 DEF Phase
<1>9. Inherits(T, U)
  <2>1. ASSUME NEW n \in Node, NEW i \in Node, Settled(U, n, i)'
        PROVE  /\ Settled(T, n, i) /\ (Misses(U, n, i) <=> Misses(T, n, i))
               /\ \A j : Reported(U, n, i, j)' = Reported(T, n, i, j)
    <3>1. Settled(T, n, i) /\ i # turn
      BY <1>2, <1>3, <1>4, <2>1
    <3>2. ~Misses(U, n, i) /\ ~Misses(T, n, i)
      BY <1>5, <3>1 DEF Misses
    <3> QED
      BY <1>5, <1>6, <3>1, <3>2 DEF Reported
  <2>2. ASSUME NEW n \in Node, NEW i \in U.group, up[n]
        PROVE  ~Estranged(T, n, i) /\ ~Suspects(U, n, i)' /\ ~Suspects(T, n, i)
    <3>1. ~Estranged(T, n, i) /\ ~Suspects(T, n, i)
      BY <1>5 DEF Estranged, Suspects
    <3>2. ~Suspects(U, n, i)'
      BY <1>2, <1>3, <1>5, <1>6 DEF Suspects
    <3> QED
      BY <3>1, <3>2
  <2>3. \A n \in Node \ {turn} : Misses(U, n, turn)
    BY <1>2, <1>5 DEF Misses
  <2> QED
    BY <1>2, <2>1, <2>2, <2>3 DEF Inherits
<1> QED
  BY <1>2, <1>5, <1>7, <1>8, <1>9, Sliced

\* ... or somebody was deaf to it ...
LEMMA DeafTrouble ==
  ASSUME OrderInv, NextSlice, slice = "MEMBERSHIP", NEW T \in Trouble, Tolerates(T),
         T.kind = "DEAF", T.other = turn
  PROVE  Tolerant'
<1>1. TypeOK /\ Quiet /\ Present(T) /\ Phase(T)
  BY DEF OrderInv, Tolerates, Standing
<1>2. PICK U \in Trouble : /\ U.group = T.group /\ U.kind = "REPORTED"
                           /\ U.node = T.node /\ U.other = turn
  <2>1. [group |-> T.group, kind |-> "REPORTED", node |-> T.node, other |-> T.other] \in Trouble
    BY DEF Trouble
  <2> QED
    BY <2>1
<1>3. /\ turn \in Node /\ T.group \subseteq Node /\ T.node \in Node
      /\ slice' = "SEND" /\ ran' = {} /\ UNCHANGED <<up, faulty, turn, calm>>
      /\ \A n \in Node : up[n] => n \in ran
      /\ \A n : ~Purged(U, n)'
      /\ \A i : ~Deciding(i)' /\ (Deciding(i) <=> i = turn)
      /\ \A n, i : ~Listening(n, i) /\ (Listening(n, i)' <=> i = turn)
      /\ \A n, i : /\ Settled(U, n, i)' <=> up[n] /\ i \in U.group /\ i # n /\ i # turn
      /\ \A i \in Node \ {turn} : Wait(i)' = Wait(i)
      /\ Wait(turn) = 0
  BY <1>1, <1>2, SendBegins
<1>4. \A n, i : Settled(T, n, i) <=> up[n] /\ i \in T.group /\ i # n
  BY <1>1, SendBegins
<1>5. /\ \A n : ~Purged(T, n) /\ GroupOf(T, n) = T.group
      /\ \A i, j : Lost(T, i, j) <=> i = T.node /\ j = turn
      /\ \A i, j : Lost(U, i, j) <=> i = T.node /\ j = turn
      /\ T.node # turn
  BY <1>1, <1>2 DEF Purged, Leaving, GroupOf, Lost, Present
<1>6. ASSUME NEW i \in Node, NEW j
      PROVE  /\ Reports(T, i, j) <=> Lost(U, i, j)
             /\ Reports(U, i, j)' <=> Lost(U, i, j)
  <2>1. CASE Lost(U, i, j)
    <3>1. i # turn /\ j = turn /\ Lost(T, i, j)
      BY <1>5, <2>1
    <3> QED
      BY <1>1, <1>2, <2>1, <3>1, ReportsBegin
  <2>2. CASE ~Lost(U, i, j)
    BY <1>5, <2>2 DEF Reports
  <2> QED
    BY <2>1, <2>2
<1>7. Present(U)'
  BY <1>1, <1>2, <1>3, <1>5 DEF Present
<1>8. Phase(U)'
  <2>1. calm <= AMOUNT_NODES /\ calm \in Nat /\ AMOUNT_NODES \in Nat
    <3>1. calm \in Nat /\ AMOUNT_NODES \in Nat
      BY <1>1, BoundsAssumption, NodeFacts DEF TypeOK
    <3>2. calm + 0 <= AMOUNT_NODES
      BY <1>1, <1>3 DEF Phase
    <3> QED
      BY <3>1, <3>2
  <2>2. calm' + Wait(U.node)' < 2 * AMOUNT_NODES
    <3>1. PICK w \in Int : w = Wait(T.node)
      BY <1>1, <1>3, WaitRange
    <3>2. w <= AMOUNT_NODES /\ w # AMOUNT_NODES
      BY <1>1, <1>3, <1>5, <3>1, WaitRange
    <3>3. Wait(U.node)' = w
      BY <1>2, <1>3, <1>5, <3>1
    <3> QED
      BY <1>3, <2>1, <3>2, <3>3
  <2>3. Since(U.other)' < Since(U.node)'
    <3>1. Since(turn)' = 0 /\ Since(T.node)' = Since(T.node) + 1 /\ Since(T.node) \in Nat
      BY <1>1, <1>3, <1>5, SinceFacts, SinceSlice
    <3>2. Since(U.other)' = Since(turn)' /\ Since(U.node)' = Since(T.node)'
      BY <1>2, <1>3
    <3> QED
      BY <3>1, <3>2
  <2> QED
    BY <1>2, <2>2, <2>3 DEF Phase
<1>9. Inherits(T, U)
  <2>1. ASSUME NEW n \in Node, NEW i \in Node, Settled(U, n, i)'
        PROVE  /\ Settled(T, n, i) /\ (Misses(U, n, i) <=> Misses(T, n, i))
               /\ \A j : Reported(U, n, i, j)' = Reported(T, n, i, j)
    <3>1. Settled(T, n, i) /\ i # turn
      BY <1>2, <1>3, <1>4, <2>1
    <3>2. ~Misses(U, n, i) /\ ~Misses(T, n, i)
      BY <1>5, <3>1 DEF Misses
    <3> QED
      BY <1>6, <3>1, <3>2 DEF Reported
  <2>2. ASSUME NEW n \in Node, NEW i \in U.group, up[n], ~Estranged(U, n, i)'
        PROVE  ~Estranged(T, n, i) /\ (Suspects(U, n, i)' <=> Suspects(T, n, i))
    <3>1. ~(n = T.node /\ i = turn)
      BY <1>2, <1>3, <2>2 DEF Estranged
    <3>2. ~Estranged(T, n, i)
      BY <3>1 DEF Estranged
    <3>3. PICK prev : prev = Prev(T.group, i)
      OBVIOUS
    <3>4. i \in Node /\ n \in ran
      BY <1>2, <1>3, <2>2
    <3>5. Suspects(T, n, i) <=> Lost(U, i, prev)
      BY <1>3, <1>5, <1>6, <3>3, <3>4 DEF Suspects
    <3>6. Suspects(U, n, i)' <=> Lost(U, i, prev)
      <4>1. Lost(U, i, prev) => i # turn
        BY <1>5
      <4> QED
        BY <1>2, <1>3, <1>6, <3>3, <3>4, <4>1 DEF Suspects
    <3> QED
      BY <3>2, <3>5, <3>6
  <2>3. turn \in T.group => up[turn]
    BY <1>1, <1>5 DEF Present
  <2> QED
    BY <1>2, <2>1, <2>2, <2>3 DEF Inherits
<1> QED
  BY <1>2, <1>5, <1>7, <1>8, <1>9, Sliced

\* ... or was acquitted ...
LEMMA AcquittedTrouble ==
  ASSUME OrderInv, NextSlice, slice = "MEMBERSHIP", NEW T \in Trouble, Tolerates(T),
         T.kind = "REPORTED", T.node = turn, ~Leaving(T)
  PROVE  Tolerant'
<1>1. TypeOK /\ Quiet /\ Present(T) /\ Phase(T)
  BY DEF OrderInv, Tolerates, Standing
<1>2. PICK U \in Trouble : U.group = T.group /\ U.kind = "FINE"
  <2>1. [group |-> T.group, kind |-> "FINE", node |-> T.node, other |-> T.other] \in Trouble
    BY DEF Trouble
  <2> QED
    BY <2>1
<1>3. /\ turn \in Node /\ T.group \subseteq Node
      /\ slice' = "SEND" /\ ran' = {} /\ UNCHANGED <<up, faulty, turn, calm>>
      /\ \A n : ~Purged(U, n)'
      /\ \A n, i : ~Listening(n, i)
      /\ \A n, i : Settled(U, n, i)' <=> up[n] /\ i \in U.group /\ i # n /\ i # turn
  BY <1>1, SendBegins
<1>4. \A n, i : Settled(T, n, i) <=> up[n] /\ i \in T.group /\ i # n
  BY <1>1, SendBegins
<1>5. /\ \A n : ~Purged(T, n) /\ GroupOf(T, n) = T.group
      /\ \A i, j : Lost(T, i, j) <=> i = turn /\ j = T.other
      /\ \A i, j : ~Lost(U, i, j) /\ ~Reports(U, i, j)'
      /\ T.other # Prev(T.group, turn)
  BY <1>2 DEF Purged, Leaving, GroupOf, Lost, Reports
<1>6. Present(U)'
  BY <1>1, <1>2, <1>3, <1>5 DEF Present
<1>7. Phase(U)'
  BY <1>2 DEF Phase
<1>8. Inherits(T, U)
  <2>1. ASSUME NEW n \in Node, NEW i \in Node, Settled(U, n, i)'
        PROVE  /\ Settled(T, n, i) /\ (Misses(U, n, i) <=> Misses(T, n, i))
               /\ \A j : Reported(U, n, i, j)' = Reported(T, n, i, j)
    <3>1. Settled(T, n, i) /\ i # turn
      BY <1>2, <1>3, <1>4, <2>1
    <3>2. ~Misses(U, n, i) /\ ~Misses(T, n, i)
      BY <1>5 DEF Misses
    <3>3. \A j : ~Reports(T, i, j)
      BY <1>5, <3>1 DEF Reports
    <3> QED
      BY <1>5, <3>1, <3>2, <3>3 DEF Reported
  <2>2. ASSUME NEW n \in Node, NEW i \in U.group
        PROVE  ~Estranged(T, n, i) /\ ~Suspects(U, n, i)' /\ ~Suspects(T, n, i)
    BY <1>3, <1>5 DEF Estranged, Suspects
  <2>3. turn \in T.group => up[turn]
    BY <1>1, <1>5 DEF Present
  <2> QED
    BY <1>2, <2>1, <2>2, <2>3 DEF Inherits
<1> QED
  BY <1>2, <1>5, <1>6, <1>7, <1>8, Sliced

\* ... or is removed.
LEMMA EndOfTrouble ==
  ASSUME OrderInv, NextSlice, slice = "MEMBERSHIP", NEW T \in Trouble, Tolerates(T),
         Leaving(T), T.node = turn
  PROVE  Tolerant'
<1>1. TypeOK /\ Quiet /\ Present(T) /\ Phase(T)
  BY DEF OrderInv, Tolerates, Standing
<1>2. PICK U \in Trouble :
        /\ U.group = T.group \ {turn}
        /\ U.kind = IF Cardinality(T.group \ {turn}) < MIN_MEMBERS THEN "FROZEN" ELSE "FINE"
  <2>1. [group |-> T.group \ {turn},
         kind |-> IF Cardinality(T.group \ {turn}) < MIN_MEMBERS THEN "FROZEN" ELSE "FINE",
         node |-> T.node, other |-> T.other] \in Trouble
    BY DEF Trouble
  <2> QED
    BY <2>1
<1>3. /\ turn \in Node /\ T.group \subseteq Node
      /\ slice' = "SEND" /\ ran' = {} /\ UNCHANGED <<up, faulty, turn, calm>>
      /\ latest' = [latest EXCEPT ![turn] = Empty] /\ latest \in [Node -> Body]
      /\ \A n \in Node : up[n] => n \in ran
      /\ \A n : ~Purged(U, n)'
      /\ \A i : Deciding(i) <=> i = turn
      /\ \A n, i : ~Listening(n, i)
      /\ \A n, i : Settled(U, n, i)' <=> up[n] /\ i \in U.group /\ i # n /\ i # turn
  BY <1>1, SendBegins
<1>4. \A n, i : Settled(T, n, i) <=> up[n] /\ i \in T.group /\ i # n
  BY <1>1, SendBegins
<1>5. /\ \A n \in Node : up[n] => Purged(T, n) /\ GroupOf(T, n) = U.group
      /\ ~up[turn]
      /\ \A i, j : Lost(T, i, j) => i = turn \/ j = turn
      /\ \A i : i # turn => ~Misses(T, i, i) /\ \A n : ~Misses(T, n, i)
      /\ \A i, j : ~Lost(U, i, j) /\ ~Reports(U, i, j)'
  <2>1. \A n \in Node : up[n] => Purged(T, n)
    BY <1>3 DEF Purged
  <2>2. ~up[turn]
    BY <1>1, <1>3, <2>1 DEF Present
  <2>3. /\ \A i, j : Lost(T, i, j) => i = turn \/ j = turn
        /\ \A i : i # turn => \A n : ~Misses(T, n, i)
    BY DEF Lost, Misses, Leaving
  <2>4. \A i, j : ~Lost(U, i, j) /\ ~Reports(U, i, j)'
    BY <1>2 DEF Lost, Reports
  <2> QED
    BY <1>2, <2>1, <2>2, <2>3, <2>4 DEF GroupOf
<1>6. Present(U)'
  <2>1. \A n \in Node : up[n] => n \in U.group
    BY <1>1, <1>2, <1>5 DEF Present
  <2>2. U.kind = "FROZEN" <=> Cardinality(U.group) < MIN_MEMBERS
    BY <1>2
  <2>3. \A n \in U.group : up[n]
    BY <1>1, <1>2 DEF Present, Purged, Leaving
  <2>4. "RECEIVER_OMISSION" \notin FaultKinds => \A n \in faulty : ~up[n]
    BY <1>1, <1>5 DEF Present, Leaving
  <2> QED
    BY <1>2, <1>3, <2>1, <2>2, <2>3, <2>4 DEF Present
<1>7. Phase(U)'
  BY <1>2 DEF Phase
<1>8. Inherits(T, U)
  <2>1. ASSUME NEW n \in Node, NEW i \in Node, Settled(U, n, i)'
        PROVE  /\ Settled(T, n, i) /\ (Misses(U, n, i) <=> Misses(T, n, i))
               /\ \A j \in U.group \ {i} : Reported(U, n, i, j)' = Reported(T, n, i, j)
    <3>1. Settled(T, n, i) /\ i # turn
      BY <1>2, <1>3, <1>4, <2>1
    <3>2. ~Misses(U, n, i) /\ ~Misses(T, n, i)
      BY <1>5, <3>1 DEF Misses
    <3>3. ASSUME NEW j \in U.group \ {i}
          PROVE  Reported(U, n, i, j)' = Reported(T, n, i, j)
      <4>1. ~Reports(T, i, j)
        BY <1>2, <1>5, <3>1 DEF Reports
      <4> QED
        BY <1>5, <3>2, <4>1 DEF Reported
    <3> QED
      BY <3>1, <3>2, <3>3
  <2>2. ASSUME NEW n \in Node, NEW i \in U.group, up[n]
        PROVE  ~Estranged(T, n, i) /\ ~Suspects(U, n, i)' /\ ~Suspects(T, n, i)
    <3>1. ~Suspects(U, n, i)' /\ ~Suspects(T, n, i)
      BY <1>5, <2>2 DEF Suspects
    <3>2. ~Estranged(T, n, i)
      BY <1>3 DEF Estranged, Leaving
    <3> QED
      BY <3>1, <3>2
  <2>3. \A i \in T.group \ U.group : latest'[i] = Empty
    BY <1>2, <1>3
  <2>4. T.kind # "FROZEN" /\ turn \notin U.group
    BY <1>2 DEF Leaving
  <2> QED
    BY <2>1, <2>2, <2>3, <2>4 DEF Inherits
<1> QED
  BY <1>5, <1>6, <1>7, <1>8, Sliced

LEMMA SliceKeeps ==
  ASSUME OrderInv, NextSlice, Tolerant
  PROVE  Tolerant'
<1>1. PICK T \in Trouble : Tolerates(T)
  BY DEF Tolerant
<1>2. CASE slice # "MEMBERSHIP"
  BY <1>1, <1>2, TroubleStays
<1>3. CASE slice = "MEMBERSHIP" /\ T.kind = "DEAF" /\ T.other = turn
  BY <1>1, <1>3, DeafTrouble
<1>4. CASE slice = "MEMBERSHIP" /\ T.kind \in {"DOOMED", "MUTE", "REPORTED"} /\ T.node = turn
  <2>1. CASE Leaving(T)
    BY <1>1, <1>4, <2>1, EndOfTrouble
  <2>2. CASE T.kind = "DOOMED"
    BY <1>1, <1>4, <2>2, DoomedTrouble
  <2>3. CASE T.kind = "REPORTED" /\ ~Leaving(T)
    BY <1>1, <1>4, <2>3, AcquittedTrouble
  <2> QED
    BY <1>4, <2>1, <2>2, <2>3 DEF Leaving
<1>5. CASE /\ slice = "MEMBERSHIP" /\ (T.kind = "DEAF" => T.other # turn)
           /\ T.kind \in {"DOOMED", "MUTE", "REPORTED"} => T.node # turn
  BY <1>1, <1>5, OtherTrouble
<1> QED
  BY <1>2, <1>3, <1>4, <1>5

-----------------------------------------------------------------------------
(* Every step                                                               *)

LEMMA StutterKeeps ==
  ASSUME UNCHANGED vars, Tolerant
  PROVE  Tolerant'
<1>1. PICK T \in Trouble : Tolerates(T)
  BY DEF Tolerant
<1>2. UNCHANGED <<up, view, sock, turn, slice, ran, asleep, out, starts, calm, faulty,
                  late, latest>>
  BY DEF vars, proc, clock, files, hazards
<1>3. /\ \A p \in Node : Sees(T, p) => Sees(T, p)'
      /\ \A p \in Node : Knows(T, p) => Knows(T, p)'
  BY <1>2, BystanderKnows
<1>4. /\ \A i, j : Reports(T, i, j)' <=> Reports(T, i, j)
      /\ \A i : Deciding(i)' <=> Deciding(i)
      /\ \A p : Purged(T, p)' <=> Purged(T, p)
      /\ \A p : Delivered(p)' = Delivered(p)
  BY <1>2, TimeStands, StaysPut DEF Delivered
<1>5. Quiet' /\ Seen(T)' /\ Sources(T)'
  BY <1>1, <1>2, <1>3 DEF Tolerates, Standing, Quiet, Seen, Sources, FromSender
<1>6. Present(T)'
  BY <1>1, <1>2, <1>4 DEF Tolerates, Standing, Present
<1>7. Phase(T)'
  BY <1>1, <1>2, PhaseStands DEF Tolerates, Standing
<1>8. Withheld(T)'
  BY <1>1, <1>2, <1>4 DEF Tolerates, Standing, Withheld
<1>9. Knowing(T) => Knowing(T)'
  <2> SUFFICES ASSUME Knowing(T)
               PROVE  Knowing(T)'
    OBVIOUS
  <2>1. InOrder(T)' /\ Senders(T)'
    BY <1>2 DEF Knowing, InOrder, Senders
  <2>2. \A msg : Says(T, msg) => Says(T, msg)'
    BY <1>2, <1>4 DEF Says
  <2>3. Mailboxes(T)'
    BY <1>2, <2>2 DEF Knowing, Mailboxes, Mailbox, FromSender
  <2> QED
    BY <1>3, <2>1, <2>3 DEF Knowing
<1> QED
  BY <1>1, <1>5, <1>6, <1>7, <1>8, <1>9 DEF Tolerates, Standing, Tolerant

\* The membership survives every step, the failures among them.
LEMMA ToleratesStep ==
  ASSUME OrderInv, MessageHeld, OneAtATime, Tolerant, [Next]_vars
  PROVE  Tolerant'
<1>1. TypeOK
  BY DEF OrderInv
<1>2. \A n \in Node : starts[n] = 0
  BY DEF Tolerant, Tolerates, Standing, Quiet
<1>3. CASE \E n \in Node : Handler(n)
  BY <1>1, <1>3, HandlerKeeps
<1>4. CASE \E n \in Node : Crash(n)
  BY <1>1, <1>4, CrashKeeps
<1>5. CASE NextSlice
  BY <1>5, SliceKeeps
<1>6. ~(\E n \in Node : Start(n))
  BY <1>2 DEF Start
<1>7. ~(\E n \in Node : Oversleep(n))
  BY DEF Oversleep, MayFail, OneAtATime
<1>8. CASE UNCHANGED vars
  BY <1>8, StutterKeeps
<1> QED
  BY <1>3, <1>4, <1>5, <1>6, <1>7, <1>8 DEF Next

-----------------------------------------------------------------------------
(* Before the first failure                                                 *)

\* All processes that run have joined, and see each other.
LEMMA JoinedFacts ==
  ASSUME FreeInv, Joined, NEW n \in Node
  PROVE  /\ up[n] <=> Belongs(n)
         /\ up[n] <=> Sends(n)
         /\ up[n] => /\ Members(view[n]) = {m \in Node : up[m]}
                     /\ view[n].count = Cardinality({m \in Node : up[m]})
                     /\ \A i \in Node : view[n].stage[i] # "ACTIVE"
<1>1. Grown /\ NoGhosts /\ Counts
  BY DEF FreeInv, Inv, Calm, Known
<1>2. \A m \in Node : (up[m] <=> Belongs(m)) /\ (up[m] <=> Sends(m))
  <2> SUFFICES ASSUME NEW m \in Node
               PROVE  (up[m] <=> Belongs(m)) /\ (up[m] <=> Sends(m))
    OBVIOUS
  <2>1. up[m] => Belongs(m)
    BY DEF Joined, Belongs, Stands
  <2>2. Belongs(m) => Sends(m)
    BY DEF Belongs, Sends
  <2>3. Sends(m) => up[m]
    BY <1>1 DEF Grown
  <2> QED
    BY <2>1, <2>2, <2>3
<1>3. ASSUME up[n], NEW i \in Node
      PROVE  view[n].stage[i] = IF up[i] THEN "MEMBER" ELSE "INACTIVE"
  <2>1. up[i] => view[n].stage[i] = "MEMBER"
    BY <1>3 DEF Joined
  <2>2. view[n].stage[i] # "INACTIVE" => up[i]
    BY <1>1, <1>2 DEF NoGhosts
  <2> QED
    BY <2>1, <2>2
<1>4. up[n] => Members(view[n]) = {m \in Node : up[m]}
  BY <1>3 DEF Members
<1> QED
  BY <1>1, <1>2, <1>3, <1>4 DEF Counts

LEMMA JoinedHears ==
  ASSUME FreeInv, Joined, NEW n \in Node, NEW i \in Node, up[n], up[i], n # i, ~Listening(n, i)
  PROVE  /\ view[n].vv[n][i] = "RECEIVED"
         /\ \A j \in Node \ {i} : up[j] => view[n].vv[i][j] = "RECEIVED"
<1>1. Calm /\ Vectors /\ Rows
  BY DEF FreeInv, Inv, Known
<1>2. Sends(n) /\ Sends(i)
  BY JoinedFacts
<1>3. HasHeard(n, i)
  BY <1>1, <1>2, SendersHeard
<1>4. \A j \in Node : up[j] => Confirmed(i, j)
  BY JoinedFacts DEF Confirmed
<1> QED
  BY <1>1, <1>2, <1>3, <1>4 DEF Vectors, Rows

\* A member has kept the last line of every other one, or delivered it.
LEMMA JoinedLines ==
  ASSUME FreeInv, Joined, NEW n \in Node, NEW i \in Node, up[n], up[i], n # i, ~Listening(n, i),
         Cardinality({m \in Node : up[m]}) >= MIN_MEMBERS
  PROVE  IF Deciding(i) /\ n \in ran
         THEN latest[i] = Empty \/ latest[i] \in Delivered(n)
         ELSE view[n].last[i] = latest[i]
<1>1. /\ TypeOK /\ Calm /\ Lined /\ LinesInOrder /\ MessageHeld /\ late = {}
  BY DEF FreeInv, Inv, OrderInv, Calm, NobodyFails
<1>2. CASE latest[i] # Empty
  <2>1. age[n] > Since(i)
    BY <1>1, JoinedFacts, SendersHeard
  <2>2. LineKept(n, i)
    BY <1>1, <1>2, <2>1 DEF Lined
  <2>3. Belongs(n) /\ ~(view[n].count < MIN_MEMBERS)
    <3>1. Belongs(n) /\ view[n].count = Cardinality({m \in Node : up[m]})
      BY JoinedFacts
    <3>2. view[n].count \in Int
      <4>1. view[n] \in View
        BY <1>1 DEF TypeOK
      <4> QED
        BY <4>1 DEF View
    <3> QED
      BY <3>1, <3>2, NodeFacts
  <2> QED
    BY <2>2, <2>3 DEF LineKept, Deciding
<1>3. CASE latest[i] = Empty /\ ~(Deciding(i) /\ n \in ran)
  <2>1. Fresh(n)
    BY <1>1 DEF LinesInOrder, InFile
  <2>2. view[n].last[i] \in {Null, Empty}
    BY <1>3, <2>1 DEF Fresh, Listening
  <2>3. Expects(view[n], n, i)
    BY JoinedHears DEF Expects
  <2>4. ~Due(n, i)
    BY <1>3 DEF Due, Deciding, Listening
  <2>5. view[n].last[i] # Null
    BY <1>1, <2>3, <2>4 DEF MessageHeld
  <2> QED
    BY <1>3, <2>2, <2>5
<1> QED
  BY <1>2, <1>3

\* Once all have joined the membership stands.
LEMMA JoinedTolerates ==
  ASSUME FreeInv, Joined
  PROVE  Tolerant
<1> DEFINE group == {n \in Node : up[n]}
           few == Cardinality(group) < MIN_MEMBERS
           T == [ group |-> group, kind |-> IF few THEN "FROZEN" ELSE "FINE",
                  node |-> 0, other |-> 0 ]
<1>1. T \in Trouble
  BY NodeFacts DEF Trouble
<1>2. /\ T.group = group /\ T.kind \in {"FINE", "FROZEN"} /\ (T.kind = "FROZEN" <=> few)
      /\ T.node = 0 /\ T.other = 0
  OBVIOUS
<1> HIDE DEF T
<1>3. /\ \A i, j : ~Lost(T, i, j) /\ ~Misses(T, i, j) /\ ~Reports(T, i, j)
      /\ \A n : ~Purged(T, n) /\ GroupOf(T, n) = group
  BY <1>2 DEF Lost, Misses, Reports, Purged, Leaving, GroupOf
<1>4. /\ TypeOK /\ Calm /\ Known /\ NoSuspicion /\ MembersLines /\ Deliverers
      /\ SenderFirst /\ Grown /\ InSockets /\ NobodyFails
  BY DEF FreeInv, Inv, Calm, Known
<1>5. \A n \in Node : n \in group <=> up[n]
  OBVIOUS
<1>6. \A n \in group : /\ Belongs(n) /\ Sends(n) /\ Members(view[n]) = group
                       /\ view[n].count = Cardinality(group)
                       /\ \A i \in Node : view[n].stage[i] # "ACTIVE"
  BY JoinedFacts
<1>7. \A i \in Node : Sends(i) \/ Belongs(i) => i \in group
  BY JoinedFacts
<1>8. turn \in Node
  BY <1>4 DEF TypeOK
<1>9. Quiet
  BY <1>4 DEF Quiet, NobodyFails, Joined
<1>10. Present(T)
  BY <1>2, <1>3, <1>4, <1>5 DEF Present, NobodyFails
<1>11. Phase(T)
  BY <1>2 DEF Phase
<1>12. Seen(T)
  BY <1>3, <1>5, <1>6 DEF Seen, Sees
<1>13. Sources(T)
  BY <1>2, <1>4, <1>7, <1>8 DEF Sources, InSockets, InSocket
<1> HIDE DEF group
<1>14. Withheld(T)
  <2> SUFFICES ASSUME slice = "MEMBERSHIP", T.kind = "FROZEN", latest[turn] # Empty,
                      NEW n \in Node, latest[turn] \in Delivered(n)
               PROVE  FALSE
    BY <1>2 DEF Withheld, Deciding
  <2>1. Belongs(n) /\ view[n].count >= MIN_MEMBERS
    BY <1>4 DEF Deliverers
  <2>2. view[n].count = Cardinality(group)
    BY <1>6, <1>7, <2>1
  <2>3. Cardinality(group) < MIN_MEMBERS
    BY <1>2
  <2>4. view[n].count \in Int
    <3>1. view[n] \in View
      BY <1>4 DEF TypeOK
    <3> QED
      BY <3>1 DEF View
  <2> QED
    BY <2>1, <2>2, <2>3, <2>4, NodeFacts
<1>15. T.kind # "FROZEN" => Knowing(T)
  <2> SUFFICES ASSUME T.kind # "FROZEN"
               PROVE  Knowing(T)
    OBVIOUS
  <2>1. Cardinality(group) >= MIN_MEMBERS
    <3>1. ~(Cardinality(group) < MIN_MEMBERS)
      BY <1>2
    <3>2. Cardinality(group) \in Nat
      <4>1. Members([stage |-> [j \in Node |-> IF j \in group THEN "MEMBER" ELSE "INACTIVE"]]) = group
        BY DEF Members, group
      <4> QED
        BY <4>1, MembersFinite
    <3> QED
      BY <3>1, <3>2, NodeFacts
  <2>2. InOrder(T)
    <3> SUFFICES ASSUME slice = "SEND", up[turn], turn \notin ran,
                        NEW n \in Node, up[n], n \in ran
                 PROVE  FALSE
      BY DEF InOrder
    <3>1. age[turn] > 0
      <4>1. age[turn] >= CycleLength
        BY <1>4, <1>5, <1>6, <1>8 DEF Grown
      <4>2. age[turn] \in Nat
        BY <1>4, <1>8, AgeTypes
      <4> QED
        BY <4>1, <4>2, CycleFacts, NodeFacts
    <3>2. view[n] = InitView
      BY <1>4, <3>1 DEF SenderFirst
    <3>3. view[n].stage[n] = "INACTIVE"
      BY <3>2 DEF InitView
    <3> QED
      BY <3>3, JoinedFacts DEF Belongs, Stands
  <2>3. Mailboxes(T)
    <3> SUFFICES ASSUME slice = "SEND", NEW n \in Node
                 PROVE  Mailbox(T, n)
      BY DEF Mailboxes
    <3>1. InSocket(n)
      BY <1>4 DEF InSockets
    <3>2. ASSUME NEW k \in FromSender(n)
          PROVE  Says(T, sock[n][k])
      <4>1. turn \in group /\ Tells(sock[n][k])
        BY <1>7, <1>8, <3>1, <3>2 DEF InSocket
      <4>2. \A j \in group \ {turn} : j \in sock[n][k].vector
        <5> TAKE j \in group \ {turn}
        <5>1. j \in Node /\ up[j] /\ up[turn] /\ ~Listening(turn, j)
          BY <4>1, <1>8 DEF Listening, group
        <5>2. view[turn].vv[turn][j] = "RECEIVED"
          BY <1>8, <5>1, JoinedHears
        <5> QED
          BY <4>1, <5>1, <5>2 DEF Tells, ArrayToByte
      <4> QED
        BY <1>2, <1>3, <4>1, <4>2 DEF Says, Tells
    <3>3. up[n] /\ n \notin ran /\ n # turn /\ turn \in T.group /\ (turn \in ran \/ ~up[turn])
          => FromSender(n) # {}
      <4> SUFFICES ASSUME up[n], n \notin ran, n # turn, turn \in T.group,
                          turn \in ran \/ ~up[turn]
                   PROVE  FromSender(n) # {}
        OBVIOUS
      <4>1. up[turn] /\ turn \in ran /\ Sends(turn)
        BY <1>2, <1>5, <1>6, <1>8
      <4>2. age[n] > 0
        <5>1. n \in group
          BY <1>5
        <5>2. age[n] >= CycleLength
          BY <1>4, <1>6, <5>1 DEF Grown
        <5>3. age[n] \in Nat
          BY <1>4, AgeTypes
        <5> QED
          BY <5>2, <5>3, CycleFacts, NodeFacts
      <4> QED
        BY <3>1, <4>1, <4>2 DEF InSocket
    <3> QED
      BY <1>3, <3>2, <3>3 DEF Mailbox
  <2>4. Senders(T)
    BY <1>2, <1>4, <1>7 DEF Senders, MembersLines
  <2>5. ASSUME NEW n \in Node
        PROVE  Knows(T, n)
    <3>1. \A i \in Node : Settled(T, n, i) =>
            up[n] /\ up[i] /\ n # i /\ i \in group /\ ~Listening(n, i)
      BY <1>2, <1>5 DEF Settled
    <3>2. OwnVector(T, n)
      BY <1>3, <3>1, JoinedHears DEF OwnVector
    <3>3. OtherVectors(T, n)
      <4> SUFFICES ASSUME NEW i \in Node, Settled(T, n, i), NEW j \in T.group \ {i}
                   PROVE  view[n].vv[i][j] = Reported(T, n, i, j)
        BY DEF OtherVectors
      <4>1. j \in Node \ {i} /\ up[j]
        BY <1>2 DEF group
      <4>2. Reported(T, n, i, j) = "RECEIVED"
        BY <1>3 DEF Reported
      <4> QED
        BY <3>1, <4>1, <4>2, JoinedHears
    <3>4. Suspicions(T, n)
      <4>1. \A i : ~Suspects(T, n, i)
        BY <1>3 DEF Suspects
      <4>2. \A i \in GroupOf(T, n) : view[n].sus[i].flag = FALSE
        BY <1>3, <1>4 DEF NoSuspicion, group
      <4> QED
        BY <4>1, <4>2 DEF Suspicions
    <3>5. LinesOf(T, n)
      BY <2>1, <3>1, JoinedLines DEF LinesOf, LineOf, group
    <3> QED
      BY <3>2, <3>3, <3>4, <3>5 DEF Knows
  <2> QED
    BY <2>2, <2>3, <2>4, <2>5 DEF Knowing
<1> QED
  BY <1>1, <1>9, <1>10, <1>11, <1>12, <1>13, <1>14, <1>15 DEF Tolerates, Standing, Tolerant

-----------------------------------------------------------------------------
(* The invariant over a whole behaviour                                     *)

\* Nothing has failed yet, or the membership tolerates the failures.
LateInv ==
  /\ OrderInv /\ MessageHeld /\ ValidityInv
  /\ faults = MaxFaults => FreeInv
  /\ faults = MaxFaults \/ Tolerant

LateStep == [Next]_vars /\ [faults = MaxFaults /\ faults' # faults => Joined]_vars

LEMMA LatePhases ==
  ASSUME LateInv, LateStep, OneAtATime
  PROVE  \/ Spared /\ FreeInv /\ FreeInv' /\ faults' = MaxFaults
         \/ Tolerant /\ Tolerant'
<1>1. [Next]_vars /\ OrderInv /\ MessageHeld
  BY DEF LateStep, LateInv
<1>2. CASE Tolerant
  BY <1>1, <1>2, ToleratesStep
<1>3. CASE ~Tolerant /\ Spared
  <2>1. FreeInv /\ faults = MaxFaults
    BY <1>3 DEF LateInv
  <2> QED
    BY <1>1, <1>3, <2>1, FreeStep DEF Spared
<1>4. CASE ~Tolerant /\ ~Spared
  <2>1. FreeInv /\ faults = MaxFaults /\ faults' # faults
    BY <1>4 DEF LateInv, Spared
  <2>2. vars' # vars
    BY <2>1 DEF vars, hazards
  <2>3. Joined
    BY <2>1, <2>2 DEF LateStep
  <2> QED
    BY <1>4, <2>1, <2>3, JoinedTolerates
<1> QED
  BY <1>2, <1>3, <1>4

LEMMA LateInvStep ==
  ASSUME LateInv, LateStep, OneAtATime
  PROVE  LateInv'
<1>1. /\ [Next]_vars /\ OrderInv /\ MessageHeld /\ ValidityInv
      /\ TypeOK /\ NothingLeft /\ SleepersLate /\ LinesInOrder
  BY DEF LateStep, LateInv, OrderInv
<1>2. OrderInv' /\ MessageHeld'
  BY <1>1, NextType, NothingLeftStep, SleepersLateStep, LinesStep, MessageHeldStep DEF OrderInv
<1>3. ValidityInv'
  BY <1>1, <1>2, SleepersStep, RebornStep, OwnLinesStep DEF ValidityInv, OrderInv
<1>4. (faults = MaxFaults => FreeInv)'
  <2> SUFFICES ASSUME faults' = MaxFaults
               PROVE  FreeInv'
    OBVIOUS
  <2>1. faults \in 0..MaxFaults /\ MaxFaults \in Nat
    BY <1>1, BoundsAssumption DEF TypeOK
  <2>2. Spared
    BY <1>1, <2>1, FaultsFall DEF Failing
  <2> QED
    BY <1>1, <2>2, FreeStep DEF LateInv, Spared
<1>5. (faults = MaxFaults \/ Tolerant)'
  BY LatePhases
<1> QED
  BY <1>2, <1>3, <1>4, <1>5 DEF LateInv

LEMMA LateInvariant ==
  ASSUME OneAtATime
  PROVE  Spec /\ FailsLate => []LateInv
<1>1. Init => LateInv
  BY InitFree DEF LateInv, FreeInv, Inv, Init
<1>2. LateInv /\ LateStep => LateInv'
  BY LateInvStep
<1> QED
  BY <1>1, <1>2, PTL DEF Spec, FailsLate, LateStep

-----------------------------------------------------------------------------
(* What follows from it                                                     *)

LEMMA ThreeMembers ==
  ASSUME NEW group \in SUBSET Node, Cardinality(group) >= 3, NEW a, NEW b
  PROVE  group \ {a, b} # {}
<1> SUFFICES ASSUME group \subseteq {a, b}
             PROVE  FALSE
  OBVIOUS
<1>1. IsFiniteSet({a}) /\ Cardinality({a}) = 1
  BY FS_Singleton
<1>2. /\ IsFiniteSet({a} \cup {b})
      /\ Cardinality({a} \cup {b}) = IF b \in {a} THEN Cardinality({a}) ELSE Cardinality({a}) + 1
  BY <1>1, FS_AddElement
<1>3. IsFiniteSet({a, b}) /\ Cardinality({a, b}) \in {1, 2}
  <2>1. {a} \cup {b} = {a, b}
    OBVIOUS
  <2> QED
    BY <1>1, <1>2, <2>1
<1>4. Cardinality(group) <= Cardinality({a, b}) /\ IsFiniteSet(group)
  BY <1>3, FS_Subset
<1>5. Cardinality(group) \in Nat
  BY <1>4, FS_CardinalityType
<1> QED
  BY <1>3, <1>4, <1>5

LEMMA BigGroup ==
  ASSUME NEW T \in Trouble, Present(T), T.kind # "FROZEN"
  PROVE  Cardinality(T.group) \in Nat /\ Cardinality(T.group) >= 3
<1>1. T.group \in SUBSET Node
  BY DEF Trouble
<1>2. Members([stage |-> [j \in Node |-> IF j \in T.group THEN "MEMBER" ELSE "INACTIVE"]]) = T.group
  BY <1>1 DEF Members
<1>3. Cardinality(T.group) \in Nat
  BY <1>2, MembersFinite
<1> QED
  BY <1>3, NodeFacts DEF Present

LEMMA TolerantCounts == Tolerant => CountIsExact
BY DEF Tolerant, Tolerates, Standing, Seen, Sees, CountIsExact

\* A member that is up is in its own view, and in the group.
LEMMA UpMembers ==
  ASSUME NEW T \in Trouble, Standing(T), NEW n \in Node, up[n]
  PROVE  n \in T.group /\ IsMember(n) /\ (Purged(T, n) => n # T.node)
<1>1. n \in T.group /\ (Purged(T, n) => n # T.node)
  BY DEF Standing, Present
<1>2. n \in GroupOf(T, n)
  BY <1>1 DEF GroupOf
<1>3. n \in Members(view[n])
  BY <1>2 DEF Standing, Seen, Sees
<1> QED
  BY <1>1, <1>3 DEF IsMember, Members

LEMMA TolerantAgreement == TypeOK /\ OwnLines /\ Tolerant => UniformAgreement
<1> SUFFICES ASSUME TypeOK, OwnLines, Tolerant, Decided, latest[turn] # Empty,
                    NEW n \in Node, NEW m \in Node,
                    latest[turn] \in Delivered(n), Correct(m)
             PROVE  latest[turn] \in Delivered(m)
  BY DEF UniformAgreement
<1>1. PICK T \in Trouble : Tolerates(T)
  BY DEF Tolerant
<1>2. /\ Standing(T) /\ Present(T) /\ turn \in Node /\ Deciding(turn) /\ slice = "MEMBERSHIP"
      /\ up[m] /\ m \in ran /\ m \notin faulty /\ IsMember(m)
  BY <1>1 DEF Tolerates, Standing, TypeOK, Decided, AllRan, Deciding, Correct, IsMember
<1>3. T.kind # "FROZEN" /\ ~(T.kind = "MUTE" /\ turn = T.node)
  BY <1>1, <1>2 DEF Tolerates, Standing, Withheld
<1>4. Senders(T) /\ LinesOf(T, m)
  BY <1>1, <1>3 DEF Tolerates, Knowing, Knows
<1>5. turn \in T.group
  BY <1>2, <1>4 DEF Senders
<1>6. T.kind # "FINE" => T.node \in faulty
  BY <1>2, <1>3 DEF Present
<1>7. CASE m = turn
  <2>1. ~Purged(T, m)
    BY <1>2, <1>6, <1>7 DEF Purged, Leaving, Deciding
  <2>2. view[m].count = Cardinality(T.group)
    BY <1>2, <2>1 DEF Standing, Seen, Sees, GroupOf
  <2>3. ~(view[m].count < MIN_MEMBERS)
    BY <1>2, <1>3, <2>2, BigGroup, NodeFacts
  <2> QED
    BY <1>2, <1>7, <2>3 DEF OwnLines, OwnLine
<1>8. CASE m # turn
  <2>1. Settled(T, m, turn)
    BY <1>2, <1>5, <1>8 DEF Settled, Listening
  <2>2. ~Misses(T, m, turn)
    BY <1>2, <1>3, <1>6 DEF Misses, Lost
  <2>3. LineOf(T, m, turn)
    BY <1>2, <1>4, <2>1, <2>2 DEF LinesOf
  <2> QED
    BY <1>2, <2>3 DEF LineOf
<1> QED
  BY <1>7, <1>8

LEMMA TolerantSilence == TypeOK /\ Tolerant => SilentSenderRemoved
<1> SUFFICES ASSUME TypeOK, Tolerant, Decided,
                    \A n \in Node \ {turn} : IsMember(n) => view[n].vv[n][turn] # "RECEIVED",
                    NEW n \in Node, IsMember(n), turn \in Members(view[n])
             PROVE  view[n].count < MIN_MEMBERS
  BY DEF SilentSenderRemoved
<1>1. PICK T \in Trouble : Tolerates(T)
  BY DEF Tolerant
<1>2. /\ Standing(T) /\ Present(T) /\ turn \in Node /\ slice = "MEMBERSHIP" /\ AllRan
      /\ up[n] /\ n \in ran
  BY <1>1 DEF Tolerates, Standing, TypeOK, Decided, AllRan, IsMember
<1>3. CASE T.kind = "FROZEN"
  <2>1. ~Purged(T, n)
    BY <1>3 DEF Purged, Leaving
  <2>2. view[n].count = Cardinality(T.group)
    BY <1>2, <2>1 DEF Standing, Seen, Sees, GroupOf
  <2> QED
    BY <1>2, <1>3, <2>2 DEF Present
<1>4. CASE T.kind # "FROZEN"
  <2>1. turn \in T.group /\ ~(T.kind = "MUTE" /\ turn = T.node)
    <3>1. turn \in GroupOf(T, n)
      BY <1>2 DEF Standing, Seen, Sees
    <3> QED
      BY <1>2, <3>1 DEF GroupOf, Purged, Leaving, Deciding
  <2>2. ASSUME NEW p \in Node, up[p], p # turn
        PROVE  Misses(T, p, turn)
    <3>1. Settled(T, p, turn)
      BY <1>2, <2>1, <2>2 DEF Settled, Listening
    <3>2. IsMember(p)
      BY <1>2, <2>2, UpMembers
    <3>3. OwnVector(T, p)
      BY <1>1, <1>4 DEF Tolerates, Knowing, Knows
    <3> QED
      BY <1>2, <2>2, <3>1, <3>2, <3>3 DEF OwnVector
  <2>3. \A p \in Node : up[p] /\ p # turn => T.kind = "DEAF" /\ p = T.node
    BY <2>1, <2>2 DEF Misses, Lost
  <2>4. PICK p \in T.group : p # turn /\ p # T.node
    <3>1. T.group \ {turn, T.node} # {}
      BY <1>2, <1>4, BigGroup, ThreeMembers DEF Trouble
    <3> QED
      BY <3>1
  <2>5. p \in Node /\ up[p]
    BY <1>2, <1>4, <2>4 DEF Present, Trouble
  <2> QED
    BY <2>3, <2>4, <2>5
<1> QED
  BY <1>3, <1>4

LEMMA FreeSilence == FreeInv => SilentSenderRemoved
<1> SUFFICES ASSUME FreeInv, Decided,
                    \A n \in Node \ {turn} : IsMember(n) => view[n].vv[n][turn] # "RECEIVED",
                    NEW n \in Node, IsMember(n), turn \in Members(view[n])
             PROVE  view[n].count < MIN_MEMBERS
  BY DEF SilentSenderRemoved
<1>1. /\ TypeOK /\ Calm /\ Known /\ Counts /\ Vectors /\ Grown /\ NoGhosts
      /\ slice = "MEMBERSHIP" /\ turn \in Node
  BY DEF FreeInv, Inv, Calm, Known, TypeOK, Decided
<1>2. Sends(turn)
  BY <1>1 DEF NoGhosts, Members
<1>3. ASSUME NEW p \in Node, Belongs(p), p # turn
      PROVE  FALSE
  <2>1. Sends(p) /\ ~Listening(p, turn)
    BY <1>1, <1>3 DEF Belongs, Sends, Listening
  <2>2. HasHeard(p, turn)
    BY <1>1, <1>3, <2>1, SendersHeard
  <2>3. IsMember(p)
    BY <1>3, <2>2 DEF HasHeard, IsMember, Belongs, Stands
  <2> QED
    BY <1>1, <1>2, <1>3, <2>2, <2>3 DEF Vectors
<1>4. n = turn
  BY <1>3 DEF IsMember, Belongs, Stands
<1> SUFFICES ASSUME ~(view[n].count < MIN_MEMBERS)
             PROVE  FALSE
  OBVIOUS
<1>5. Cardinality(Members(view[n])) >= 2
  BY <1>1, MembersFinite, NodeFacts DEF Counts
<1>6. PICK p \in Members(view[n]) : p # turn
  BY <1>5, AnotherMember
<1>7. Belongs(p) /\ p \in Node
  BY <1>1, <1>6, TrueMembers DEF Members
<1> QED
  BY <1>3, <1>6, <1>7

\* Only a process that has failed ends, by a crash or convicted by itself.
LEMMA TolerantEnds ==
  ASSUME TypeOK, MessageHeld, Tolerant, [Next]_vars, NEW n \in Node, up[n], ~up'[n]
  PROVE  n \in faulty'
<1>1. PICK T \in Trouble : Tolerates(T)
  BY DEF Tolerant
<1>2. Present(T) /\ up \in [Node -> BOOLEAN]
  BY <1>1 DEF Tolerates, Standing, TypeOK
<1>3. ASSUME NEW p \in Node, Handler(p), slice = "MEMBERSHIP"
      PROVE  n \in faulty'
  <2>1. Judges(T, p) \/ Expels(T, p) \/ Departs(T, p)
    BY <1>1, <1>3, MembershipWorks
  <2>2. Departs(T, p)
    BY <2>1 DEF Judges, Expels, Works, Runs
  <2>3. p = n /\ n = T.node /\ T.kind \notin {"FINE", "FROZEN"} /\ faulty' = faulty
    BY <1>2, <2>2 DEF Departs, ProcessEnds, Leaving
  <2> QED
    BY <1>2, <2>3 DEF Present
<1>4. ASSUME NEW p \in Node, Handler(p), slice # "MEMBERSHIP"
      PROVE  FALSE
  BY <1>1, <1>4, SendHandler DEF SendMessage, Takes, Waits, Listens, Works, Runs
<1>5. ASSUME NEW p \in Node, Crash(p)
      PROVE  n \in faulty'
  BY <1>2, <1>5 DEF Crash, ProcessEnds, Fail
<1>6. ASSUME NEW p \in Node, Start(p)
      PROVE  FALSE
  BY <1>1, <1>6 DEF Start, Tolerates, Standing, Quiet
<1>7. ASSUME NEW p \in Node, Oversleep(p)
      PROVE  FALSE
  BY <1>7 DEF Oversleep, proc
<1>8. NextSlice \/ UNCHANGED vars => FALSE
  BY DEF NextSlice, vars, proc
<1> QED
  BY <1>3, <1>4, <1>5, <1>6, <1>7, <1>8 DEF Next

-----------------------------------------------------------------------------
(* The membership that the correct members see                              *)

\* The one they see until the last of them has decided, or see since then.
CommonOf(T) ==
  IF Undecided = {} /\ Leaving(T) /\ Deciding(T.node) THEN T.group \ {T.node} ELSE T.group

ViewsOf(T) ==
  Standing(T) =>
    /\ \A m \in Node : Correct(m) <=> up[m] /\ m \notin faulty
    /\ \A m \in Node : Correct(m) /\ (m \in Undecided \/ Undecided = {}) =>
         CommonViews = {Members(view[m])}
    /\ (\E m \in Node : Correct(m)) => CommonViews = {CommonOf(T)}
    /\ (\A m \in Node : ~Correct(m)) => CommonViews = {}

LEMMA TolerantViews == \A T \in Trouble : ViewsOf(T)
<1> SUFFICES ASSUME NEW T \in Trouble, Standing(T)
             PROVE  /\ \A m \in Node : Correct(m) <=> up[m] /\ m \notin faulty
                    /\ \A m \in Node : Correct(m) /\ (m \in Undecided \/ Undecided = {}) =>
                         CommonViews = {Members(view[m])}
                    /\ (\E m \in Node : Correct(m)) => CommonViews = {CommonOf(T)}
                    /\ (\A m \in Node : ~Correct(m)) => CommonViews = {}
  BY DEF ViewsOf
<1> DEFINE Voters == IF Undecided # {} THEN Undecided ELSE {m \in Node : Correct(m)}
<1>1. \A m \in Node : Correct(m) <=> up[m] /\ m \notin faulty
  BY UpMembers DEF Correct, IsMember
<1>2. CommonViews = {Members(view[m]) : m \in Voters}
  BY DEF CommonViews
<1>3. \A m : m \in Undecided <=> m \in Node /\ Correct(m) /\ slice = "MEMBERSHIP" /\ m \notin ran
  BY DEF Undecided
<1>4. \A m : m \in Voters <=> m \in Node /\ Correct(m) /\ (m \in Undecided \/ Undecided = {})
  BY <1>3
<1>5. ASSUME NEW m \in Voters
      PROVE  Members(view[m]) = CommonOf(T)
  <2>1. Members(view[m]) = GroupOf(T, m)
    BY <1>1, <1>4 DEF Standing, Seen, Sees
  <2>2. GroupOf(T, m) = CommonOf(T)
    <3>1. CASE m \in Undecided
      BY <1>3, <3>1 DEF GroupOf, Purged, CommonOf
    <3>2. CASE m \notin Undecided
      BY <1>3, <1>4, <3>2 DEF GroupOf, Purged, CommonOf, Deciding
    <3> QED
      BY <3>1, <3>2
  <2> QED
    BY <2>1, <2>2
<1>6. (\E m \in Node : Correct(m)) => Voters # {}
  OBVIOUS
<1>7. (\A m \in Node : ~Correct(m)) => Voters = {}
  BY <1>4
<1> HIDE DEF Voters
<1>8. Voters # {} => CommonViews = {CommonOf(T)}
  BY <1>2, <1>5
<1>9. Voters = {} => CommonViews = {}
  BY <1>2
<1> QED
  BY <1>1, <1>4, <1>5, <1>6, <1>7, <1>8, <1>9

LEMMA TolerantViewsNext == (\A T \in Trouble : ViewsOf(T))'
BY TolerantViews, PTL

LEMMA StandingViews ==
  ASSUME NEW T \in Trouble, Standing(T)
  PROVE  /\ \A m \in Node : Correct(m) <=> up[m] /\ m \notin faulty
         /\ \A m \in Node : Correct(m) /\ (m \in Undecided \/ Undecided = {}) =>
              CommonViews = {Members(view[m])}
         /\ (\E m \in Node : Correct(m)) => CommonViews = {CommonOf(T)}
         /\ (\A m \in Node : ~Correct(m)) => CommonViews = {}
BY TolerantViews DEF ViewsOf

LEMMA StandingViewsNext ==
  ASSUME NEW T \in Trouble, Standing(T)'
  PROVE  /\ \A m \in Node : Correct(m)' <=> up'[m] /\ m \notin faulty'
         /\ \A m \in Node : Correct(m)' /\ (m \in Undecided' \/ Undecided' = {}) =>
              CommonViews' = {Members(view[m])'}
         /\ (\E m \in Node : Correct(m)') => CommonViews' = {CommonOf(T)'}
         /\ (\A m \in Node : ~Correct(m)') => CommonViews' = {}
BY TolerantViewsNext DEF ViewsOf

\* A failed node is removed, or the last correct member fails.
MembershipLoss == (\E n \in Node : MS!Remove(n)) \/ MS!Dissolve

\* While the members decide the last one of them changes the common view.
LEMMA DecideMembers ==
  ASSUME TypeOK, MessageHeld, Tolerant, NEW n \in Node, Handler(n), slice = "MEMBERSHIP"
  PROVE  UNCHANGED CommonViews \/ MembershipLoss
<1>1. PICK T \in Trouble : Tolerates(T)
  BY DEF Tolerant
<1>2. Standing(T) /\ Present(T) /\ Standing(T)' /\ T.node \in Node
  BY <1>1, MembershipKeeps DEF Tolerates, Standing, Trouble
<1>3. Judges(T, n) \/ Expels(T, n) \/ Departs(T, n)
  BY <1>1, MembershipWorks
<1>4. /\ UNCHANGED <<turn, slice, faulty>> /\ ran' = ran \cup {n}
      /\ \A m \in Node : m \notin faulty => up'[m] = up[m]
  <2>1. CASE Judges(T, n) \/ Expels(T, n)
    BY <2>1 DEF Judges, Expels, Works, Runs
  <2>2. CASE Departs(T, n)
    <3>1. /\ UNCHANGED <<turn, slice, faulty>> /\ ran' = ran \cup {n}
          /\ up' = [up EXCEPT ![n] = FALSE] /\ n = T.node /\ Leaving(T)
      BY <2>2 DEF Departs, ProcessEnds
    <3>2. n \in faulty
      BY <1>2, <3>1 DEF Leaving, Present
    <3>3. up \in [Node -> BOOLEAN]
      BY DEF TypeOK
    <3> QED
      BY <3>1, <3>2, <3>3
  <2> QED
    BY <1>3, <2>1, <2>2
<1>5. \A m \in Node : Correct(m)' <=> Correct(m)
  BY <1>2, <1>4, StandingViews, StandingViewsNext
<1>6. Undecided' \subseteq Undecided
  BY <1>4, <1>5 DEF Undecided
<1>7. \/ CommonOf(T)' = CommonOf(T)
      \/ CommonOf(T)' = CommonOf(T) \ {T.node} /\ Leaving(T)
  BY <1>4, <1>6 DEF CommonOf, Deciding
<1>8. CASE \A m \in Node : ~Correct(m)
  BY <1>2, <1>5, <1>8, StandingViews, StandingViewsNext
<1>9. CASE \E m \in Node : Correct(m)
  <2>1. CommonViews = {CommonOf(T)} /\ CommonViews' = {CommonOf(T)'}
    BY <1>2, <1>5, <1>9, StandingViews, StandingViewsNext
  <2>2. CASE CommonOf(T)' = CommonOf(T)
    BY <2>1, <2>2
  <2>3. CASE CommonOf(T)' = CommonOf(T) \ {T.node} /\ Leaving(T)
    <3>1. T.node \in faulty'
      BY <1>2, <1>4, <2>3 DEF Present, Leaving
    <3>2. MS!Remove(T.node)
      BY <1>2, <2>1, <2>3, <3>1 DEF MS!Remove
    <3> QED
      BY <1>2, <3>2 DEF MembershipLoss
  <2> QED
    BY <1>7, <2>2, <2>3
<1> QED
  BY <1>8, <1>9

\* A failure that leaves the views alone.
LEMMA FailingMembers ==
  ASSUME NEW T \in Trouble, Standing(T), Tolerant', CommonOf(T) = T.group,
         faulty \subseteq faulty',
         \A m \in Node : up[m] /\ ~up'[m] => m \in faulty',
         \A m \in Node : up'[m] /\ m \notin faulty' =>
            up[m] /\ Members(view[m])' = T.group
  PROVE  UNCHANGED CommonViews \/ MembershipLoss
<1>1. PICK U \in Trouble : Standing(U)'
  BY DEF Tolerant, Tolerates
<1>2. \A m \in Node : Correct(m)' => Correct(m) /\ Members(view[m])' = T.group
  BY <1>1, StandingViews, StandingViewsNext
<1>3. CASE \E m \in Node : Correct(m)'
  <2>1. PICK m \in Node : Correct(m)' /\ (m \in Undecided' \/ Undecided' = {})
    <3>1. \A m \in Undecided' : m \in Node /\ Correct(m)'
      BY DEF Undecided
    <3> QED
      BY <1>3, <3>1
  <2>2. CommonViews' = {T.group}
    BY <1>1, <1>2, <2>1, StandingViewsNext
  <2>3. CommonViews = {T.group}
    BY <1>2, <2>1, StandingViews
  <2> QED
    BY <2>2, <2>3
<1>4. CASE \A m \in Node : ~Correct(m)'
  <2>1. CommonViews' = {}
    BY <1>1, <1>4, StandingViewsNext
  <2>2. CommonViews \subseteq {T.group}
    BY StandingViews
  <2>3. \A m \in T.group : m \in Node /\ m \in faulty'
    BY <1>1, <1>4, StandingViewsNext DEF Standing, Present, Trouble
  <2>4. MS!Dissolve
    BY <2>1, <2>2, <2>3 DEF MS!Dissolve
  <2> QED
    BY <2>4 DEF MembershipLoss
<1> QED
  BY <1>3, <1>4

LEMMA TolerantSends ==
  ASSUME TypeOK, Tolerant, Tolerant', NEW n \in Node, Handler(n), slice # "MEMBERSHIP"
  PROVE  UNCHANGED CommonViews \/ MembershipLoss
<1>1. PICK T \in Trouble : Tolerates(T)
  BY DEF Tolerant
<1>2. Standing(T)
  BY <1>1 DEF Tolerates
<1>3. \/ turn = n /\ SendMessage(n)
      \/ Takes(T, n) \/ Waits(T, n)
  BY <1>1, SendHandler
<1>4. up' = up /\ faulty \subseteq faulty' /\ \A m \in Node : view'[m].stage = view[m].stage
  <2>1. CASE Takes(T, n) \/ Waits(T, n)
    BY <2>1 DEF Takes, Waits, Listens, Works, Runs
  <2>2. CASE SendMessage(n)
    <3>1. PICK heard \in SUBSET Listeners(n) : Heard(n, heard) /\ Speaks(n, heard)
      BY <2>2, SendMessageSpeaks
    <3> QED
      BY <3>1 DEF Speaks, Runs, Heard, Fail
  <2> QED
    BY <1>3, <2>1, <2>2
<1>5. \A m : ~Deciding(m) /\ ~Purged(T, m) /\ GroupOf(T, m) = T.group
  BY DEF Deciding, Purged, GroupOf
<1>6. \A m \in Node : up[m] => Members(view[m])' = T.group
  <2>1. \A m \in Node : Members(view[m])' = Members(view[m])
    BY <1>4 DEF Members
  <2> QED
    BY <1>2, <1>5, <2>1 DEF Standing, Seen, Sees
<1>7. CommonOf(T) = T.group
  BY <1>5 DEF CommonOf
<1> QED
  BY <1>2, <1>4, <1>6, <1>7, FailingMembers

LEMMA CrashMembers ==
  ASSUME TypeOK, OneAtATime, Tolerant, Tolerant', NEW n \in Node, Crash(n)
  PROVE  UNCHANGED CommonViews \/ MembershipLoss
<1>1. PICK T \in Trouble : Tolerates(T)
  BY DEF Tolerant
<1>2. Standing(T) /\ Phase(T)
  BY <1>1 DEF Tolerates, Standing
<1>3. /\ MayFail("CRASH_FAILURE") /\ Fail(n) /\ ~up'[n]
      /\ \A p \in Node \ {n} : up'[p] = up[p] /\ view'[p] = view[p]
  BY CrashFacts
<1>4. ~Leaving(T)
  BY <1>2, <1>3, FailsFine DEF Leaving
<1>5. CommonOf(T) = T.group /\ \A m : GroupOf(T, m) = T.group
  BY <1>4 DEF CommonOf, GroupOf, Purged
<1>6. faulty' = faulty \cup {n}
  BY <1>3 DEF Fail
<1>7. \A m \in Node : up'[m] => up[m] /\ Members(view[m])' = T.group
  <2>1. \A m \in Node : up[m] => Members(view[m]) = T.group
    BY <1>2, <1>5 DEF Standing, Seen, Sees
  <2> QED
    BY <1>3, <2>1 DEF Members
<1> QED
  BY <1>2, <1>3, <1>5, <1>6, <1>7, FailingMembers

LEMMA TolerantSlices ==
  ASSUME Tolerant, Tolerant', NextSlice
  PROVE  UNCHANGED CommonViews
<1>1. PICK T \in Trouble : Standing(T)
  BY DEF Tolerant, Tolerates
<1>2. PICK U \in Trouble : Standing(U)'
  BY DEF Tolerant, Tolerates
<1>3. /\ UNCHANGED <<up, view, faulty>> /\ ran' = {}
      /\ slice = "MEMBERSHIP" => AllRan /\ slice' = "SEND"
  BY <1>1 DEF NextSlice, Standing, Quiet
<1>4. \A m \in Node : Correct(m)' <=> Correct(m)
  BY <1>1, <1>2, <1>3, StandingViews, StandingViewsNext
<1>5. Undecided = {} /\ \A m \in Node : Correct(m)' => m \in Undecided' \/ Undecided' = {}
  <2>1. Undecided = {}
    BY <1>1, <1>3, StandingViews DEF Undecided, AllRan
  <2> QED
    BY <1>3, <2>1 DEF Undecided
<1>6. CASE \E m \in Node : Correct(m)
  <2>1. PICK m \in Node : Correct(m)
    BY <1>6
  <2>2. CommonViews = {Members(view[m])} /\ CommonViews' = {Members(view[m])'}
    BY <1>1, <1>2, <1>4, <1>5, <2>1, StandingViews, StandingViewsNext
  <2> QED
    BY <1>3, <2>2 DEF Members
<1>7. CASE \A m \in Node : ~Correct(m)
  BY <1>1, <1>2, <1>4, <1>7, StandingViews, StandingViewsNext
<1> QED
  BY <1>6, <1>7

LEMMA TolerantMembers ==
  ASSUME TypeOK, MessageHeld, OneAtATime, Tolerant, Tolerant', [Next]_vars
  PROVE  UNCHANGED CommonViews \/ MembershipLoss
<1>1. ~(\E n \in Node : Start(n))
  BY DEF Start, Tolerant, Tolerates, Standing, Quiet
<1>2. ~(\E n \in Node : Oversleep(n))
  BY DEF Oversleep, MayFail, OneAtATime
<1>3. UNCHANGED vars => UNCHANGED CommonViews
  BY DEF vars, proc, clock, hazards, CommonViews, Undecided, Correct, IsMember, Members
<1> QED
  BY <1>1, <1>2, <1>3, DecideMembers, TolerantSends, CrashMembers, TolerantSlices DEF Next

-----------------------------------------------------------------------------
(* Theorems                                                                 *)

LEMMA LateFacts ==
  ASSUME LateInv
  PROVE  SilentSenderRemoved /\ UniformAgreement /\ CountIsExact
<1>1. TypeOK /\ OwnLines /\ (FreeInv \/ Tolerant)
  BY DEF LateInv, OrderInv, ValidityInv
<1>2. CASE FreeInv
  BY <1>2, FreeSilence, FreeAgreement, FreeCounts
<1>3. CASE Tolerant
  BY <1>1, <1>3, TolerantSilence, TolerantAgreement, TolerantCounts
<1> QED
  BY <1>1, <1>2, <1>3

LEMMA LateEnds ==
  ASSUME LateInv, LateStep, OneAtATime, NEW n \in Node, up[n], ~up'[n]
  PROVE  n \in faulty'
<1>1. TypeOK /\ MessageHeld /\ [Next]_vars
  BY DEF LateInv, OrderInv, LateStep
<1>2. CASE Spared /\ FreeInv
  BY <1>1, <1>2, NobodyEndsStep
<1>3. CASE Tolerant
  BY <1>1, <1>3, TolerantEnds
<1> QED
  BY <1>2, <1>3, LatePhases

LEMMA FreeOneViewNext == (FreeInv => OneView)'
BY FreeOneView, PTL

LEMMA LateMembers ==
  ASSUME LateInv, LateStep, OneAtATime
  PROVE  UNCHANGED CommonViews \/ MembershipChange \/ MembershipLoss
<1>1. TypeOK /\ MessageHeld /\ [Next]_vars
  BY DEF LateInv, OrderInv, LateStep
<1>2. CASE Spared /\ FreeInv /\ FreeInv'
  BY <1>1, <1>2, FreeOneView, FreeOneViewNext, ViewsGrow
<1>3. CASE Tolerant /\ Tolerant'
  BY <1>1, <1>3, TolerantMembers
<1> QED
  BY <1>2, <1>3, LatePhases

\* Under the fault hypothesis a member whose last message nobody has heard is
\* removed by everybody in the next slice that decides about it, and ends
\* (check_sender_omission, membership_decision).
THEOREM SilenceNoticed ==
  ASSUME OneAtATime
  PROVE  Spec /\ FailsLate => []SilentSenderRemoved
<1>1. Spec /\ FailsLate => []LateInv
  BY LateInvariant
<1>2. LateInv => SilentSenderRemoved
  BY LateFacts
<1> QED
  BY <1>1, <1>2, PTL

\* Under the fault hypothesis a line that any process delivers, be it a faulty
\* one, is delivered by every correct member in the same slice (mval).
THEOREM FaultyAgree ==
  ASSUME OneAtATime
  PROVE  Spec /\ FailsLate => []UniformAgreement
<1>1. Spec /\ FailsLate => []LateInv
  BY LateInvariant
<1>2. LateInv => UniformAgreement
  BY LateFacts
<1> QED
  BY <1>1, <1>2, PTL

\* Under the fault hypothesis memb_count stays right (remove_membership).
THEOREM FaultyCount ==
  ASSUME OneAtATime
  PROVE  Spec /\ FailsLate => []CountIsExact
<1>1. Spec /\ FailsLate => []LateInv
  BY LateInvariant
<1>2. LateInv => CountIsExact
  BY LateFacts
<1> QED
  BY <1>1, <1>2, PTL

\* Under the fault hypothesis nobody ends that has not failed: a failure makes
\* no member convict itself wrongly (handle_suspicion, mval).
THEOREM OnlyTheFaultyEnd ==
  ASSUME OneAtATime
  PROVE  Spec /\ FailsLate => OnlyFaultyEnd
<1>1. Spec /\ FailsLate => []LateInv
  BY LateInvariant
<1>2. LateInv /\ LateStep => [\A n \in Node : up[n] /\ ~up'[n] => n \in faulty']_vars
  BY LateEnds
<1> QED
  BY <1>1, <1>2, PTL DEF Spec, FailsLate, LateStep, OnlyFaultyEnd

\* Under the fault hypothesis the members go through the memberships of the
\* abstract service, however many fail in the end: everybody sees the same
\* one, which loses failed nodes only, one at a time (membership_decision,
\* remove_membership).
THEOREM MembershipTolerates ==
  ASSUME OneAtATime
  PROVE  Spec /\ FailsLate => ImplementsMembership
<1>1. Spec /\ FailsLate => []LateInv
  BY LateInvariant
<1>2. LateInv /\ LateStep => [MS!Next]_(MS!vars)
  BY LateMembers DEF MS!Next, MembershipChange, MembershipLoss
<1> QED
  BY <1>1, <1>2, NoViews, PTL DEF Spec, FailsLate, LateStep, ImplementsMembership, MS!Spec

-----------------------------------------------------------------------------
(* What the documentation promises holds when receivers do not fail         *)

\* As before, but a broadcast is lost for all receivers or for none.
SendersFail == OneAtATime /\ "RECEIVER_OMISSION" \notin FaultKinds

\* Two cycles after a failure its trouble is over.
LEMMA TroubleOver ==
  ASSUME TypeOK, NEW T \in Trouble, Phase(T), calm > 2 * AMOUNT_NODES
  PROVE  T.kind \in {"FINE", "FROZEN"}
<1>1. T.node \in Node /\ T.other \in Node
  BY DEF Trouble
<1>2. /\ calm \in Nat /\ calm > 2 * AMOUNT_NODES
      /\ AMOUNT_NODES \in Nat /\ AMOUNT_NODES >= 3
  BY NodeFacts, BoundsAssumption DEF TypeOK
<1>3. /\ Wait(T.node) \in Int /\ Wait(T.node) >= 0
      /\ Wait(T.other) \in Int /\ Wait(T.other) >= 0
  BY <1>1, WaitRange
<1> DEFINE a == Wait(T.node)
           b == Wait(T.other)
<1> HIDE DEF a, b
<1>4. ~(calm + a <= AMOUNT_NODES) /\ ~(calm + a <= 2 * AMOUNT_NODES)
      /\ ~(calm + b <= AMOUNT_NODES) /\ ~(calm + a < 2 * AMOUNT_NODES)
  BY <1>2, <1>3 DEF a, b
<1> QED
  BY <1>4 DEF Phase, Trouble, a, b

LEMMA TolerantRecognises ==
  ASSUME SendersFail
  PROVE  TypeOK /\ Tolerant => FaultRecognised
<1> SUFFICES ASSUME TypeOK, Tolerant, calm > 2 * AMOUNT_NODES,
                    NEW n \in faulty, NEW m \in Node \ {n},
                    IsMember(m), n \in Members(view[m])
             PROVE  view[m].count < MIN_MEMBERS
  BY DEF FaultRecognised
<1>1. PICK T \in Trouble : Standing(T)
  BY DEF Tolerant, Tolerates
<1>2. Present(T) /\ Phase(T) /\ up[m]
  BY <1>1 DEF Standing, IsMember
<1>3. T.kind \in {"FINE", "FROZEN"}
  BY <1>2, TroubleOver
<1>4. Members(view[m]) = T.group /\ view[m].count = Cardinality(T.group)
  BY <1>1, <1>2, <1>3 DEF Standing, Seen, Sees, GroupOf, Purged, Leaving
<1>5. T.kind = "FROZEN"
  <2> SUFFICES ASSUME T.kind = "FINE"
               PROVE  FALSE
    BY <1>3
  <2>1. ~up[n]
    BY <1>2 DEF Present, SendersFail
  <2> QED
    BY <1>2, <1>4, <2>1 DEF Present, Purged, Leaving
<1> QED
  BY <1>2, <1>4, <1>5 DEF Present

LEMMA TolerantLastMessage ==
  ASSUME SendersFail
  PROVE  TypeOK /\ Tolerant => LastMessageNotDelivered
<1> SUFFICES ASSUME TypeOK, Tolerant, Decided, latest[turn] # Empty, NEW m \in Node,
                    IsMember(m), turn \notin Members(view[m])
             PROVE  latest[turn] \notin Delivered(m)
  BY DEF LastMessageNotDelivered
<1>1. PICK T \in Trouble : Tolerates(T)
  BY DEF Tolerant
<1>2. Present(T) /\ Withheld(T) /\ Deciding(turn) /\ turn \in Node /\ up[m]
      /\ Members(view[m]) = GroupOf(T, m)
  BY <1>1 DEF Tolerates, Standing, Seen, Sees, Decided, Deciding, TypeOK, IsMember
<1>3. CASE T.kind = "FROZEN"
  BY <1>2, <1>3 DEF Withheld
<1>4. CASE T.kind # "FROZEN"
  <2>1. turn \in T.group
    BY <1>1, <1>2, <1>4 DEF Tolerates, Knowing, Senders
  <2>2. Leaving(T) /\ turn = T.node
    BY <1>2, <2>1 DEF GroupOf, Purged, Deciding
  <2>3. T.kind = "MUTE"
    BY <1>2, <2>2 DEF Leaving, Present, SendersFail
  <2> QED
    BY <1>2, <2>2, <2>3 DEF Withheld
<1> QED
  BY <1>3, <1>4

LEMMA FreeLastMessage == FreeInv => LastMessageNotDelivered
<1> SUFFICES ASSUME FreeInv, Decided, latest[turn] # Empty, NEW m \in Node,
                    IsMember(m), turn \notin Members(view[m])
             PROVE  FALSE
  BY DEF LastMessageNotDelivered
<1>1. Calm /\ Known /\ MembersLines /\ slice = "MEMBERSHIP" /\ turn \in Node /\ m \in ran
  BY DEF FreeInv, Inv, Calm, TypeOK, Decided, AllRan, IsMember
<1>2. Sends(turn)
  BY <1>1 DEF MembersLines, Belongs, Sends
<1>3. Belongs(m)
  BY DEF IsMember, Belongs, Stands
<1>4. view[m].stage[turn] = "MEMBER"
  BY <1>1, <1>2, <1>3, AdmittedViews
<1> QED
  BY <1>1, <1>4 DEF Members

\* A node whose broadcasts fail, or that crashes, is recognised within a round,
\* as README.md:60 says; MCTimeAwareTOB_receiver_unrecognised shows that a failed
\* receiver may not be (check_sender_omission, membership_decision).
THEOREM FailedSenderRecognised ==
  ASSUME SendersFail
  PROVE  Spec /\ FailsLate => []FaultRecognised
<1>1. Spec /\ FailsLate => []LateInv
  BY LateInvariant DEF SendersFail
<1>2. LateInv => FaultRecognised
  <2> SUFFICES ASSUME LateInv
               PROVE  FaultRecognised
    OBVIOUS
  <2>1. TypeOK /\ (FreeInv \/ Tolerant)
    BY DEF LateInv, OrderInv
  <2>2. CASE FreeInv
    BY <2>2 DEF FreeInv, Inv, Calm, NobodyFails, FaultRecognised
  <2> QED
    BY <2>1, <2>2, TolerantRecognises
<1> QED
  BY <1>1, <1>2, PTL

\* The last message of a sender that has crashed or that nobody hears any more
\* is not delivered by those who remove it; MCTimeAwareTOB_last_message shows
\* that of a failed receiver it may be (membership_decision).
THEOREM LastMessageWithheld ==
  ASSUME SendersFail
  PROVE  Spec /\ FailsLate => []LastMessageNotDelivered
<1>1. Spec /\ FailsLate => []LateInv
  BY LateInvariant DEF SendersFail
<1>2. LateInv => LastMessageNotDelivered
  <2> SUFFICES ASSUME LateInv
               PROVE  LastMessageNotDelivered
    OBVIOUS
  <2>1. TypeOK /\ (FreeInv \/ Tolerant)
    BY DEF LateInv, OrderInv
  <2> QED
    BY <2>1, FreeLastMessage, TolerantLastMessage
<1> QED
  BY <1>1, <1>2, PTL

=============================================================================
