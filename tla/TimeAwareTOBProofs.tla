------------------------- MODULE TimeAwareTOBProofs -------------------------
(***************************************************************************)
(* Theorems about TimeAwareTOB: for any number of nodes, lines, starts and *)
(* failures.                                                               *)
(***************************************************************************)
EXTENDS TimeAwareTOB, SequenceTheorems, TLAPS

-----------------------------------------------------------------------------
(* The operators of Membership keep views well formed.                      *)

LEMMA NodeFacts ==
  /\ AMOUNT_NODES \in 3..8
  /\ \A i : i \in Node <=> i \in Int /\ 0 <= i /\ i < AMOUNT_NODES
  /\ 0 \in Node
  /\ MIN_MEMBERS = 3
BY NodesAssumption DEF NodesAssumption, Node, MIN_MEMBERS

LEMMA SmallestDistance ==
  ASSUME NEW S, S \subseteq 1..(AMOUNT_NODES - 1), S # {}
  PROVE  \E d \in S : \A e \in S : d <= e
<1> SUFFICES ASSUME \A d \in S : \E e \in S : e < d
             PROVE  FALSE
  BY NodeFacts
<1> S \subseteq 1..7
  BY NodeFacts
<1>1. 1 \notin S /\ 2 \notin S
  <2>1. 1 \notin S
    OBVIOUS
  <2> QED
    BY <2>1
<1>2. 3 \notin S /\ 4 \notin S
  <2>1. 3 \notin S
    BY <1>1
  <2> QED
    BY <1>1, <2>1
<1>3. 5 \notin S /\ 6 \notin S
  <2>1. 5 \notin S
    BY <1>1, <1>2
  <2> QED
    BY <1>1, <1>2, <2>1
<1>4. PICK e \in S : TRUE
  OBVIOUS
<1>5. e \in 7..7
  BY <1>1, <1>2, <1>3, <1>4
<1>6. PICK d \in S : d < e
  BY <1>4
<1>7. d \in 1..6
  BY <1>5, <1>6
<1> QED
  BY <1>1, <1>2, <1>3, <1>7

LEMMA NearestType ==
  ASSUME NEW v, NEW nodeID \in Node, NEW at
  PROVE  Nearest(v, nodeID, at) \in Node
<1> DEFINE distances == {d \in 1..(AMOUNT_NODES - 1) : at[d] \in Members(v)}
<1>1. CASE distances = {}
  BY <1>1 DEF Nearest
<1>2. CASE distances # {}
  <2>1. \E d \in distances : \A e \in distances : d <= e
    BY <1>2, SmallestDistance
  <2>2. (CHOOSE d \in distances : \A e \in distances : d <= e) \in distances
    BY <2>1
  <2> QED
    BY <1>2, <2>2 DEF Nearest, Members
<1> QED
  BY <1>1, <1>2

LEMMA NeighbourType ==
  ASSUME NEW v, NEW nodeID \in Node
  PROVE  GetPrevMember(v, nodeID) \in Node /\ GetNextMember(v, nodeID) \in Node
BY NearestType DEF GetPrevMember, GetNextMember

LEMMA InitViewType == InitView \in View
BY NodeFacts DEF InitView, View, Stage, Information, Suspicion, Body, Null

LEMMA EnterType ==
  ASSUME NEW v \in View, NEW nodeID \in Node
  PROVE  Enter(v, nodeID) \in View
<1>1. Enter(v, nodeID).stage \in [Node -> Stage]
  BY DEF Enter, View, Stage
<1>2. Enter(v, nodeID).flag \in BOOLEAN /\ Enter(v, nodeID).count \in Int
  BY DEF Enter, View
<1> QED
  BY <1>1, <1>2 DEF Enter, View

LEMMA RemoveMembershipType ==
  ASSUME NEW v \in View, NEW nodeID \in Node
  PROVE  RemoveMembership(v, nodeID) \in View
<1> DEFINE w == RemoveMembership(v, nodeID)
<1>1. w.sus \in [Node -> Suspicion]
  BY NeighbourType DEF RemoveMembership, Acquit, View, Suspicion
<1>2. w.stage \in [Node -> Stage] /\ w.count \in Int
  BY DEF RemoveMembership, View, Stage
<1> QED
  BY <1>1, <1>2 DEF RemoveMembership, View

LEMMA HandleSuspicionType ==
  ASSUME NEW v \in View, NEW nodeID \in Node
  PROVE  HandleSuspicion(v, nodeID) \in View
<1>1. [v EXCEPT !.sus[nodeID] = Acquit(@)] \in View
  BY DEF Acquit, View, Suspicion
<1> QED
  BY <1>1, RemoveMembershipType DEF HandleSuspicion

LEMMA LastType ==
  ASSUME NEW v \in View, NEW s \in Node, NEW body \in Body \cup {Null}
  PROVE  [v EXCEPT !.last[s] = body] \in View
BY DEF View

LEMMA StageType ==
  ASSUME NEW v \in View, NEW s \in Node, NEW stage \in Stage
  PROVE  [v EXCEPT !.stage[s] = stage] \in View
BY DEF View

LEMMA EnterSuspicionType ==
  ASSUME NEW v \in View, NEW nodeID \in Node
  PROVE  EnterSuspicion(v, nodeID) \in View
BY NeighbourType DEF EnterSuspicion, View, Suspicion

LEMMA UpdateViewType ==
  ASSUME NEW v \in View, NEW self \in Node, NEW nodeID \in Node, NEW vector
  PROVE  UpdateView(v, self, nodeID, vector) \in View
BY DEF UpdateView, View, Information

LEMMA ForgetViewType ==
  ASSUME NEW v \in View, NEW self \in Node, NEW nodeID \in Node
  PROVE  ForgetView(v, self, nodeID) \in View
BY DEF ForgetView, View, Information

-----------------------------------------------------------------------------
(* Type correctness                                                         *)

\* The part of TypeOK about the processes.
ProcOK ==
  /\ up     \in [Node -> BOOLEAN]
  /\ view   \in [Node -> View]
  /\ age    \in [Node -> 0..CycleOver]
  /\ unread \in [Node -> 0..Lines]
  /\ sock   \in [Node -> Seq(Message)]

LEMMA ProcessEndsType ==
  ASSUME ProcOK, NEW n \in Node, ProcessEnds(n)
  PROVE  ProcOK'
<1>1. 0 \in 0..CycleOver /\ 0 \in 0..Lines
  BY NodeFacts, BoundsAssumption
     DEF BoundsAssumption, CycleOver, CycleLength, SLICES_IN_TURN
<1> QED
  BY <1>1, InitViewType DEF ProcOK, ProcessEnds

LEMMA NewViewType ==
  ASSUME ProcOK, NEW n \in Node, NEW v \in View,
         view' = [view EXCEPT ![n] = v], UNCHANGED <<up, age, unread, sock>>
  PROVE  ProcOK'
BY DEF ProcOK

LEMMA InitType == Init => TypeOK
<1> SUFFICES ASSUME Init PROVE TypeOK
  OBVIOUS
<1>1. 0 \in 0..CycleOver /\ 0 \in 0..Lines /\ Lines \in 0..Lines
  BY NodeFacts, BoundsAssumption
     DEF BoundsAssumption, CycleOver, CycleLength, SLICES_IN_TURN
<1>2. MaxStarts \in 0..MaxStarts /\ MaxFaults \in 0..MaxFaults /\ 0 \in 0..Spacing
  BY BoundsAssumption DEF BoundsAssumption
<1> QED
  BY <1>1, <1>2, InitViewType, NodeFacts DEF Init, TypeOK, Slices, Body, Empty

LEMMA StartType ==
  ASSUME TypeOK, NEW n \in Node, Start(n)
  PROVE  TypeOK'
<1>1. Lines \in 0..Lines
  BY BoundsAssumption DEF BoundsAssumption
<1>2. starts[n] - 1 \in 0..MaxStarts
  <2>1. starts[n] \in 0..MaxStarts
    BY DEF TypeOK
  <2>2. starts[n] > 0
    BY DEF Start
  <2>3. MaxStarts \in Nat
    BY BoundsAssumption DEF BoundsAssumption
  <2> QED
    BY <2>1, <2>2, <2>3
<1>3. Len(out[n]) \in Nat
  BY LenProperties DEF TypeOK
<1> QED
  BY <1>1, <1>2, <1>3 DEF Start, TypeOK

LEMMA FailType ==
  ASSUME TypeOK, NEW n \in Node, NEW kind, MayFail(kind), Fail(n)
  PROVE  faults' \in 0..MaxFaults /\ calm' \in 0..Spacing /\ faulty' \in SUBSET Node
BY BoundsAssumption DEF BoundsAssumption, TypeOK, MayFail, Fail

LEMMA LosesOutputType ==
  ASSUME TypeOK, NEW n \in Node, LosesOutput(n)
  PROVE  out' \in [Node -> Seq(Nat)]
<1>1. PICK k \in disk[n]..Len(out[n]) : out' = [out EXCEPT ![n] = SubSeq(@, 1, k)]
  BY DEF LosesOutput
<1>2. out[n] \in Seq(Nat) /\ disk[n] \in Nat /\ Len(out[n]) \in Nat
  BY LenProperties DEF TypeOK
<1>3. k \in Int /\ \A i \in 1..k : out[n][i] \in Nat
  <2>1. k \in Int /\ \A i \in 1..k : i \in 1..Len(out[n])
    BY <1>2
  <2> QED
    BY <1>2, <2>1, ElementOfSeq
<1>4. SubSeq(out[n], 1, k) \in Seq(Nat)
  BY <1>3, SubSeqProperties
<1> QED
  BY <1>1, <1>4 DEF TypeOK

LEMMA CrashType ==
  ASSUME TypeOK, NEW n \in Node, Crash(n)
  PROVE  TypeOK'
<1>1. ProcOK'
  BY ProcessEndsType DEF Crash, TypeOK, ProcOK
<1>2. faults' \in 0..MaxFaults /\ calm' \in 0..Spacing /\ faulty' \in SUBSET Node
  BY FailType DEF Crash
<1>3. out' \in [Node -> Seq(Nat)]
  BY LosesOutputType DEF Crash
<1>4. asleep' \in [Node -> Nat]
  BY DEF Crash, TypeOK
<1> QED
  BY <1>1, <1>2, <1>3, <1>4 DEF Crash, TypeOK, ProcOK

LEMMA OversleepType ==
  ASSUME TypeOK, NEW n \in Node, Oversleep(n)
  PROVE  TypeOK'
<1>1. faults' \in 0..MaxFaults /\ calm' \in 0..Spacing /\ faulty' \in SUBSET Node
  BY FailType DEF Oversleep
<1>2. asleep' \in [Node -> Nat]
  <2>1. PICK nap \in Naps : asleep' = [asleep EXCEPT ![n] = nap - 1]
    BY DEF Oversleep
  <2>2. nap - 1 \in Nat
    BY BoundsAssumption DEF BoundsAssumption
  <2> QED
    BY <2>1, <2>2 DEF TypeOK
<1> QED
  BY <1>1, <1>2 DEF Oversleep, TypeOK, proc, files

LEMMA EnterMembershipType ==
  ASSUME TypeOK, NEW n \in Node, EnterMembership(n)
  PROVE  TypeOK'
<1>0. ProcOK /\ view[n] \in View /\ turn \in Node
  BY DEF TypeOK, ProcOK
<1>1. ProcOK'
  <2>1. CASE CanJoin(view[n], turn)
    <3>1. Enter(view[n], turn) \in View
      BY <1>0, EnterType
    <3> QED
      BY <1>0, <2>1, <3>1, NewViewType DEF EnterMembership
  <2>2. CASE ~CanJoin(view[n], turn)
    BY <1>0, <2>2, ProcessEndsType DEF EnterMembership, ProcOK, proc
  <2> QED
    BY <2>1, <2>2
<1> QED
  BY <1>1 DEF EnterMembership, Wakes, TypeOK, ProcOK, hazards

LEMMA DeliverMessageType ==
  ASSUME TypeOK, NEW n \in Node, NEW v \in View, DeliverMessage(n, v)
  PROVE  ProcOK' /\ out' \in [Node -> Seq(Nat)]
<1>0. ProcOK /\ turn \in Node /\ out \in [Node -> Seq(Nat)]
  BY DEF TypeOK, ProcOK
<1>1. CASE v.last[turn] = Null
  BY <1>0, <1>1, ProcessEndsType, LosesOutputType DEF DeliverMessage
<1>2. CASE v.last[turn] # Null
  <2> DEFINE body == v.last[turn]
             left == IF body = Empty THEN v ELSE [v EXCEPT !.last[turn] = Null]
             file == [out EXCEPT ![n] = IF body = Empty THEN @ ELSE Append(@, body)]
  <2>1. body \in Nat
    BY <1>0, <1>2 DEF View, Body
  <2>2. left \in View
    BY <1>0, LastType
  <2>3. file \in [Node -> Seq(Nat)]
    BY <1>0, <2>1
  <2>4. /\ view' = [view EXCEPT ![n] = left] /\ out' = file
        /\ UNCHANGED <<up, age, unread, sock>>
    BY <1>2 DEF DeliverMessage
  <2> HIDE DEF left, file
  <2> QED
    BY <1>0, <2>2, <2>3, <2>4, NewViewType
<1> QED
  BY <1>1, <1>2

LEMMA MembershipDecisionType ==
  ASSUME TypeOK, NEW n \in Node, MembershipDecision(n)
  PROVE  TypeOK'
<1> DEFINE v == AfterSuspicion(n)
           w == IF CheckSenderOmission(v, n, turn) THEN EnterSuspicion(v, turn)
                                                   ELSE v
<1>0. ProcOK /\ view[n] \in View /\ turn \in Node /\ out \in [Node -> Seq(Nat)]
  BY DEF TypeOK, ProcOK
<1>1. v \in View
  BY <1>0, HandleSuspicionType DEF AfterSuspicion
<1>2. w \in View
  BY <1>0, <1>1, EnterSuspicionType
<1>3. RemoveMembership(w, turn) \in View
  BY <1>0, <1>2, RemoveMembershipType
<1>4. \/ ProcessEnds(n) /\ UNCHANGED out
      \/ DeliverMessage(n, w)
      \/ Continue(n, w)
      \/ Continue(n, RemoveMembership(w, turn))
  BY DEF MembershipDecision
<1> HIDE DEF w
<1>5. ProcOK' /\ out' \in [Node -> Seq(Nat)]
  <2>1. CASE ProcessEnds(n) /\ UNCHANGED out
    BY <1>0, <2>1, ProcessEndsType
  <2>2. CASE DeliverMessage(n, w)
    BY <1>2, <2>2, DeliverMessageType
  <2>3. CASE Continue(n, w)
    BY <1>0, <1>2, <2>3, NewViewType DEF Continue
  <2>4. CASE Continue(n, RemoveMembership(w, turn))
    BY <1>0, <1>3, <2>4, NewViewType DEF Continue
  <2> QED
    BY <1>4, <2>1, <2>2, <2>3, <2>4
<1> QED
  BY <1>5 DEF MembershipDecision, Wakes, TypeOK, ProcOK, hazards

LEMMA NoDecisionType ==
  ASSUME TypeOK, NEW n \in Node, NoDecision(n)
  PROVE  TypeOK'
BY DEF NoDecision, Wakes, TypeOK, proc, hazards

LEMMA PrepareMsgType ==
  ASSUME TypeOK, NEW n \in Node, NEW stage \in Stage, NEW body \in Body
  PROVE  PrepareMsg(n, stage, body) \in Message
<1>1. view[n].sus[n] \in Suspicion
  BY DEF TypeOK, View
<1> QED
  BY <1>1 DEF PrepareMsg, Message, ArrayToByte

LEMMA BroadcastMessageType ==
  ASSUME TypeOK, NEW n \in Node, NEW msg \in Message, BroadcastMessage(n, msg)
  PROVE  /\ sock' \in [Node -> Seq(Message)]
         /\ faults' \in 0..MaxFaults /\ calm' \in 0..Spacing /\ faulty' \in SUBSET Node
<1>1. PICK heard \in SUBSET Listeners(n) :
        /\ Heard(n, heard)
        /\ sock' = [m \in Node |-> IF m \in heard THEN sock[m] \o <<msg, msg>> ELSE sock[m]]
  BY DEF BroadcastMessage
<1>2. faults' \in 0..MaxFaults /\ calm' \in 0..Spacing /\ faulty' \in SUBSET Node
  <2>1. CASE UNCHANGED <<faults, calm, faulty>>
    BY <2>1 DEF TypeOK
  <2>2. CASE MayFail("SENDER_OMISSION") /\ Fail(n)
    BY <2>2, FailType
  <2>3. CASE \E m \in Listeners(n) : MayFail("RECEIVER_OMISSION") /\ Fail(m)
    BY <2>3, FailType DEF Listeners
  <2> QED
    BY <1>1, <2>1, <2>2, <2>3 DEF Heard
<1>3. sock' \in [Node -> Seq(Message)]
  <2>1. \A m \in Node : sock[m] \o <<msg, msg>> \in Seq(Message)
    BY ConcatProperties DEF TypeOK
  <2> QED
    BY <1>1, <2>1 DEF TypeOK
<1> QED
  BY <1>2, <1>3

LEMMA SendMessageType ==
  ASSUME TypeOK, NEW n \in Node, SendMessage(n)
  PROVE  TypeOK'
<1> DEFINE body == IF Fetches(n) THEN bcast + 1 ELSE Empty
<1>1. body \in Body /\ bcast' \in Nat
  BY DEF SendMessage, TypeOK, Body, Empty
<1>2. unread' \in [Node -> 0..Lines]
  <2>1. unread \in [Node -> 0..Lines] /\ Lines \in Nat
    BY BoundsAssumption DEF BoundsAssumption, TypeOK
  <2>2. Fetches(n) => unread[n] - 1 \in 0..Lines
    BY <2>1 DEF Fetches
  <2> QED
    BY <2>1, <2>2 DEF SendMessage
<1>3. latest' \in [Node -> Body]
  BY <1>1 DEF SendMessage, TypeOK
<1>4. PrepareMsg(n, "MEMBER", body) \in Message
  BY <1>1, PrepareMsgType DEF Stage
<1>5. /\ sock' \in [Node -> Seq(Message)]
      /\ faults' \in 0..MaxFaults /\ calm' \in 0..Spacing /\ faulty' \in SUBSET Node
  BY <1>4, BroadcastMessageType DEF SendMessage
<1>6. view' \in [Node -> View]
  <2>1. view' = [view EXCEPT ![n] = [@ EXCEPT !.last[n] = body]]
    BY DEF SendMessage
  <2>2. [view[n] EXCEPT !.last[n] = body] \in View
    <3>1. view[n] \in View
      BY DEF TypeOK
    <3> QED
      BY <1>1, <3>1, LastType
  <2> QED
    BY <2>1, <2>2 DEF TypeOK
<1> QED
  BY <1>1, <1>2, <1>3, <1>5, <1>6 DEF SendMessage, Wakes, TypeOK

LEMMA SendInitType ==
  ASSUME TypeOK, NEW n \in Node, SendInit(n)
  PROVE  TypeOK'
<1>1. PrepareMsg(n, "ACTIVE", Empty) \in Message
  BY PrepareMsgType DEF Stage, Body, Empty
<1>2. /\ sock' \in [Node -> Seq(Message)]
      /\ faults' \in 0..MaxFaults /\ calm' \in 0..Spacing /\ faulty' \in SUBSET Node
  BY <1>1, BroadcastMessageType DEF SendInit
<1>3. view' \in [Node -> View]
  <2>1. [view[n] EXCEPT !.stage[n] = "ACTIVE"] \in View
    <3>1. view[n] \in View /\ "ACTIVE" \in Stage
      BY DEF TypeOK, Stage
    <3> QED
      BY <3>1, StageType
  <2>2. view' = [view EXCEPT ![n] = [@ EXCEPT !.stage[n] = "ACTIVE"]]
    BY DEF SendInit
  <2> QED
    BY <2>1, <2>2 DEF TypeOK
<1> QED
  BY <1>2, <1>3 DEF SendInit, Wakes, TypeOK

LEMMA SendNothingType ==
  ASSUME TypeOK, NEW n \in Node, SendNothing(n)
  PROVE  TypeOK'
BY DEF SendNothing, Wakes, TypeOK, proc, hazards

\* The message a receiver takes out of its socket is a message.
LEMMA TakenMessage ==
  ASSUME TypeOK, NEW n \in Node, ReceiveMessage(n)
  PROVE  /\ \E msg \in Message : view' = [view EXCEPT ![n] = AfterReceiving(n, msg)]
         /\ sock' \in [Node -> Seq(Message)]
<1>1. PICK first \in FirstFromSender(n) :
        /\ view' = [view EXCEPT ![n] = AfterReceiving(n, sock[n][first])]
        /\ sock' = [sock EXCEPT ![n] = SubSeq(@, first + 1, Len(@))]
  BY DEF ReceiveMessage
<1>2. sock[n] \in Seq(Message) /\ first \in DOMAIN sock[n]
  BY DEF TypeOK, FirstFromSender, FromSender
<1>3. first \in 1..Len(sock[n]) /\ Len(sock[n]) \in Nat
  BY <1>2, LenProperties
<1>4. \A i \in 1..Len(sock[n]) : sock[n][i] \in Message
  BY <1>2, ElementOfSeq
<1>5. SubSeq(sock[n], first + 1, Len(sock[n])) \in Seq(Message)
  BY <1>3, <1>4, SubSeqProperties
<1> QED
  BY <1>1, <1>3, <1>4, <1>5 DEF TypeOK

LEMMA AfterReceivingType ==
  ASSUME TypeOK, NEW n \in Node, NEW msg \in Message
  PROVE  AfterReceiving(n, msg) \in View
<1> DEFINE v == UpdateView(view[n], n, turn, msg.vector)
           told == v.stage[n] # "MEMBER" /\ msg.stage = "MEMBER"
           w == [v EXCEPT !.flag        = @ \/ told,
                          !.count       = IF told /\ v.stage[turn] # "MEMBER"
                                          THEN @ + 1 ELSE @,
                          !.stage[turn] = ReceivedStage(v, n, msg),
                          !.last[turn]  = msg.body,
                          !.sus[turn]   = msg.sus]
<1>1. /\ msg.stage \in Stage /\ msg.body \in Body /\ msg.sus \in Suspicion
      /\ view[n] \in View /\ turn \in Node
  BY DEF TypeOK, Message
<1>2. v \in View
  BY <1>1, UpdateViewType
<1>3. ReceivedStage(v, n, msg) \in Stage
  BY <1>1, <1>2 DEF ReceivedStage, View, Stage
<1>4. w = AfterReceiving(n, msg)
  BY DEF AfterReceiving
<1> HIDE DEF v
<1>5. w.flag \in BOOLEAN
  BY <1>2 DEF View
<1>6. w.count \in Int
  BY <1>2 DEF View
<1>7. w.stage \in [Node -> Stage] /\ w.sus \in [Node -> Suspicion]
      /\ w.last \in [Node -> Body \cup {Null}]
  BY <1>1, <1>2, <1>3 DEF View
<1>8. w \in View
  BY <1>2, <1>5, <1>6, <1>7 DEF View
<1> QED
  BY <1>4, <1>8

LEMMA ReceiveMessageType ==
  ASSUME TypeOK, NEW n \in Node, ReceiveMessage(n)
  PROVE  TypeOK'
<1>1. PICK msg \in Message : view' = [view EXCEPT ![n] = AfterReceiving(n, msg)]
  BY TakenMessage
<1>2. AfterReceiving(n, msg) \in View /\ view \in [Node -> View]
  BY AfterReceivingType DEF TypeOK
<1>3. view' \in [Node -> View]
  BY <1>1, <1>2
<1>4. sock' \in [Node -> Seq(Message)]
  BY TakenMessage
<1> QED
  BY <1>3, <1>4 DEF ReceiveMessage, Receives, Wakes, TypeOK

LEMMA ReceiveNothingType ==
  ASSUME TypeOK, NEW n \in Node, ReceiveNothing(n)
  PROVE  TypeOK'
<1> DEFINE u == ForgetView(view[n], n, turn)
           v == [u EXCEPT !.last[turn] = Null]
           w == IF v.stage[turn] = "ACTIVE" THEN [v EXCEPT !.stage[turn] = "INACTIVE"]
                ELSE IF v.stage[turn] = "MEMBER" /\ v.stage[n] # "MEMBER"
                THEN RemoveMembership(v, turn) ELSE v
<1>1. view[n] \in View /\ turn \in Node /\ "INACTIVE" \in Stage
  BY DEF TypeOK, Stage
<1>2. u \in View
  BY <1>1, ForgetViewType
<1> HIDE DEF u
<1>3. v \in View
  BY <1>1, <1>2, LastType
<1> HIDE DEF v
<1>4. w \in View
  BY <1>1, <1>3, StageType, RemoveMembershipType
<1>5. view' = [view EXCEPT ![n] = w]
  BY DEF ReceiveNothing, u, v
<1> HIDE DEF w
<1>6. sock' \in [Node -> Seq(Message)]
  BY EmptySeq DEF ReceiveNothing, TypeOK
<1>7. view' \in [Node -> View]
  BY <1>4, <1>5 DEF TypeOK
<1>8. /\ UNCHANGED <<up, age, unread, out, starts, faults, calm, faulty, bcast, latest>>
      /\ Wakes(n, "SEND")
  BY DEF ReceiveNothing, Receives
<1> QED
  BY <1>6, <1>7, <1>8 DEF Wakes, TypeOK

LEMMA NextSliceType ==
  ASSUME TypeOK, NextSlice
  PROVE  TypeOK'
<1>1. age' \in [Node -> 0..CycleOver]
  <2>1. CycleOver \in Nat
    BY NodeFacts DEF CycleOver, CycleLength, SLICES_IN_TURN
  <2>2. \A n \in Node : age[n] \in 0..CycleOver
    BY DEF TypeOK
  <2> QED
    BY <2>1, <2>2 DEF NextSlice
<1>2. turn' \in Node
  <2>1. turn \in Node /\ (turn' = turn \/ turn' = IF turn = AMOUNT_NODES - 1 THEN 0 ELSE turn + 1)
    BY DEF NextSlice, TypeOK
  <2> QED
    BY <2>1, NodeFacts
<1>3. calm' \in 0..Spacing
  <2>1. calm \in 0..Spacing /\ (calm' = calm \/ calm' = IF calm < Spacing THEN calm + 1 ELSE calm)
    BY DEF NextSlice, TypeOK
  <2> QED
    BY <2>1, BoundsAssumption DEF BoundsAssumption
<1>4. latest' \in [Node -> Body] /\ slice' \in Slices
  <2>1. latest \in [Node -> Body] /\ turn \in Node /\ Empty \in Body
    BY DEF TypeOK, Body, Empty
  <2>2. latest' \in [Node -> Body]
    BY <2>1 DEF NextSlice
  <2> QED
    BY <2>2 DEF NextSlice, Slices
<1>5. asleep' \in [Node -> Nat] /\ ran' \in SUBSET Node
  <2>1. asleep \in [Node -> Nat]
    BY DEF TypeOK
  <2>2. \A n \in Node : asleep[n] > 0 => asleep[n] - 1 \in Nat
    BY <2>1
  <2> QED
    BY <2>1, <2>2 DEF NextSlice
<1> QED
  BY <1>1, <1>2, <1>3, <1>4, <1>5 DEF NextSlice, TypeOK, files

\* Every step keeps the types (one lemma per action).
LEMMA NextType ==
  ASSUME TypeOK, [Next]_vars
  PROVE  TypeOK'
<1>1. ASSUME NEW n \in Node, Handler(n)
      PROVE  TypeOK'
  BY <1>1, EnterMembershipType, MembershipDecisionType, NoDecisionType,
     SendMessageType, SendInitType, SendNothingType, ReceiveMessageType,
     ReceiveNothingType DEF Handler
<1>2. CASE UNCHANGED vars
  BY <1>2 DEF vars, proc, clock, files, hazards, TypeOK
<1> QED
  BY <1>1, <1>2, NextSliceType, StartType, CrashType, OversleepType DEF Next

\* Type correctness: every process's view keeps its shape and every counter
\* its range, whatever fails and whenever processes start.
THEOREM TypeCorrect == Spec => []TypeOK
<1>1. Init => TypeOK
  BY InitType
<1>2. TypeOK /\ [Next]_vars => TypeOK'
  BY NextType
<1> QED
  BY <1>1, <1>2, PTL DEF Spec

-----------------------------------------------------------------------------
(* deliver_message and the message buffers                                  *)

\* What the operators of Membership leave alone.
SameMessages(w, v) == w.last = v.last /\ w.vv = v.vv

SameStageBut(w, v, nodeID) ==
  \A i \in Node \ {nodeID} : w.stage[i] = v.stage[i]

LEMMA EnterKeeps ==
  ASSUME NEW v \in View, NEW nodeID \in Node
  PROVE  SameMessages(Enter(v, nodeID), v) /\ SameStageBut(Enter(v, nodeID), v, nodeID)
<1>1. Enter(v, nodeID).stage = [v.stage EXCEPT ![nodeID] = "MEMBER"]
  BY DEF Enter, View
<1>2. \A i \in Node \ {nodeID} : Enter(v, nodeID).stage[i] = v.stage[i]
  BY <1>1 DEF View
<1>3. Enter(v, nodeID).last = v.last /\ Enter(v, nodeID).vv = v.vv
  BY DEF Enter, View
<1> QED
  BY <1>2, <1>3 DEF SameMessages, SameStageBut

LEMMA RemoveMembershipKeeps ==
  ASSUME NEW v \in View, NEW nodeID \in Node
  PROVE  /\ SameMessages(RemoveMembership(v, nodeID), v)
         /\ SameStageBut(RemoveMembership(v, nodeID), v, nodeID)
<1>1. RemoveMembership(v, nodeID).stage = [v.stage EXCEPT ![nodeID] = "INACTIVE"]
  BY DEF RemoveMembership, View
<1>2. \A i \in Node \ {nodeID} : RemoveMembership(v, nodeID).stage[i] = v.stage[i]
  BY <1>1 DEF View
<1>3. /\ RemoveMembership(v, nodeID).last = v.last
      /\ RemoveMembership(v, nodeID).vv = v.vv
  BY DEF RemoveMembership, View
<1> QED
  BY <1>2, <1>3 DEF SameMessages, SameStageBut

LEMMA HandleSuspicionKeeps ==
  ASSUME NEW v \in View, NEW nodeID \in Node
  PROVE  /\ SameMessages(HandleSuspicion(v, nodeID), v)
         /\ SameStageBut(HandleSuspicion(v, nodeID), v, nodeID)
         /\ ~Convicted(v, nodeID) => HandleSuspicion(v, nodeID).stage = v.stage
<1> DEFINE w == [v EXCEPT !.sus[nodeID] = Acquit(@)]
<1>1. w.last = v.last /\ w.vv = v.vv /\ w.stage = v.stage
  BY DEF View
<1>2. SameMessages(w, v) /\ SameStageBut(w, v, nodeID)
  BY <1>1 DEF SameMessages, SameStageBut
<1> QED
  BY <1>1, <1>2, RemoveMembershipKeeps DEF HandleSuspicion

LEMMA EnterSuspicionKeeps ==
  ASSUME NEW v \in View, NEW nodeID \in Node
  PROVE  /\ SameMessages(EnterSuspicion(v, nodeID), v)
         /\ EnterSuspicion(v, nodeID).stage = v.stage
BY DEF EnterSuspicion, View, SameMessages

\* The view in which membership_decision decides about the sender.
LEMMA DecisionKeeps ==
  ASSUME TypeOK, NEW n \in Node, NEW w,
         w = IF CheckSenderOmission(AfterSuspicion(n), n, turn)
             THEN EnterSuspicion(AfterSuspicion(n), turn)
             ELSE AfterSuspicion(n)
  PROVE  /\ w \in View
         /\ SameMessages(w, view[n]) /\ SameStageBut(w, view[n], turn)
         /\ ~Convicted(view[n], turn) => w.stage = view[n].stage
<1> DEFINE v == AfterSuspicion(n)
<1>1. view[n] \in View /\ turn \in Node
  BY DEF TypeOK
<1>2. v \in View
  BY <1>1, HandleSuspicionType DEF AfterSuspicion
<1>3. /\ SameMessages(v, view[n]) /\ SameStageBut(v, view[n], turn)
      /\ ~Convicted(view[n], turn) => v.stage = view[n].stage
  BY <1>1, HandleSuspicionKeeps DEF AfterSuspicion, SameMessages, SameStageBut
<1> HIDE DEF v
<1>4. CASE w = EnterSuspicion(v, turn)
  <2>1. /\ w \in View /\ SameMessages(w, v) /\ w.stage = v.stage
    BY <1>1, <1>2, <1>4, EnterSuspicionKeeps, EnterSuspicionType
  <2> QED
    BY <1>3, <2>1 DEF SameMessages, SameStageBut
<1>5. CASE w = v
  BY <1>2, <1>3, <1>5
<1> QED
  BY <1>4, <1>5 DEF v

\* The message of s is one that process self, with view v, may have to
\* deliver.
Expects(v, self, s) ==
  IF s = self THEN v.stage[self] = "MEMBER" ELSE v.vv[self][s] = "RECEIVED"

\* Between its decision about the sender and its next broadcast slice a
\* process has given the sender's message away.
Due(n, s) ==
  /\ s = turn
  /\ \/ slice = "MEMBERSHIP" /\ n \in ran
     \/ slice = "SEND" /\ n \notin ran

\* The memory of a process is gone when it does not run.
NothingLeft ==
  \A n \in Node : ~up[n] => view[n] = InitView /\ age[n] = 0 /\ sock[n] = <<>>

\* Who sleeps through a slice has been late: all other running processes run
\* in every slice.
SleepersLate == \A n \in Node : asleep[n] > 0 => n \in late

\* The inductive invariant behind NoNullDelivery, together with TypeOK,
\* NothingLeft and SleepersLate.  A process that sleeps through a broadcast slice may find an
\* old RECEIVED and no message: the invariant is about the others.
MessageHeld ==
  \A n \in Node \ late, s \in Node :
    up[n] /\ Expects(view[n], n, s) /\ ~Due(n, s) => view[n].last[s] # Null

\* Process n runs its handler and ends or has view w afterwards.
Ran(n, w) ==
  /\ slice' = slice /\ turn' = turn /\ late' = late /\ ran' = ran \cup {n}
  /\ \/ ProcessEnds(n)
     \/ up' = up /\ view' = [view EXCEPT ![n] = w]

LEMMA EndHeld ==
  ASSUME TypeOK, MessageHeld, NEW n \in Node, ProcessEnds(n),
         UNCHANGED <<turn, slice, late>>, ran' \in {ran, ran \cup {n}}
  PROVE  MessageHeld'
<1>1. SUFFICES ASSUME NEW m \in Node \ late, NEW s \in Node, up'[m],
                      Expects(view'[m], m, s), ~Due(m, s)'
               PROVE  view'[m].last[s] # Null
  BY DEF MessageHeld
<1>2. m # n /\ up[m] /\ view'[m] = view[m]
  BY <1>1 DEF ProcessEnds, TypeOK
<1>3. ~Due(m, s)
  BY <1>1, <1>2 DEF Due
<1> QED
  BY <1>1, <1>2, <1>3 DEF MessageHeld

\* A handler keeps MessageHeld when it keeps the messages of all but the
\* sender of this turn and, in the broadcast slice, gets the sender's.
LEMMA RanHeld ==
  ASSUME TypeOK, MessageHeld, NEW n \in Node, NEW w, Ran(n, w),
         slice \in {"MEMBERSHIP", "SEND"}, n \notin ran,
         \A s \in Node \ {turn} :
            up[n] /\ Expects(w, n, s) =>
              Expects(view[n], n, s) /\ w.last[s] = view[n].last[s],
         slice = "SEND" => (Expects(w, n, turn) => w.last[turn] # Null)
  PROVE  MessageHeld'
<1>1. CASE ProcessEnds(n)
  BY <1>1, EndHeld DEF Ran
<1>2. CASE up' = up /\ view' = [view EXCEPT ![n] = w]
  <2> SUFFICES ASSUME NEW m \in Node \ late, NEW s \in Node, up'[m],
                      Expects(view'[m], m, s), ~Due(m, s)'
               PROVE  view'[m].last[s] # Null
    BY DEF MessageHeld, Ran
  <2>1. turn' = turn /\ slice' = slice /\ ran' = ran \cup {n} /\ turn \in Node
    BY DEF Ran, TypeOK
  <2>2. CASE m # n
    <3>1. view'[m] = view[m] /\ up[m]
      BY <1>2, <2>2 DEF TypeOK
    <3>2. ~Due(m, s)
      BY <2>1, <2>2 DEF Due
    <3> QED
      BY <3>1, <3>2 DEF MessageHeld
  <2>3. CASE m = n
    <3>1. view'[n] = w /\ up[n]
      BY <1>2, <2>3 DEF TypeOK
    <3>2. CASE s = turn
      BY <2>1, <2>3, <3>1, <3>2 DEF Due
    <3>3. CASE s # turn
      <4>1. Expects(view[n], n, s) /\ w.last[s] = view[n].last[s]
        BY <2>3, <3>1, <3>3
      <4>2. ~Due(n, s)
        BY <3>3 DEF Due
      <4> QED
        BY <2>3, <3>1, <4>1, <4>2 DEF MessageHeld
    <3> QED
      BY <3>2, <3>3
  <2> QED
    BY <2>2, <2>3
<1> QED
  BY <1>1, <1>2 DEF Ran

\* The same for a handler of the membership slice.
LEMMA MembershipRanHeld ==
  ASSUME TypeOK, MessageHeld, NEW n \in Node, NEW w, Ran(n, w),
         slice = "MEMBERSHIP", n \notin ran, w.vv = view[n].vv,
         \A s \in Node \ {turn} : w.last[s] = view[n].last[s],
         SameStageBut(w, view[n], turn)
  PROVE  MessageHeld'
BY RanHeld DEF Expects, SameStageBut

LEMMA EnterMembershipHeld ==
  ASSUME TypeOK, MessageHeld, NEW n \in Node, EnterMembership(n)
  PROVE  MessageHeld'
<1>0. view[n] \in View /\ turn \in Node /\ view \in [Node -> View]
  BY DEF TypeOK
<1>1. CASE CanJoin(view[n], turn)
  <2> DEFINE w == Enter(view[n], turn)
  <2>1. SameMessages(w, view[n]) /\ SameStageBut(w, view[n], turn)
    BY <1>0, EnterKeeps
  <2>2. Ran(n, w)
    BY <1>1 DEF EnterMembership, Wakes, Ran
  <2> HIDE DEF w
  <2> QED
    BY <2>1, <2>2, MembershipRanHeld DEF EnterMembership, Wakes, SameMessages
<1>2. CASE ~CanJoin(view[n], turn)
  <2>1. Ran(n, view[n])
    BY <1>0, <1>2 DEF EnterMembership, Wakes, Ran, proc
  <2> QED
    BY <2>1, MembershipRanHeld DEF EnterMembership, Wakes, SameStageBut
<1> QED
  BY <1>1, <1>2

LEMMA DeliverMessageRan ==
  ASSUME TypeOK, NEW n \in Node, NEW w \in View,
         Wakes(n, "MEMBERSHIP"), DeliverMessage(n, w)
  PROVE  \E u : /\ Ran(n, u) /\ u.vv = w.vv /\ u.stage = w.stage
                /\ \A s \in Node \ {turn} : u.last[s] = w.last[s]
<1>1. CASE w.last[turn] = Null
  <2>1. Ran(n, w)
    BY <1>1 DEF DeliverMessage, Wakes, Ran
  <2> QED
    BY <2>1
<1>2. CASE w.last[turn] # Null
  <2> DEFINE u == IF w.last[turn] = Empty THEN w ELSE [w EXCEPT !.last[turn] = Null]
  <2>1. Ran(n, u)
    BY <1>2 DEF DeliverMessage, Wakes, Ran
  <2>2. u.vv = w.vv /\ u.stage = w.stage /\ \A s \in Node \ {turn} : u.last[s] = w.last[s]
    BY DEF View
  <2> QED
    BY <2>1, <2>2
<1> QED
  BY <1>1, <1>2

LEMMA MembershipDecisionHeld ==
  ASSUME TypeOK, MessageHeld, NEW n \in Node, MembershipDecision(n)
  PROVE  MessageHeld'
<1> DEFINE v == AfterSuspicion(n)
           w == IF CheckSenderOmission(v, n, turn) THEN EnterSuspicion(v, turn)
                                                   ELSE v
           r == RemoveMembership(w, turn)
<1>0. turn \in Node
  BY DEF TypeOK
<1>1. w \in View /\ SameMessages(w, view[n]) /\ SameStageBut(w, view[n], turn)
  BY DecisionKeeps
<1>2. \/ ProcessEnds(n)
      \/ DeliverMessage(n, w)
      \/ Continue(n, w)
      \/ Continue(n, r)
  BY DEF MembershipDecision
<1>3. Wakes(n, "MEMBERSHIP")
  BY DEF MembershipDecision
<1> HIDE DEF w
<1>4. CASE ProcessEnds(n)
  BY <1>3, <1>4, EndHeld DEF Wakes
<1>5. CASE DeliverMessage(n, w)
  <2>1. PICK u : /\ Ran(n, u) /\ u.vv = w.vv /\ u.stage = w.stage
                 /\ \A s \in Node \ {turn} : u.last[s] = w.last[s]
    BY <1>1, <1>3, <1>5, DeliverMessageRan
  <2> QED
    BY <1>1, <1>3, <2>1, MembershipRanHeld DEF Wakes, SameMessages, SameStageBut
<1>6. CASE Continue(n, w)
  <2>1. Ran(n, w)
    BY <1>3, <1>6 DEF Continue, Wakes, Ran
  <2> QED
    BY <1>1, <1>3, <2>1, MembershipRanHeld DEF Wakes, SameMessages
<1>7. CASE Continue(n, r)
  <2>1. Ran(n, r)
    BY <1>3, <1>7 DEF Continue, Wakes, Ran
  <2>2. SameMessages(r, w) /\ SameStageBut(r, w, turn)
    BY <1>0, <1>1, RemoveMembershipKeeps
  <2> HIDE DEF r
  <2> QED
    BY <1>1, <1>3, <2>1, <2>2, MembershipRanHeld DEF Wakes, SameMessages, SameStageBut
<1> QED
  BY <1>2, <1>4, <1>5, <1>6, <1>7

LEMMA SendMessageHeld ==
  ASSUME TypeOK, MessageHeld, NEW n \in Node, SendMessage(n)
  PROVE  MessageHeld'
<1> DEFINE body == IF Fetches(n) THEN bcast + 1 ELSE Empty
           w == [view[n] EXCEPT !.last[n] = body]
<1>1. body \in Nat /\ body # Null
  BY DEF TypeOK, Empty, Null
<1>2. view[n] \in View /\ turn = n
  BY DEF TypeOK, SendMessage
<1>3. Ran(n, w)
  BY DEF SendMessage, Wakes, Ran
<1>4. /\ w.vv = view[n].vv /\ w.stage = view[n].stage /\ w.last[n] = body
      /\ \A s \in Node \ {n} : w.last[s] = view[n].last[s]
  BY <1>2 DEF View
<1> HIDE DEF body, w
<1> QED
  BY <1>1, <1>2, <1>3, <1>4, RanHeld DEF SendMessage, Wakes, Expects

LEMMA SendInitHeld ==
  ASSUME TypeOK, MessageHeld, NEW n \in Node, SendInit(n)
  PROVE  MessageHeld'
<1> DEFINE w == [view[n] EXCEPT !.stage[n] = "ACTIVE"]
<1>1. view[n] \in View /\ turn = n
  BY DEF TypeOK, SendInit
<1>2. Ran(n, w)
  BY DEF SendInit, Wakes, Ran
<1>3. w.vv = view[n].vv /\ w.last = view[n].last /\ w.stage[n] = "ACTIVE"
  BY <1>1 DEF View
<1> HIDE DEF w
<1> QED
  BY <1>1, <1>2, <1>3, RanHeld DEF SendInit, Wakes, Expects

LEMMA SendNothingHeld ==
  ASSUME TypeOK, MessageHeld, NEW n \in Node, SendNothing(n)
  PROVE  MessageHeld'
<1>1. Ran(n, view[n])
  BY DEF SendNothing, Wakes, Ran, proc, TypeOK
<1> QED
  BY <1>1, RanHeld DEF SendNothing, Wakes, Expects

LEMMA NoDecisionHeld ==
  ASSUME TypeOK, MessageHeld, NEW n \in Node, NoDecision(n)
  PROVE  MessageHeld'
<1>1. Ran(n, view[n])
  BY DEF NoDecision, Wakes, Ran, proc, TypeOK
<1> QED
  BY <1>1, RanHeld DEF NoDecision, Wakes, Expects

\* What the message of the sender does to the rest of the view.
LEMMA AfterReceivingKeeps ==
  ASSUME TypeOK, NEW n \in Node, NEW msg \in Message, turn # n
  PROVE  LET w == AfterReceiving(n, msg)
         IN  /\ w.last[turn] = msg.body /\ w.stage[n] = view[n].stage[n]
             /\ \A s \in Node \ {turn} : w.last[s] = view[n].last[s]
                                         /\ w.vv[n][s] = view[n].vv[n][s]
<1> DEFINE v == UpdateView(view[n], n, turn, msg.vector)
           told == v.stage[n] # "MEMBER" /\ msg.stage = "MEMBER"
           w == [v EXCEPT !.flag        = @ \/ told,
                          !.count       = IF told /\ v.stage[turn] # "MEMBER"
                                          THEN @ + 1 ELSE @,
                          !.stage[turn] = ReceivedStage(v, n, msg),
                          !.last[turn]  = msg.body,
                          !.sus[turn]   = msg.sus]
<1>1. view[n] \in View /\ turn \in Node
  BY DEF TypeOK
<1>2. v \in View
  BY <1>1, UpdateViewType
<1>3. /\ v.stage = view[n].stage /\ v.last = view[n].last
      /\ \A s \in Node \ {turn} : v.vv[n][s] = view[n].vv[n][s]
  BY <1>1 DEF UpdateView, View
<1>4. w = AfterReceiving(n, msg)
  BY DEF AfterReceiving
<1> HIDE DEF v
<1>5. /\ w.vv = v.vv /\ w.last[turn] = msg.body
      /\ w.stage[n] = v.stage[n]
      /\ \A s \in Node \ {turn} : w.last[s] = v.last[s]
  BY <1>1, <1>2 DEF View
<1> HIDE DEF w
<1> QED
  BY <1>3, <1>4, <1>5

LEMMA ReceiveMessageHeld ==
  ASSUME TypeOK, MessageHeld, NEW n \in Node, ReceiveMessage(n)
  PROVE  MessageHeld'
<1>1. PICK msg \in Message : view' = [view EXCEPT ![n] = AfterReceiving(n, msg)]
  BY TakenMessage
<1> DEFINE w == AfterReceiving(n, msg)
<1>2. msg.body # Null /\ turn # n
  BY DEF Message, Body, Null, ReceiveMessage, Receives
<1>3. /\ w.last[turn] = msg.body /\ w.stage[n] = view[n].stage[n]
      /\ \A s \in Node \ {turn} : w.last[s] = view[n].last[s]
                                  /\ w.vv[n][s] = view[n].vv[n][s]
  BY <1>2, AfterReceivingKeeps
<1>4. Ran(n, w)
  BY <1>1 DEF ReceiveMessage, Receives, Wakes, Ran
<1> HIDE DEF w
<1> QED
  BY <1>2, <1>3, <1>4, RanHeld DEF ReceiveMessage, Receives, Wakes, Expects

LEMMA ReceiveNothingHeld ==
  ASSUME TypeOK, MessageHeld, NEW n \in Node, ReceiveNothing(n)
  PROVE  MessageHeld'
<1> DEFINE u == ForgetView(view[n], n, turn)
           v == [u EXCEPT !.last[turn] = Null]
           w == IF v.stage[turn] = "ACTIVE" THEN [v EXCEPT !.stage[turn] = "INACTIVE"]
                ELSE IF v.stage[turn] = "MEMBER" /\ v.stage[n] # "MEMBER"
                THEN RemoveMembership(v, turn) ELSE v
<1>1. view[n] \in View /\ turn \in Node /\ turn # n
  BY DEF TypeOK, ReceiveNothing, Receives
<1>2. u \in View
  BY <1>1, ForgetViewType
<1>3. /\ u.stage = view[n].stage /\ u.last = view[n].last
      /\ u.vv[n][turn] = "NOT_RECEIVED"
      /\ \A s \in Node \ {turn} : u.vv[n][s] = view[n].vv[n][s]
  BY <1>1 DEF ForgetView, View
<1> HIDE DEF u
<1>4. /\ v \in View /\ v.vv = u.vv /\ v.stage = u.stage
      /\ \A s \in Node \ {turn} : v.last[s] = u.last[s]
  <2>1. v \in View
    BY <1>1, <1>2, LastType
  <2>2. v.last = [u.last EXCEPT ![turn] = Null]
    BY <1>2 DEF View
  <2> QED
    BY <1>2, <2>1, <2>2 DEF View
<1> HIDE DEF v
<1>5. /\ SameMessages([v EXCEPT !.stage[turn] = "INACTIVE"], v)
      /\ SameStageBut([v EXCEPT !.stage[turn] = "INACTIVE"], v, turn)
  BY <1>1, <1>4 DEF View, SameMessages, SameStageBut
<1>6. SameMessages(w, v) /\ SameStageBut(w, v, turn)
  BY <1>1, <1>4, <1>5, RemoveMembershipKeeps DEF SameMessages, SameStageBut
<1>7. Ran(n, w)
  BY DEF u, v, ReceiveNothing, Receives, Wakes, Ran
<1> HIDE DEF w
<1> QED
  BY <1>1, <1>3, <1>4, <1>6, <1>7, RanHeld
     DEF ReceiveNothing, Receives, Wakes, Expects, SameMessages, SameStageBut

LEMMA NextSliceHeld ==
  ASSUME TypeOK, SleepersLate, MessageHeld, NextSlice
  PROVE  MessageHeld'
<1> SUFFICES ASSUME NEW n \in Node \ late, NEW s \in Node, up[n],
                    Expects(view[n], n, s), ~Due(n, s)'
             PROVE  view[n].last[s] # Null
  BY DEF NextSlice, MessageHeld
<1>1. n \notin ran'
  BY DEF NextSlice, SleepersLate
<1>2. ~Due(n, s)
  BY <1>1 DEF NextSlice, Due, AllRan, Slices, TypeOK
<1> QED
  BY <1>2 DEF MessageHeld

LEMMA StartHeld ==
  ASSUME TypeOK, NothingLeft, MessageHeld, NEW n \in Node, Start(n)
  PROVE  MessageHeld'
<1> SUFFICES ASSUME NEW m \in Node \ late, NEW s \in Node, up'[m],
                    Expects(view[m], m, s), ~Due(m, s)'
             PROVE  view[m].last[s] # Null
  BY DEF Start, MessageHeld
<1>1. CASE m = n
  <2>1. view[n] = InitView
    BY DEF Start, NothingLeft
  <2>2. ~Expects(InitView, n, s)
    BY DEF Expects, InitView
  <2> QED
    BY <1>1, <2>1, <2>2
<1>2. CASE m # n
  <2>1. up[m] /\ ~Due(m, s)
    BY <1>2 DEF Start, Due, TypeOK
  <2> QED
    BY <2>1 DEF MessageHeld
<1> QED
  BY <1>1, <1>2

LEMMA OversleepHeld ==
  ASSUME TypeOK, MessageHeld, NEW n \in Node, Oversleep(n)
  PROVE  MessageHeld'
<1> SUFFICES ASSUME NEW m \in Node \ late', NEW s \in Node, up[m],
                    Expects(view[m], m, s), ~Due(m, s)'
             PROVE  view[m].last[s] # Null
  BY DEF Oversleep, proc, MessageHeld
<1>1. m # n /\ m \notin late
  BY DEF Oversleep
<1>2. ~Due(m, s)
  BY <1>1 DEF Oversleep, Due
<1> QED
  BY <1>1, <1>2 DEF MessageHeld

LEMMA InitHeld == Init => NothingLeft /\ SleepersLate /\ MessageHeld
<1>1. \A n, s \in Node : ~Expects(InitView, n, s)
  BY DEF Expects, InitView
<1> QED
  BY <1>1 DEF Init, NothingLeft, SleepersLate, MessageHeld

\* Only running processes wake up or are sent messages.
LEMMA NothingLeftStep ==
  ASSUME TypeOK, NothingLeft, [Next]_vars
  PROVE  NothingLeft'
<1>1. ASSUME NEW n \in Node, ProcessEnds(n)
      PROVE  NothingLeft'
  BY <1>1 DEF ProcessEnds, NothingLeft, TypeOK
<1>2. ASSUME NEW n \in Node, NEW w, up[n], view' = [view EXCEPT ![n] = w],
             UNCHANGED <<up, age>>, \A m \in Node : sock'[m] # <<>> => up[m]
      PROVE  NothingLeft'
  BY <1>2 DEF NothingLeft, TypeOK
<1>3. \A m \in Node : sock[m] # <<>> => up[m]
  BY DEF NothingLeft
<1>4. ASSUME NEW n \in Node, Handler(n)
      PROVE  NothingLeft'
  <2>1. CASE EnterMembership(n)
    BY <1>1, <1>2, <1>3, <2>1 DEF EnterMembership, Wakes, proc, NothingLeft
  <2>2. CASE MembershipDecision(n)
    BY <1>1, <1>2, <1>3, <2>2 DEF MembershipDecision, Wakes, DeliverMessage, Continue
  <2>3. CASE NoDecision(n) \/ SendNothing(n)
    BY <2>3 DEF NoDecision, SendNothing, proc, NothingLeft
  <2>4. CASE SendMessage(n) \/ SendInit(n)
    <3>1. ASSUME NEW msg, BroadcastMessage(n, msg)
          PROVE  \A m \in Node : sock'[m] # <<>> => up[m]
      BY <1>3, <3>1 DEF BroadcastMessage, Listeners
    <3> QED
      BY <1>2, <2>4, <3>1 DEF SendMessage, SendInit, Wakes
  <2>5. CASE ReceiveMessage(n) \/ ReceiveNothing(n)
    <3>1. \A m \in Node : sock'[m] # <<>> => up[m]
      <4>1. Receives(n) /\ \A m \in Node \ {n} : sock'[m] = sock[m]
        BY <2>5 DEF ReceiveMessage, ReceiveNothing, TypeOK
      <4> QED
        BY <1>3, <4>1 DEF Receives, Wakes
    <3>2. \E w : view' = [view EXCEPT ![n] = w]
      BY <2>5 DEF ReceiveMessage, ReceiveNothing
    <3> QED
      BY <1>2, <2>5, <3>1, <3>2 DEF ReceiveMessage, ReceiveNothing, Receives, Wakes
  <2> QED
    BY <1>4, <2>1, <2>2, <2>3, <2>4, <2>5 DEF Handler
<1>5. ASSUME NEW n \in Node, Start(n)
      PROVE  NothingLeft'
  BY <1>5 DEF Start, NothingLeft, TypeOK
<1>6. CASE NextSlice
  BY <1>6 DEF NextSlice, NothingLeft
<1>7. CASE UNCHANGED proc
  BY <1>7 DEF proc, NothingLeft
<1> QED
  BY <1>1, <1>4, <1>5, <1>6, <1>7 DEF Next, Crash, Oversleep, vars

LEMMA SleepersLateStep ==
  ASSUME TypeOK, SleepersLate, [Next]_vars
  PROVE  SleepersLate'
<1>1. ASSUME NEW n \in Node, Handler(n) \/ Start(n)
      PROVE  UNCHANGED <<asleep, late>>
  BY <1>1 DEF Handler, EnterMembership, MembershipDecision, NoDecision,
     SendMessage, SendInit, SendNothing, ReceiveMessage, ReceiveNothing,
     Receives, Wakes, Start
<1>2. ASSUME NEW n \in Node, Crash(n) \/ Oversleep(n)
      PROVE  SleepersLate'
  <2>1. asleep \in [Node -> Nat]
    BY DEF TypeOK
  <2>2. CASE Crash(n)
    BY <2>1, <2>2 DEF Crash, SleepersLate
  <2>3. CASE Oversleep(n)
    <3>1. late' = late \cup {n} /\ \A m \in Node \ {n} : asleep'[m] = asleep[m]
      BY <2>1, <2>3 DEF Oversleep
    <3> QED
      BY <3>1 DEF SleepersLate
  <2> QED
    BY <1>2, <2>2, <2>3
<1>3. CASE NextSlice
  BY <1>3 DEF NextSlice, SleepersLate, TypeOK
<1>4. CASE UNCHANGED <<asleep, late>>
  BY <1>4 DEF SleepersLate
<1> QED
  BY <1>1, <1>2, <1>3, <1>4 DEF Next, vars, clock, hazards

LEMMA MessageHeldStep ==
  ASSUME TypeOK, NothingLeft, SleepersLate, MessageHeld, [Next]_vars
  PROVE  MessageHeld'
<1>1. ASSUME NEW n \in Node, Handler(n)
      PROVE  MessageHeld'
  BY <1>1, EnterMembershipHeld, MembershipDecisionHeld, NoDecisionHeld,
     SendMessageHeld, SendInitHeld, SendNothingHeld, ReceiveMessageHeld,
     ReceiveNothingHeld DEF Handler
<1>2. ASSUME NEW n \in Node, Crash(n)
      PROVE  MessageHeld'
  BY <1>2, EndHeld DEF Crash
<1>3. CASE UNCHANGED vars
  BY <1>3 DEF vars, proc, clock, hazards, MessageHeld, Due
<1> QED
  BY <1>1, <1>2, <1>3, StartHeld, OversleepHeld, NextSliceHeld DEF Next

LEMMA HeldDelivers ==
  ASSUME TypeOK, MessageHeld
  PROVE  NoNullDelivery
<1> SUFFICES ASSUME NEW n \in Node \ late, Delivers(n)
             PROVE  view[n].last[turn] # Null
  BY DEF NoNullDelivery
<1>1. turn \in Node /\ up[n] /\ ~Due(n, turn)
  BY DEF Delivers, Due, TypeOK
<1>2. Expects(view[n], n, turn)
  BY DEF Delivers, Decides, Expects
<1> QED
  BY <1>1, <1>2 DEF MessageHeld

\* A process that has never slept through a slice and is about to deliver the
\* message of a sender holds one, however many other processes have slept, and
\* however many have crashed, missed messages, joined or been removed.  (One
\* that has slept through slices, a late node, may dereference NULL.)
THEOREM NeverDeliversNull == Spec => []NoNullDelivery
<1> DEFINE IInv == TypeOK /\ NothingLeft /\ SleepersLate /\ MessageHeld
<1>1. Init => IInv
  BY InitType, InitHeld
<1>2. IInv /\ [Next]_vars => IInv'
  BY NextType, NothingLeftStep, SleepersLateStep, MessageHeldStep
<1>3. IInv => NoNullDelivery
  BY HeldDelivers
<1> QED
  BY <1>1, <1>2, <1>3, PTL DEF Spec

-----------------------------------------------------------------------------
(* Members                                                                  *)

\* The step property of MemberUntilEnd.
StaysMember(n) == IsMember(n) /\ up'[n] => view'[n].stage[n] = "MEMBER"

LEMMA OthersStay ==
  ASSUME TypeOK, NEW n \in Node, NEW m \in Node \ {n}, Handler(m)
  PROVE  view'[n] = view[n]
<1>1. view \in [Node -> View] /\ n # m
  BY DEF TypeOK
<1>2. CASE EnterMembership(m)
  BY <1>1, <1>2 DEF EnterMembership, ProcessEnds, proc
<1>3. CASE MembershipDecision(m)
  <2>1. PICK w, r : \/ ProcessEnds(m) \/ DeliverMessage(m, w)
                    \/ Continue(m, w) \/ Continue(m, r)
    BY <1>3, Zenon DEF MembershipDecision
  <2> QED
    BY <1>1, <2>1 DEF ProcessEnds, DeliverMessage, Continue
<1>4. CASE NoDecision(m) \/ SendNothing(m)
  BY <1>4 DEF NoDecision, SendNothing, proc
<1>5. CASE SendMessage(m) \/ SendInit(m)
  BY <1>1, <1>5 DEF SendMessage, SendInit
<1>6. CASE ReceiveMessage(m) \/ ReceiveNothing(m)
  <2>1. PICK w : view' = [view EXCEPT ![m] = w]
    BY <1>6, Zenon DEF ReceiveMessage, ReceiveNothing
  <2> QED
    BY <1>1, <2>1
<1> QED
  BY <1>2, <1>3, <1>4, <1>5, <1>6 DEF Handler

LEMMA EnterMembershipStays ==
  ASSUME TypeOK, NEW n \in Node, EnterMembership(n)
  PROVE  StaysMember(n)
<1>1. view[n] \in View /\ turn \in Node /\ view \in [Node -> View]
  BY DEF TypeOK
<1>2. Enter(view[n], turn).stage[n] \in {view[n].stage[n], "MEMBER"}
  BY <1>1 DEF Enter, View
<1>3. CASE view' = [view EXCEPT ![n] = Enter(@, turn)]
  BY <1>1, <1>2, <1>3 DEF StaysMember, IsMember
<1>4. CASE ProcessEnds(n)
  <2>1. up'[n] = FALSE
    BY <1>4 DEF ProcessEnds, TypeOK
  <2> QED
    BY <2>1 DEF StaysMember
<1>5. CASE UNCHANGED proc
  BY <1>5 DEF proc, StaysMember, IsMember
<1> QED
  BY <1>3, <1>4, <1>5, Zenon DEF EnterMembership

LEMMA MembershipDecisionStays ==
  ASSUME TypeOK, NEW n \in Node, MembershipDecision(n)
  PROVE  StaysMember(n)
<1> DEFINE v == AfterSuspicion(n)
           w == IF CheckSenderOmission(v, n, turn) THEN EnterSuspicion(v, turn)
                                                   ELSE v
           r == RemoveMembership(w, turn)
<1>1. /\ w \in View /\ SameStageBut(w, view[n], turn)
      /\ ~Convicted(view[n], turn) => w.stage = view[n].stage
  BY DecisionKeeps
<1>2. turn \in Node /\ view \in [Node -> View] /\ up \in [Node -> BOOLEAN]
  BY DEF TypeOK
<1>3. \/ ProcessEnds(n)
      \/ ~SelfConvicted(n) /\ (DeliverMessage(n, w) \/ Continue(n, w))
      \/ turn # n /\ Continue(n, r)
  BY DEF MembershipDecision
<1> HIDE DEF w
<1>4. ~SelfConvicted(n) => w.stage[n] = view[n].stage[n]
  BY <1>1, <1>2 DEF SelfConvicted, SameStageBut
<1>5. CASE ProcessEnds(n)
  BY <1>2, <1>5 DEF ProcessEnds, StaysMember
<1>6. CASE ~SelfConvicted(n) /\ (DeliverMessage(n, w) \/ Continue(n, w))
  <2>1. [w EXCEPT !.last[turn] = Null].stage = w.stage
    BY <1>1 DEF View
  <2>2. \/ ProcessEnds(n)
        \/ view'[n].stage = w.stage
    BY <1>2, <1>6, <2>1 DEF DeliverMessage, Continue
  <2> QED
    BY <1>2, <1>4, <1>6, <2>2 DEF ProcessEnds, StaysMember, IsMember
<1>7. CASE turn # n /\ Continue(n, r)
  <2>1. SameStageBut(r, w, turn)
    BY <1>1, <1>2, RemoveMembershipKeeps
  <2>2. view'[n] = r
    BY <1>2, <1>7 DEF Continue
  <2> HIDE DEF r
  <2> QED
    BY <1>1, <1>2, <1>7, <2>1, <2>2 DEF SameStageBut, StaysMember, IsMember
<1> QED
  BY <1>3, <1>5, <1>6, <1>7

LEMMA SendStays ==
  ASSUME TypeOK, NEW n \in Node, SendMessage(n) \/ SendInit(n)
  PROVE  StaysMember(n)
<1>1. view[n] \in View /\ view \in [Node -> View]
  BY DEF TypeOK
<1>2. CASE SendMessage(n)
  <2>1. PICK body : view' = [view EXCEPT ![n] = [@ EXCEPT !.last[n] = body]]
    BY <1>2 DEF SendMessage
  <2>2. [view[n] EXCEPT !.last[n] = body].stage = view[n].stage
    BY <1>1 DEF View
  <2> QED
    BY <1>1, <2>1, <2>2 DEF StaysMember, IsMember
<1>3. CASE SendInit(n)
  BY <1>3 DEF SendInit, StaysMember, IsMember
<1> QED
  BY <1>2, <1>3

LEMMA ReceiveMessageStays ==
  ASSUME TypeOK, NEW n \in Node, ReceiveMessage(n)
  PROVE  StaysMember(n) /\ view'[n].stage[n] = view[n].stage[n]
<1>1. PICK msg \in Message : view' = [view EXCEPT ![n] = AfterReceiving(n, msg)]
  BY TakenMessage
<1>2. turn # n /\ view \in [Node -> View]
  BY DEF TypeOK, ReceiveMessage, Receives
<1>3. AfterReceiving(n, msg).stage[n] = view[n].stage[n]
  BY <1>2, AfterReceivingKeeps
<1> QED
  BY <1>1, <1>2, <1>3 DEF StaysMember, IsMember

LEMMA ReceiveNothingStays ==
  ASSUME TypeOK, NEW n \in Node, ReceiveNothing(n)
  PROVE  StaysMember(n) /\ view'[n].stage[n] = view[n].stage[n]
<1> DEFINE u == ForgetView(view[n], n, turn)
           v == [u EXCEPT !.last[turn] = Null]
<1>1. /\ view[n] \in View /\ view \in [Node -> View]
      /\ turn \in Node /\ turn # n
  BY DEF TypeOK, ReceiveNothing, Receives
<1>2. u \in View /\ u.stage = view[n].stage
  <2>1. u \in View
    BY <1>1, ForgetViewType
  <2>2. u.stage = view[n].stage
    BY DEF ForgetView
  <2> QED
    BY <2>1, <2>2
<1> HIDE DEF u
<1>3. v \in View
  BY <1>1, <1>2, LastType
<1>4. v.stage = view[n].stage
  BY <1>1, <1>2 DEF View
<1> HIDE DEF v
<1>5. [v EXCEPT !.stage[turn] = "INACTIVE"].stage[n] = v.stage[n]
  BY <1>1, <1>3 DEF View
<1>6. RemoveMembership(v, turn).stage[n] = v.stage[n]
  BY <1>1, <1>3, RemoveMembershipKeeps DEF SameStageBut
<1>7. view'[n].stage[n] = v.stage[n]
  BY <1>1, <1>5, <1>6 DEF ReceiveNothing, u, v
<1> QED
  BY <1>4, <1>7 DEF StaysMember, IsMember

LEMMA NextStays ==
  ASSUME TypeOK, Next, NEW n \in Node
  PROVE  StaysMember(n)
<1>1. CASE Handler(n)
  BY <1>1, EnterMembershipStays, MembershipDecisionStays, SendStays,
     ReceiveMessageStays, ReceiveNothingStays
     DEF Handler, NoDecision, SendNothing, proc, StaysMember, IsMember
<1>2. ASSUME NEW m \in Node \ {n}, Handler(m)
      PROVE  StaysMember(n)
  BY <1>2, OthersStay DEF StaysMember, IsMember
<1>3. CASE NextSlice \/ \E m \in Node : Start(m)
  BY <1>3 DEF NextSlice, Start, StaysMember, IsMember
<1>4. ASSUME NEW m \in Node, Crash(m) \/ Oversleep(m)
      PROVE  StaysMember(n)
  BY <1>4 DEF Crash, Oversleep, proc, ProcessEnds, StaysMember, IsMember, TypeOK
<1> QED
  BY <1>1, <1>2, <1>3, <1>4 DEF Next

\* A member never becomes a non-member in its own view while its process
\* runs: only the end of the process takes it out of the membership.
THEOREM MembersStay == Spec => MemberUntilEnd
<1> DEFINE A == \A n \in Node : StaysMember(n)
<1>1. TypeOK /\ [Next]_vars => [A]_vars
  BY NextStays
<1>2. [][A]_vars => MemberUntilEnd
  BY DEF MemberUntilEnd, StaysMember
<1> QED
  BY <1>1, <1>2, TypeCorrect, PTL DEF Spec
=============================================================================
