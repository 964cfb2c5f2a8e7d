-------------------------- MODULE TotalOrderProofs --------------------------
(***************************************************************************)
(* Theorems about TimeAwareTOB: the output files are in the order of the   *)
(* broadcasts, and the protocol implements TotalOrderBroadcast.  For any   *)
(* number of nodes, lines and starts, and any failures at any moment.      *)
(*                                                                         *)
(* The invariant LinesInOrder follows a line on its way: from the          *)
(* broadcast (latest) through the sockets into the views (last), where it  *)
(* stays until the members decide a cycle later, and into the output       *)
(* files.                                                                  *)
(***************************************************************************)
EXTENDS TimeAwareTOBProofs

-----------------------------------------------------------------------------
(* The invariant                                                            *)

Undec(s) == latest[s] # Empty

\* The number of turns until the members decide about the line of s that has
\* been broadcast last.
Wait(s) ==
  IF s > turn \/ (s = turn /\ slice = "MEMBERSHIP") THEN s - turn
                                                    ELSE s - turn + AMOUNT_NODES

\* Every line anywhere has been broadcast.
Bounded(n) ==
  /\ latest[n] <= bcast
  /\ \A s \in Node : view[n].last[s] <= bcast
  /\ \A i \in DOMAIN sock[n] : sock[n][i].body <= bcast
  /\ \A i \in DOMAIN out[n] : out[n][i] \in 1..bcast

\* Undecided lines are decided in the order of their broadcasts.
Ordered ==
  \A r, s \in Node :
    Undec(r) /\ Undec(s) /\ Wait(r) < Wait(s) => latest[r] < latest[s]

\* A member that has not sent yet has no line undecided.
NotSent ==
  slice = "SEND" /\ turn \notin ran /\ view[turn].stage[turn] = "MEMBER"
    => latest[turn] = Empty

Before(t) == IF t = 0 THEN AMOUNT_NODES - 1 ELSE t - 1

\* The turn of the last SEND slice that n has been through.
LastTurnOf(n) ==
  IF slice = "PAUSE" \/ (slice = "SEND" /\ n \in ran) THEN turn ELSE Before(turn)

\* The last sender that n has listened to.
LeftOver(n) ==
  IF LastTurnOf(n) = n THEN Before(LastTurnOf(n)) ELSE LastTurnOf(n)

\* In a socket are left over copies of the last sender's message, followed by
\* what the sender of this SEND slice has just broadcast.
Leftovers(n) ==
  /\ \A i \in DOMAIN sock[n] :
       \/ sock[n][i].nodeID = LeftOver(n)
       \/ /\ slice = "SEND" /\ sock[n][i].nodeID = turn /\ turn # n
          /\ sock[n][i].body \in {Empty, latest[turn]}
  /\ slice = "SEND" =>
       \A i, j \in DOMAIN sock[n] :
         i < j /\ sock[n][i].nodeID = turn => sock[n][j].nodeID = turn

\* The line that n keeps of a sender is the undecided one, except in the SEND
\* slice before it has listened to the sender.
Fresh(n) ==
  \A s \in Node :
    \/ s = turn /\ slice = "SEND" /\ n \notin ran
    \/ view[n].last[s] \in {Null, Empty, latest[s]}

\* Lines in a file are older than those undecided; the one that is being
\* decided may be there, but then it cannot be delivered again.
Older(n) ==
  \A s \in Node : \A i \in DOMAIN out[n] :
    Undec(s) => \/ out[n][i] < latest[s]
                \/ /\ s = turn /\ slice = "MEMBERSHIP" /\ out[n][i] = latest[s]
                   /\ view[n].last[s] = Null

Increasing(n) == \A i, j \in DOMAIN out[n] : i < j => out[n][i] < out[n][j]

\* Only members have a line of their own.
Own(n) == view[n].stage[n] # "MEMBER" => view[n].last[n] = Null

\* Who becomes a mere listener has forgotten everything (MemberUntilEnd).
StaysOwn(n) ==
  \/ view'[n] = InitView
  \/ view[n].stage[n] = "MEMBER" => view'[n].stage[n] = "MEMBER"

InFile(n) == Leftovers(n) /\ Fresh(n) /\ Older(n) /\ Increasing(n)

LinesInOrder ==
  /\ Ordered /\ NotSent
  /\ \A n \in Node : Bounded(n) /\ Own(n)
  /\ \A n \in Node \ late : InFile(n)

-----------------------------------------------------------------------------
(* What the steps do to lines                                               *)

\* Only process n does something.
Alone(n) ==
  /\ \A m \in Node \ {n} : view'[m] = view[m] /\ sock'[m] = sock[m] /\ out'[m] = out[m]
  /\ \A m \in Node \ {n} : m \in ran' <=> m \in ran
  /\ UNCHANGED <<turn, slice, bcast, latest>>

\* The process ends; the end of its file may be lost.
Ends(n) ==
  /\ view'[n] = InitView /\ sock'[n] = <<>>
  /\ \/ out'[n] = out[n]
     \/ \E k \in 0..Len(out[n]) : out'[n] = SubSeq(out[n], 1, k)

Keeps(n) == view'[n].last = view[n].last /\ sock'[n] = sock[n] /\ out'[n] = out[n]

Delivery(n) ==
  /\ view[n].last[turn] \notin {Null, Empty}
  /\ out'[n] = Append(out[n], view[n].last[turn])
  /\ view'[n].last = [view[n].last EXCEPT ![turn] = Null]
  /\ sock'[n] = sock[n]

\* A handler of the MEMBERSHIP slice.
MembershipStep(n) ==
  /\ slice = "MEMBERSHIP" /\ n \notin ran /\ ran' = ran \cup {n}
  /\ Alone(n) /\ UNCHANGED late
  /\ Ends(n) \/ Keeps(n) \/ Delivery(n)

\* receive_operation
ReceiveStep(n) ==
  /\ slice = "SEND" /\ n \notin ran /\ ran' = ran \cup {n} /\ turn # n
  /\ Alone(n) /\ UNCHANGED late /\ out'[n] = out[n]
  /\ \E body : view'[n].last = [view[n].last EXCEPT ![turn] = body]
  /\ \/ /\ sock'[n] = <<>> /\ view'[n].last[turn] = Null
     \/ \E first \in FromSender(n) :
          /\ sock'[n] = SubSeq(sock[n], first + 1, Len(sock[n]))
          /\ view'[n].last[turn] = sock[n][first].body

\* send_operation
SendStep(n, msg) ==
  /\ slice = "SEND" /\ n \notin ran /\ ran' = ran \cup {n} /\ turn = n
  /\ \A m \in Node \ {n} : view'[m] = view[m]
  /\ UNCHANGED <<turn, slice, late, out>>
  /\ msg \in Message /\ msg.nodeID = n
  /\ \A m \in Node : sock'[m] = sock[m] \/ (m # n /\ sock'[m] = sock[m] \o <<msg, msg>>)
  /\ \/ /\ view[n].stage[n] # "MEMBER" /\ msg.body = Empty
        /\ UNCHANGED <<bcast, latest>> /\ view'[n].last = view[n].last
     \/ /\ view[n].stage[n] = "MEMBER"
        /\ view'[n].last = [view[n].last EXCEPT ![n] = msg.body]
        /\ latest' = [latest EXCEPT ![n] = msg.body]
        /\ \/ msg.body = Empty /\ bcast' = bcast
           \/ msg.body = bcast + 1 /\ bcast' = bcast + 1

LEMMA EndsWhenProcessEnds ==
  ASSUME TypeOK, NEW n \in Node, ProcessEnds(n), out' = out \/ LosesOutput(n)
  PROVE  /\ Ends(n)
         /\ \A m \in Node \ {n} : view'[m] = view[m] /\ sock'[m] = sock[m]
                                  /\ out'[m] = out[m]
<1>1. view'[n] = InitView /\ sock'[n] = <<>>
  BY DEF ProcessEnds, TypeOK
<1>2. \A m \in Node \ {n} : view'[m] = view[m] /\ sock'[m] = sock[m]
  BY DEF ProcessEnds, TypeOK
<1>3. CASE out' = out
  BY <1>1, <1>2, <1>3 DEF Ends
<1>4. CASE LosesOutput(n)
  <2>1. PICK k \in disk[n]..Len(out[n]) : out' = [out EXCEPT ![n] = SubSeq(@, 1, k)]
    BY <1>4 DEF LosesOutput
  <2>2. out[n] \in Seq(Nat) /\ disk[n] \in Nat /\ Len(out[n]) \in Nat
    BY LenProperties DEF TypeOK
  <2>3. k \in 0..Len(out[n])
    BY <2>2
  <2>4. out'[n] = SubSeq(out[n], 1, k) /\ \A m \in Node \ {n} : out'[m] = out[m]
    BY <2>1 DEF TypeOK
  <2> QED
    BY <1>1, <1>2, <2>3, <2>4 DEF Ends
<1> QED
  BY <1>3, <1>4

LEMMA EnterMembershipLines ==
  ASSUME TypeOK, NEW n \in Node, EnterMembership(n)
  PROVE  MembershipStep(n)
<1>1. /\ slice = "MEMBERSHIP" /\ n \notin ran /\ ran' = ran \cup {n}
      /\ UNCHANGED <<turn, slice, late, bcast, latest, out>>
  BY DEF EnterMembership, Wakes
<1>2. CASE ProcessEnds(n)
  BY <1>1, <1>2, EndsWhenProcessEnds DEF MembershipStep, Alone
<1>3. CASE UNCHANGED proc
  BY <1>1, <1>3 DEF proc, MembershipStep, Alone, Keeps
<1>4. CASE view' = [view EXCEPT ![n] = Enter(@, turn)] /\ UNCHANGED sock
  <2>1. view[n] \in View /\ turn \in Node /\ view \in [Node -> View]
    BY DEF TypeOK
  <2>2. view'[n].last = view[n].last
    BY <1>4, <2>1, EnterKeeps DEF SameMessages
  <2>3. \A m \in Node \ {n} : view'[m] = view[m]
    BY <1>4, <2>1
  <2> QED
    BY <1>1, <1>4, <2>2, <2>3 DEF MembershipStep, Alone, Keeps
<1> QED
  BY <1>2, <1>3, <1>4 DEF EnterMembership

LEMMA DeliverMessageLines ==
  ASSUME TypeOK, NEW n \in Node, NEW w \in View, w.last = view[n].last,
         DeliverMessage(n, w)
  PROVE  /\ Ends(n) \/ Keeps(n) \/ Delivery(n)
         /\ \A m \in Node \ {n} : view'[m] = view[m] /\ sock'[m] = sock[m]
                                  /\ out'[m] = out[m]
<1> DEFINE body == w.last[turn]
           left == IF body = Empty THEN w ELSE [w EXCEPT !.last[turn] = Null]
           file == IF body = Empty THEN out[n] ELSE Append(out[n], body)
<1>1. CASE body = Null
  BY <1>1, EndsWhenProcessEnds DEF DeliverMessage
<1>2. CASE body # Null
  <2>1. /\ view' = [view EXCEPT ![n] = left] /\ out' = [out EXCEPT ![n] = file]
        /\ UNCHANGED sock
    BY <1>2 DEF DeliverMessage
  <2>2. CASE body = Empty
    BY <2>1, <2>2 DEF Keeps, TypeOK
  <2>3. CASE body # Empty
    <3>1. left = [w EXCEPT !.last[turn] = Null] /\ file = Append(out[n], body)
      BY <2>3
    <3>2. left.last = [w.last EXCEPT ![turn] = Null]
      BY <3>1 DEF View
    <3> HIDE DEF left, file
    <3>3. view'[n] = left /\ out'[n] = file
          /\ \A m \in Node \ {n} : view'[m] = view[m] /\ out'[m] = out[m]
      BY <2>1 DEF TypeOK
    <3> QED
      BY <1>2, <2>1, <2>3, <3>1, <3>2, <3>3 DEF Delivery
  <2> QED
    BY <2>2, <2>3
<1> QED
  BY <1>1, <1>2

LEMMA MembershipDecisionLines ==
  ASSUME TypeOK, NEW n \in Node, MembershipDecision(n)
  PROVE  MembershipStep(n)
<1> DEFINE v == AfterSuspicion(n)
           w == IF CheckSenderOmission(v, n, turn) THEN EnterSuspicion(v, turn)
                                                   ELSE v
           r == RemoveMembership(w, turn)
<1>0. turn \in Node /\ view \in [Node -> View] /\ out \in [Node -> Seq(Nat)]
  BY DEF TypeOK
<1>1. w \in View /\ w.last = view[n].last
  BY DecisionKeeps DEF SameMessages
<1>2. /\ slice = "MEMBERSHIP" /\ n \notin ran /\ ran' = ran \cup {n}
      /\ UNCHANGED <<turn, slice, late, bcast, latest>>
  BY DEF MembershipDecision, Wakes
<1>3. \/ ProcessEnds(n) /\ UNCHANGED out
      \/ DeliverMessage(n, w)
      \/ Continue(n, w)
      \/ Continue(n, r)
  BY DEF MembershipDecision
<1> HIDE DEF w
<1>4. r.last = view[n].last
  BY <1>0, <1>1, RemoveMembershipKeeps DEF SameMessages
<1> HIDE DEF r
<1>5. CASE ProcessEnds(n) /\ UNCHANGED out
  BY <1>2, <1>5, EndsWhenProcessEnds DEF MembershipStep, Alone
<1>6. CASE DeliverMessage(n, w)
  BY <1>1, <1>2, <1>6, DeliverMessageLines DEF MembershipStep, Alone
<1>7. ASSUME NEW u, u.last = view[n].last, Continue(n, u)
      PROVE  MembershipStep(n)
  <2>1. /\ view'[n] = u /\ \A m \in Node \ {n} : view'[m] = view[m]
        /\ UNCHANGED <<sock, out>>
    BY <1>0, <1>7 DEF Continue
  <2> QED
    BY <1>2, <1>7, <2>1 DEF MembershipStep, Alone, Keeps
<1> QED
  BY <1>1, <1>3, <1>4, <1>5, <1>6, <1>7

LEMMA NoDecisionLines ==
  ASSUME TypeOK, NEW n \in Node, NoDecision(n)
  PROVE  MembershipStep(n)
BY DEF NoDecision, Wakes, proc, MembershipStep, Alone, Keeps

LEMMA ReceiveMessageLines ==
  ASSUME TypeOK, NEW n \in Node, ReceiveMessage(n)
  PROVE  ReceiveStep(n)
<1>1. PICK first \in FirstFromSender(n) :
        /\ view' = [view EXCEPT ![n] = AfterReceiving(n, sock[n][first])]
        /\ sock' = [sock EXCEPT ![n] = SubSeq(@, first + 1, Len(@))]
  BY DEF ReceiveMessage
<1> DEFINE msg == sock[n][first]
           w   == AfterReceiving(n, msg)
<1>2. /\ sock[n] \in Seq(Message) /\ first \in FromSender(n)
      /\ first \in DOMAIN sock[n] /\ turn \in Node
  BY DEF TypeOK, FirstFromSender, FromSender
<1>3. msg \in Message
  BY <1>2, ElementOfSeq, LenProperties
<1>4. /\ slice = "SEND" /\ n \notin ran /\ ran' = ran \cup {n} /\ turn # n
      /\ UNCHANGED <<turn, slice, late, bcast, latest, out>>
  BY DEF ReceiveMessage, Receives, Wakes
<1> HIDE DEF msg
<1>5. w \in View
  BY <1>3, AfterReceivingType
<1>6. w.last[turn] = msg.body /\ \A s \in Node \ {turn} : w.last[s] = view[n].last[s]
  BY <1>3, <1>4, AfterReceivingKeeps
<1>7. view' = [view EXCEPT ![n] = w]
  BY <1>1 DEF msg
<1> HIDE DEF w
<1>8. w.last = [view[n].last EXCEPT ![turn] = msg.body]
  <2>1. w.last \in [Node -> Body \cup {Null}] /\ view[n].last \in [Node -> Body \cup {Null}]
    BY <1>5 DEF View, TypeOK
  <2> QED
    BY <1>2, <1>6, <2>1
<1>9. /\ view'[n] = w /\ sock'[n] = SubSeq(sock[n], first + 1, Len(sock[n]))
      /\ \A m \in Node \ {n} : view'[m] = view[m] /\ sock'[m] = sock[m]
  BY <1>1, <1>7 DEF TypeOK
<1> QED
  BY <1>2, <1>4, <1>6, <1>8, <1>9 DEF ReceiveStep, Alone, msg

LEMMA ReceiveNothingLines ==
  ASSUME TypeOK, NEW n \in Node, ReceiveNothing(n)
  PROVE  ReceiveStep(n)
<1> DEFINE u == ForgetView(view[n], n, turn)
           v == [u EXCEPT !.last[turn] = Null]
           w == IF v.stage[turn] = "ACTIVE" THEN [v EXCEPT !.stage[turn] = "INACTIVE"]
                ELSE IF v.stage[turn] = "MEMBER" /\ v.stage[n] # "MEMBER"
                THEN RemoveMembership(v, turn) ELSE v
<1>1. view[n] \in View /\ turn \in Node /\ view \in [Node -> View]
  BY DEF TypeOK
<1>2. u \in View /\ u.last = view[n].last
  <2>1. u \in View
    BY <1>1, ForgetViewType
  <2>2. u.last = view[n].last
    BY <1>1 DEF ForgetView, View
  <2> QED
    BY <2>1, <2>2
<1>3. /\ slice = "SEND" /\ n \notin ran /\ ran' = ran \cup {n} /\ turn # n
      /\ UNCHANGED <<turn, slice, late, bcast, latest, out>>
      /\ view' = [view EXCEPT ![n] = w] /\ sock' = [sock EXCEPT ![n] = <<>>]
  BY DEF ReceiveNothing, Receives, Wakes
<1> HIDE DEF u
<1>4. v \in View /\ v.last = [view[n].last EXCEPT ![turn] = Null]
  <2>1. v \in View
    BY <1>1, <1>2, LastType
  <2>2. v.last = [u.last EXCEPT ![turn] = Null]
    BY <1>2 DEF View
  <2> QED
    BY <1>2, <2>1, <2>2
<1> HIDE DEF v
<1>5. w.last = v.last
  <2>1. [v EXCEPT !.stage[turn] = "INACTIVE"].last = v.last
    BY <1>4 DEF View
  <2> QED
    BY <1>1, <1>4, <2>1, RemoveMembershipKeeps DEF SameMessages
<1> HIDE DEF w
<1>6. /\ view'[n].last = [view[n].last EXCEPT ![turn] = Null] /\ sock'[n] = <<>>
      /\ \A m \in Node \ {n} : view'[m] = view[m] /\ sock'[m] = sock[m]
  BY <1>1, <1>3, <1>4, <1>5 DEF TypeOK
<1>7. view'[n].last[turn] = Null
  BY <1>1, <1>6 DEF View
<1> QED
  BY <1>3, <1>6, <1>7 DEF ReceiveStep, Alone

LEMMA BroadcastLines ==
  ASSUME TypeOK, NEW n \in Node, NEW msg, BroadcastMessage(n, msg)
  PROVE  \A m \in Node :
           sock'[m] = sock[m] \/ (m # n /\ sock'[m] = sock[m] \o <<msg, msg>>)
BY DEF BroadcastMessage, Listeners

LEMMA SendMessageLines ==
  ASSUME TypeOK, NEW n \in Node, SendMessage(n)
  PROVE  \E msg : SendStep(n, msg)
<1> DEFINE body == IF Fetches(n) THEN bcast + 1 ELSE Empty
           msg  == PrepareMsg(n, "MEMBER", body)
<1>1. body \in Body /\ msg \in Message /\ msg.nodeID = n /\ msg.body = body
  <2>1. body \in Body
    BY DEF TypeOK, Body, Empty
  <2> QED
    BY <2>1, PrepareMsgType DEF Stage, PrepareMsg
<1>2. /\ slice = "SEND" /\ n \notin ran /\ ran' = ran \cup {n} /\ turn = n
      /\ UNCHANGED <<turn, slice, late, out>> /\ view[n].stage[n] = "MEMBER"
      /\ latest' = [latest EXCEPT ![n] = body] /\ BroadcastMessage(n, msg)
      /\ view' = [view EXCEPT ![n].last[n] = body]
  BY DEF SendMessage, Wakes
<1>3. (body = Empty /\ bcast' = bcast) \/ (body = bcast + 1 /\ bcast' = bcast + 1)
  BY DEF SendMessage
<1> HIDE DEF body, msg
<1>4. /\ view'[n].last = [view[n].last EXCEPT ![n] = body]
      /\ \A m \in Node \ {n} : view'[m] = view[m]
  <2>1. view[n] \in View /\ view \in [Node -> View]
    BY DEF TypeOK
  <2>2. view' = [view EXCEPT ![n] = [@ EXCEPT !.last[n] = body]]
    BY <1>2
  <2>3. [view[n] EXCEPT !.last[n] = body].last = [view[n].last EXCEPT ![n] = body]
    BY <2>1 DEF View
  <2> QED
    BY <2>1, <2>2, <2>3
<1>5. SendStep(n, msg)
  BY <1>1, <1>2, <1>3, <1>4, BroadcastLines DEF SendStep
<1> QED
  BY <1>5

LEMMA SendInitLines ==
  ASSUME TypeOK, NEW n \in Node, SendInit(n) \/ SendNothing(n)
  PROVE  \E msg : SendStep(n, msg)
<1> DEFINE msg == PrepareMsg(n, "ACTIVE", Empty)
<1>1. msg \in Message /\ msg.nodeID = n /\ msg.body = Empty
  BY PrepareMsgType DEF Stage, PrepareMsg, Body, Empty
<1>2. /\ slice = "SEND" /\ n \notin ran /\ ran' = ran \cup {n} /\ turn = n
      /\ UNCHANGED <<turn, slice, late, out, bcast, latest>> /\ view[n].stage[n] # "MEMBER"
  BY DEF SendInit, SendNothing, Wakes
<1>3. \/ UNCHANGED <<view, sock>>
      \/ /\ BroadcastMessage(n, msg)
         /\ view' = [view EXCEPT ![n] = [@ EXCEPT !.stage[n] = "ACTIVE"]]
  BY DEF SendInit, SendNothing, proc
<1> HIDE DEF msg
<1>4. view'[n].last = view[n].last /\ \A m \in Node \ {n} : view'[m] = view[m]
  <2>1. view[n] \in View /\ view \in [Node -> View]
    BY DEF TypeOK
  <2>2. [view[n] EXCEPT !.stage[n] = "ACTIVE"].last = view[n].last
    BY <2>1 DEF View
  <2> QED
    BY <1>3, <2>1, <2>2
<1>5. SendStep(n, msg)
  BY <1>1, <1>2, <1>3, <1>4, BroadcastLines DEF SendStep
<1> QED
  BY <1>5
-----------------------------------------------------------------------------
(* Lines stay in order.                                                     *)

LEMMA LineTypes ==
  ASSUME TypeOK
  PROVE  /\ turn \in Node /\ bcast \in Nat
         /\ \A n \in Node :
              /\ latest[n] \in Nat
              /\ \A s \in Node : view[n].last[s] \in Int
              /\ view[n].last \in [Node -> Body \cup {Null}]
              /\ \A i \in DOMAIN sock[n] : sock[n][i].body \in Nat
              /\ sock[n] \in Seq(Message) /\ out[n] \in Seq(Nat)
              /\ \A i \in DOMAIN out[n] : out[n][i] \in Nat
<1>1. turn \in Node /\ bcast \in Nat /\ \A n \in Node : latest[n] \in Nat
  BY DEF TypeOK, Body
<1>2. ASSUME NEW n \in Node
      PROVE  /\ view[n].last \in [Node -> Body \cup {Null}]
             /\ \A s \in Node : view[n].last[s] \in Int
             /\ sock[n] \in Seq(Message) /\ out[n] \in Seq(Nat)
             /\ \A i \in DOMAIN sock[n] : sock[n][i].body \in Nat
             /\ \A i \in DOMAIN out[n] : out[n][i] \in Nat
  <2>1. view[n].last \in [Node -> Body \cup {Null}]
    BY DEF TypeOK, View
  <2>2. \A s \in Node : view[n].last[s] \in Int
    BY <2>1 DEF Body, Null
  <2>3. sock[n] \in Seq(Message) /\ out[n] \in Seq(Nat)
    BY DEF TypeOK
  <2>4. \A i \in DOMAIN sock[n] : sock[n][i].body \in Nat
    <3>1. \A i \in DOMAIN sock[n] : sock[n][i] \in Message
      BY <2>3, ElementOfSeq, LenProperties
    <3> QED
      BY <3>1 DEF Message, Body
  <2>5. \A i \in DOMAIN out[n] : out[n][i] \in Nat
    BY <2>3, ElementOfSeq, LenProperties
  <2> QED
    BY <2>1, <2>2, <2>3, <2>4, <2>5
<1> QED
  BY <1>1, <1>2

\* With three nodes or more, what is left over is not from the next sender.
LEMMA LeftOverFacts ==
  ASSUME TypeOK, NEW n \in Node
  PROVE  /\ LeftOver(n) # n
         /\ slice = "MEMBERSHIP" \/ (slice = "SEND" /\ n \notin ran)
              => LeftOver(n) # turn
<1>1. \A t \in Node : Before(t) \in Node /\ Before(t) # t /\ Before(Before(t)) # t
  BY NodeFacts DEF Before
<1>2. turn \in Node
  BY DEF TypeOK
<1> QED
  BY <1>1, <1>2 DEF LeftOver, LastTurnOf

LEMMA SubSequence ==
  ASSUME NEW S, NEW q \in Seq(S), NEW j \in Nat, NEW k \in 0..Len(q)
  PROVE  LET r == SubSeq(q, j + 1, k)
         IN  \A i \in DOMAIN r : i + j \in DOMAIN q /\ r[i] = q[i + j] /\ i \in Nat
<1> DEFINE r == SubSeq(q, j + 1, k)
<1>1. Len(q) \in Nat /\ DOMAIN q = 1..Len(q) /\ k \in Int /\ j + 1 \in Int
  BY LenProperties
<1>2. \A i \in (j + 1)..k : q[i] \in S
  BY <1>1, ElementOfSeq
<1>3. /\ r \in Seq(S)
      /\ Len(r) = IF j + 1 <= k THEN k - (j + 1) + 1 ELSE 0
      /\ \A i \in 1..(k - (j + 1) + 1) : r[i] = q[j + 1 + i - 1]
  BY <1>1, <1>2, SubSeqProperties
<1>4. DOMAIN r = 1..Len(r)
  BY <1>3, LenProperties
<1> HIDE DEF r
<1>5. ASSUME NEW i \in DOMAIN r
      PROVE  i + j \in DOMAIN q /\ r[i] = q[i + j] /\ i \in Nat
  <2>1. i \in 1..Len(r)
    BY <1>4, <1>5
  <2>2. j + 1 <= k /\ Len(r) = k - j
    BY <1>1, <1>3, <2>1
  <2>3. i \in Nat /\ i \in 1..(k - (j + 1) + 1) /\ j + 1 + i - 1 = i + j
    BY <1>1, <2>1, <2>2
  <2>4. r[i] = q[i + j]
    BY <1>3, <2>3
  <2>5. i + j \in 1..Len(q)
    BY <1>1, <2>1, <2>2
  <2> QED
    BY <1>1, <2>3, <2>4, <2>5
<1> QED
  BY <1>5 DEF r

LEMMA Untouched ==
  ASSUME NEW m \in Node, view'[m] = view[m], sock'[m] = sock[m], out'[m] = out[m],
         UNCHANGED <<turn, slice, bcast, latest>>, m \in ran' <=> m \in ran
  PROVE  /\ InFile(m) => InFile(m)'
         /\ Bounded(m) => Bounded(m)'
         /\ Own(m) => Own(m)'
<1>1. LeftOver(m)' = LeftOver(m)
  BY DEF LeftOver, LastTurnOf, Before
<1>2. Leftovers(m) => Leftovers(m)'
  BY <1>1 DEF Leftovers
<1>3. Fresh(m) => Fresh(m)'
  BY DEF Fresh
<1>4. Older(m) => Older(m)'
  BY DEF Older, Undec
<1>5. Increasing(m) => Increasing(m)'
  BY DEF Increasing
<1> QED
  BY <1>2, <1>3, <1>4, <1>5 DEF InFile, Bounded, Own

LEMMA Ended ==
  ASSUME TypeOK, NEW n \in Node, Bounded(n), Ends(n),
         UNCHANGED <<turn, slice, bcast, latest>>
  PROVE  /\ InFile(n) => InFile(n)'
         /\ Bounded(n)' /\ Own(n)'
<1>1. view'[n] = InitView /\ \A s \in Node : view'[n].last[s] = Null
  BY DEF Ends, InitView
<1>2. sock'[n] = <<>> /\ DOMAIN sock'[n] = {}
  BY DEF Ends
<1>3. out[n] \in Seq(Nat) /\ bcast \in Nat
  BY DEF TypeOK
<1>4. \A i \in DOMAIN out'[n] : i \in DOMAIN out[n] /\ out'[n][i] = out[n][i]
  <2>1. CASE out'[n] = out[n]
    BY <2>1
  <2>2. CASE \E k \in 0..Len(out[n]) : out'[n] = SubSeq(out[n], 1, k)
    <3>1. PICK k \in 0..Len(out[n]) : out'[n] = SubSeq(out[n], 1, k)
      BY <2>2
    <3>2. out'[n] = SubSeq(out[n], 0 + 1, k)
      BY <3>1
    <3> HIDE <3>1
    <3>3. \A i \in DOMAIN out'[n] : i + 0 \in DOMAIN out[n] /\ out'[n][i] = out[n][i + 0]
                                  /\ i \in Nat
      BY <1>3, <3>2, SubSequence
    <3> QED
      BY <3>3
  <2> QED
    BY <2>1, <2>2 DEF Ends
<1>5. Leftovers(n)'
  BY <1>2 DEF Leftovers
<1>6. Fresh(n)'
  BY <1>1 DEF Fresh
<1>7. Older(n) => Older(n)'
  BY <1>1, <1>4, LineTypes DEF Older, Undec
<1>8. Increasing(n) => Increasing(n)'
  BY <1>4 DEF Increasing
<1>9. Bounded(n)'
  <2>1. \A i \in DOMAIN out'[n] : out'[n][i] \in 1..bcast
    BY <1>4 DEF Bounded
  <2> QED
    BY <1>1, <1>2, <1>3, <2>1 DEF Bounded, Null
<1>10. Own(n)'
  BY <1>1 DEF Own
<1> QED
  BY <1>5, <1>6, <1>7, <1>8, <1>9, <1>10 DEF InFile

\* It is enough to look at the process that does something.
LEMMA AloneStep ==
  ASSUME LinesInOrder, NEW n \in Node, Alone(n), late \subseteq late',
         NotSent', Bounded(n)', Own(n)', n \notin late' => InFile(n)'
  PROVE  LinesInOrder'
<1>1. Ordered'
  <2>1. \A s : Wait(s)' = Wait(s)
    BY DEF Alone, Wait
  <2> QED
    BY <2>1 DEF LinesInOrder, Ordered, Alone, Undec
<1>2. ASSUME NEW m \in Node \ {n}
      PROVE  /\ InFile(m) => InFile(m)'
             /\ Bounded(m) => Bounded(m)'
             /\ Own(m) => Own(m)'
  BY Untouched DEF Alone
<1>3. \A m \in Node : Bounded(m)' /\ Own(m)'
  BY <1>2 DEF LinesInOrder
<1>4. \A m \in Node \ late' : InFile(m)'
  BY <1>2 DEF LinesInOrder
<1> QED
  BY <1>1, <1>3, <1>4 DEF LinesInOrder
LEMMA AppendedLine ==
  ASSUME NEW q \in Seq(Nat), NEW line \in Nat
  PROVE  /\ DOMAIN q = 1..Len(q) /\ Len(q) \in Nat
         /\ DOMAIN Append(q, line) = 1..(Len(q) + 1)
         /\ \A i \in DOMAIN q : Append(q, line)[i] = q[i]
         /\ Append(q, line)[Len(q) + 1] = line
BY AppendProperties, LenProperties

\* The members decide about a line when all other undecided lines are newer.
LEMMA OldestFirst ==
  ASSUME TypeOK, LinesInOrder, slice = "MEMBERSHIP", Undec(turn)
  PROVE  \A s \in Node \ {turn} : Undec(s) => latest[turn] < latest[s]
<1>1. turn \in Node /\ Ordered
  BY DEF LinesInOrder, TypeOK
<1>2. \A s \in Node \ {turn} : Wait(turn) < Wait(s)
  BY <1>1, NodeFacts DEF Wait
<1> QED
  BY <1>1, <1>2 DEF Ordered

LEMMA DeliveryInOrder ==
  ASSUME TypeOK, LinesInOrder, NEW n \in Node \ late,
         slice = "MEMBERSHIP", Delivery(n), Alone(n)
  PROVE  /\ view[n].last[turn] = latest[turn] /\ Undec(turn) /\ InFile(n)'
         /\ \A i \in DOMAIN out[n] : out[n][i] < latest[turn]
<1>1. Bounded(n) /\ InFile(n)
  BY DEF LinesInOrder
<1>2. turn \in Node
  BY DEF TypeOK
<1>3. view[n].last[turn] = latest[turn] /\ Undec(turn)
  BY <1>1, <1>2 DEF Delivery, InFile, Fresh, Undec
<1>4. \A i \in DOMAIN out[n] : out[n][i] < latest[turn]
  BY <1>1, <1>2, <1>3 DEF Delivery, InFile, Older
<1>6. \A s \in Node \ {turn} : Undec(s) => latest[turn] < latest[s]
  BY <1>3, OldestFirst
<1> DEFINE line == latest[turn]
<1>7. /\ DOMAIN out[n] = 1..Len(out[n]) /\ Len(out[n]) \in Nat
      /\ DOMAIN out'[n] = 1..(Len(out[n]) + 1)
      /\ \A i \in DOMAIN out[n] : out'[n][i] = out[n][i]
      /\ out'[n][Len(out[n]) + 1] = line
  <2>1. out[n] \in Seq(Nat) /\ line \in Nat
    BY <1>2, LineTypes
  <2>2. out'[n] = Append(out[n], line)
    BY <1>3 DEF Delivery
  <2> QED
    BY <2>1, <2>2, AppendedLine
<1>8. Leftovers(n)'
  <2>1. LeftOver(n)' = LeftOver(n)
    BY DEF Alone, LeftOver, LastTurnOf, Before
  <2> QED
    BY <1>1, <2>1 DEF InFile, Leftovers, Alone, Delivery
<1>9. view'[n].last = [view[n].last EXCEPT ![turn] = Null] /\ view'[n].last[turn] = Null
      /\ \A s \in Node \ {turn} : view'[n].last[s] = view[n].last[s]
  BY <1>2, LineTypes DEF Delivery
<1>10. Fresh(n)'
  BY <1>1, <1>9 DEF InFile, Fresh, Alone
<1>11. Increasing(n)'
  BY <1>1, <1>4, <1>7 DEF InFile, Increasing
<1>12. Older(n)'
  <2> SUFFICES ASSUME NEW s \in Node, NEW i \in DOMAIN out'[n], Undec(s)'
               PROVE  \/ out'[n][i] < latest'[s]
                      \/ /\ s = turn' /\ slice' = "MEMBERSHIP" /\ out'[n][i] = latest'[s]
                         /\ view'[n].last[s] = Null
    BY DEF Older
  <2>1. latest' = latest /\ turn' = turn /\ slice' = slice /\ Undec(s)
    BY DEF Alone, Undec
  <2>2. CASE i \in DOMAIN out[n] /\ s = turn
    BY <1>4, <1>7, <2>1, <2>2
  <2>3. CASE i \in DOMAIN out[n] /\ s # turn
    BY <1>1, <1>7, <2>1, <2>3 DEF InFile, Older
  <2>4. CASE i = Len(out[n]) + 1
    BY <1>6, <1>7, <1>9, <2>1, <2>4
  <2> QED
    BY <1>7, <2>2, <2>3, <2>4
<1> QED
  BY <1>3, <1>4, <1>8, <1>10, <1>11, <1>12 DEF InFile

LEMMA MembershipOrder ==
  ASSUME TypeOK, LinesInOrder, NEW n \in Node, MembershipStep(n), StaysOwn(n)
  PROVE  LinesInOrder'
<1>1. /\ Alone(n) /\ late' = late /\ slice = "MEMBERSHIP" /\ ran' = ran \cup {n}
      /\ turn \in Node
  BY DEF MembershipStep, TypeOK
<1>2. Bounded(n) /\ Own(n) /\ (n \notin late => InFile(n))
  BY DEF LinesInOrder
<1>3. NotSent'
  BY <1>1 DEF NotSent, Alone
<1>4. CASE Ends(n)
  BY <1>1, <1>2, <1>3, <1>4, Ended, AloneStep DEF Alone
<1>5. CASE Keeps(n)
  <2>1. Bounded(n)'
    BY <1>1, <1>2, <1>5 DEF Bounded, Keeps, Alone
  <2>2. Own(n)'
    BY <1>2, <1>5 DEF Own, StaysOwn, Keeps, InitView
  <2>3. InFile(n) => InFile(n)'
    <3>1. LeftOver(n)' = LeftOver(n)
      BY <1>1 DEF Alone, LeftOver, LastTurnOf, Before
    <3> QED
      BY <1>1, <1>5, <3>1
         DEF InFile, Leftovers, Fresh, Older, Increasing, Undec, Keeps, Alone
  <2> QED
    BY <1>1, <1>2, <1>3, <2>1, <2>2, <2>3, AloneStep
<1>6. CASE Delivery(n)
  <2>1. Bounded(n)'
    <3>1. view[n].last[turn] \in 1..bcast
      BY <1>1, <1>2, <1>6, LineTypes DEF Delivery, Bounded, Body, Null, Empty
    <3>2. \A i \in DOMAIN out'[n] : out'[n][i] \in 1..bcast
      <4>1. out[n] \in Seq(Nat) /\ view[n].last[turn] \in Nat /\ bcast \in Nat
        BY <1>1, <3>1, LineTypes
      <4>2. out'[n] = Append(out[n], view[n].last[turn])
        BY <1>6 DEF Delivery
      <4>3. \A i \in DOMAIN out'[n] :
              \/ i \in DOMAIN out[n] /\ out'[n][i] = out[n][i]
              \/ out'[n][i] = view[n].last[turn]
        BY <4>1, <4>2, AppendedLine
      <4> QED
        BY <1>2, <3>1, <4>3 DEF Bounded
    <3>3. \A s \in Node : view'[n].last[s] <= bcast
      BY <1>1, <1>2, <1>6, LineTypes DEF Delivery, Bounded, Null
    <3> QED
      BY <1>1, <1>2, <1>6, <3>2, <3>3 DEF Bounded, Delivery, Alone
  <2>2. Own(n)'
    BY <1>2, <1>6, LineTypes DEF Own, StaysOwn, Delivery, InitView
  <2> QED
    BY <1>1, <1>2, <1>3, <1>6, <2>1, <2>2, DeliveryInOrder, AloneStep
<1> QED
  BY <1>4, <1>5, <1>6 DEF MembershipStep
LEMMA ReceiveOrder ==
  ASSUME TypeOK, LinesInOrder, NEW n \in Node, ReceiveStep(n), StaysOwn(n)
  PROVE  LinesInOrder'
<1>1. /\ Alone(n) /\ late' = late /\ slice = "SEND" /\ turn # n
      /\ n \notin ran /\ n \in ran' /\ out'[n] = out[n]
      /\ turn \in Node /\ turn' = turn /\ slice' = slice
  BY DEF ReceiveStep, Alone, TypeOK
<1>2. Bounded(n) /\ Own(n) /\ NotSent /\ (n \notin late => InFile(n))
  BY DEF LinesInOrder
<1>3. NotSent'
  BY <1>1, <1>2 DEF NotSent, Alone
<1>4. \A s \in Node \ {turn} : view'[n].last[s] = view[n].last[s]
  BY <1>1, LineTypes DEF ReceiveStep
<1>5. \/ sock'[n] = <<>> /\ view'[n].last[turn] = Null
      \/ \E first \in FromSender(n) :
           /\ view'[n].last[turn] = sock[n][first].body
           /\ \A i \in DOMAIN sock'[n] :
                \E j \in DOMAIN sock[n] : sock'[n][i] = sock[n][j] /\ first < j
  <2>1. ASSUME NEW first \in FromSender(n),
               sock'[n] = SubSeq(sock[n], first + 1, Len(sock[n]))
        PROVE  \A i \in DOMAIN sock'[n] :
                 \E j \in DOMAIN sock[n] : sock'[n][i] = sock[n][j] /\ first < j
    <3>1. /\ sock[n] \in Seq(Message) /\ Len(sock[n]) \in Nat /\ first \in Nat
          /\ DOMAIN sock[n] = 1..Len(sock[n])
      BY LineTypes, LenProperties DEF FromSender
    <3>2. \A i \in DOMAIN sock'[n] :
            i + first \in DOMAIN sock[n] /\ sock'[n][i] = sock[n][i + first] /\ i \in Nat
      BY <2>1, <3>1, SubSequence
    <3>3. ASSUME NEW i \in DOMAIN sock'[n]
          PROVE  \E j \in DOMAIN sock[n] : sock'[n][i] = sock[n][j] /\ first < j
      <4> DEFINE j == i + first
      <4>1. SubSeq(sock[n], first + 1, Len(sock[n])) \in Seq(Message)
        <5>1. \A k \in (first + 1)..Len(sock[n]) : sock[n][k] \in Message
          BY <3>1, ElementOfSeq
        <5> QED
          BY <3>1, <5>1, SubSeqProperties
      <4>2. i \in 1..Len(sock'[n]) /\ Len(sock'[n]) \in Nat
        BY <2>1, <4>1, LenProperties
      <4>3. j \in DOMAIN sock[n] /\ sock'[n][i] = sock[n][j] /\ first < j
        BY <3>1, <3>2, <4>2
      <4> HIDE DEF j
      <4> QED
        BY <4>3
    <3> QED
      BY <3>3
  <2>2. CASE sock'[n] = <<>> /\ view'[n].last[turn] = Null
    BY <2>2
  <2>3. CASE \E first \in FromSender(n) :
               /\ sock'[n] = SubSeq(sock[n], first + 1, Len(sock[n]))
               /\ view'[n].last[turn] = sock[n][first].body
    <3>1. PICK first \in FromSender(n) :
               /\ sock'[n] = SubSeq(sock[n], first + 1, Len(sock[n]))
               /\ view'[n].last[turn] = sock[n][first].body
      BY <2>3
    <3>2. \A i \in DOMAIN sock'[n] :
            \E j \in DOMAIN sock[n] : sock'[n][i] = sock[n][j] /\ first < j
      BY <2>1, <3>1
    <3> HIDE <2>1
    <3> QED
      BY <3>1, <3>2
  <2>4. \/ sock'[n] = <<>> /\ view'[n].last[turn] = Null
        \/ \E first \in FromSender(n) :
               /\ sock'[n] = SubSeq(sock[n], first + 1, Len(sock[n]))
               /\ view'[n].last[turn] = sock[n][first].body
    BY DEF ReceiveStep
  <2> QED
    BY <2>2, <2>3, <2>4
<1>6. Bounded(n)'
  <2>1. \A s \in Node : view'[n].last[s] <= bcast
    <3>1. bcast \in Nat /\ Null <= bcast
      BY LineTypes DEF Null
    <3>2. view'[n].last[turn] <= bcast
      BY <1>2, <1>5, <3>1 DEF Bounded, FromSender
    <3> QED
      BY <1>2, <1>4, <3>2 DEF Bounded
  <2>2. \A i \in DOMAIN sock'[n] : sock'[n][i].body <= bcast
    BY <1>2, <1>5 DEF Bounded
  <2> QED
    BY <1>1, <1>2, <2>1, <2>2 DEF Bounded, Alone
<1>7. Own(n)'
  BY <1>1, <1>2, <1>4 DEF Own, StaysOwn, InitView
<1>8. ASSUME n \notin late
      PROVE  InFile(n)'
  <2>1. LeftOver(n) # turn /\ LeftOver(n)' = turn
    BY <1>1, LeftOverFacts DEF LeftOver, LastTurnOf
  <2>2. Leftovers(n) /\ Fresh(n) /\ Older(n) /\ Increasing(n)
    BY <1>2, <1>8 DEF InFile
  <2>3. \A i \in DOMAIN sock'[n] : sock'[n][i].nodeID = turn
    BY <1>1, <1>5, <2>2 DEF Leftovers, FromSender
  <2>4. Leftovers(n)'
    BY <1>1, <2>1, <2>3 DEF Leftovers
  <2>5. view'[n].last[turn] \in {Null, Empty, latest[turn]}
    BY <1>1, <1>5, <2>1, <2>2 DEF Leftovers, FromSender
  <2>6. Fresh(n)'
    BY <1>1, <1>4, <2>2, <2>5 DEF Fresh, Alone
  <2>7. Older(n)' /\ Increasing(n)'
    BY <1>1, <2>2 DEF Older, Increasing, Undec, Alone
  <2> QED
    BY <2>4, <2>6, <2>7 DEF InFile
<1> QED
  BY <1>1, <1>3, <1>6, <1>7, <1>8, AloneStep

LEMMA EndOrder ==
  ASSUME TypeOK, LinesInOrder, NEW n \in Node, Alone(n), Ends(n), late' = late,
         ran' = ran
  PROVE  LinesInOrder'
<1>1. Bounded(n) /\ NotSent /\ (n \notin late => InFile(n))
  BY DEF LinesInOrder
<1>2. NotSent'
  <2>1. turn \in Node /\ "MEMBER" # "INACTIVE"
    BY DEF TypeOK
  <2>2. turn = n => view'[turn].stage[turn] # "MEMBER"
    BY <2>1 DEF Ends, InitView
  <2> QED
    BY <1>1, <2>1, <2>2 DEF NotSent, Alone
<1> QED
  BY <1>1, <1>2, Ended, AloneStep DEF Alone

LEMMA StartOrder ==
  ASSUME TypeOK, NothingLeft, LinesInOrder, NEW n \in Node, Start(n)
  PROVE  LinesInOrder'
<1>1. view[n] = InitView /\ sock[n] = <<>>
  BY DEF Start, NothingLeft
<1>2. /\ Alone(n) /\ Ends(n) /\ late' = late
      /\ ran' \in {ran \ {n}, ran \cup {n}}
  BY <1>1 DEF Start, Alone, Ends
<1>3. Bounded(n) /\ NotSent /\ (n \notin late => InFile(n))
  BY DEF LinesInOrder
<1>4. NotSent'
  <2>1. turn \in Node /\ "MEMBER" # "INACTIVE"
    BY DEF TypeOK
  <2>2. turn = n => view'[turn].stage[turn] # "MEMBER"
    BY <1>2, <2>1 DEF Ends, InitView
  <2> QED
    BY <1>2, <1>3, <2>1, <2>2 DEF NotSent, Alone
<1> QED
  BY <1>2, <1>3, <1>4, Ended, AloneStep DEF Alone

LEMMA CrashOrder ==
  ASSUME TypeOK, LinesInOrder, NEW n \in Node, Crash(n)
  PROVE  LinesInOrder'
<1>1. ProcessEnds(n) /\ LosesOutput(n)
      /\ UNCHANGED <<turn, slice, ran, late, bcast, latest>>
  BY DEF Crash
<1> QED
  BY <1>1, EndsWhenProcessEnds, EndOrder DEF Alone

LEMMA OversleepOrder ==
  ASSUME TypeOK, LinesInOrder, NEW n \in Node, Oversleep(n)
  PROVE  LinesInOrder'
<1>1. /\ UNCHANGED <<view, sock, turn, slice, out, bcast, latest>>
      /\ ran' = ran \cup {n} /\ late' = late \cup {n}
  BY DEF Oversleep, proc, files
<1>2. Alone(n)
  BY <1>1 DEF Alone
<1>3. NotSent'
  BY <1>1 DEF LinesInOrder, NotSent
<1>4. Bounded(n)' /\ Own(n)'
  BY <1>1 DEF LinesInOrder, Bounded, Own
<1> QED
  BY <1>1, <1>2, <1>3, <1>4, AloneStep
LEMMA WaitBounds ==
  ASSUME TypeOK, slice = "SEND"
  PROVE  /\ Wait(turn) = AMOUNT_NODES
         /\ \A s \in Node : Wait(s) \in Int /\ Wait(s) <= AMOUNT_NODES
<1>1. turn \in Node
  BY DEF TypeOK
<1>2. \A s : Wait(s) = IF s > turn THEN s - turn ELSE s - turn + AMOUNT_NODES
  BY DEF Wait
<1> HIDE DEF Wait
<1> QED
  BY <1>1, <1>2, NodeFacts

LEMMA SendOrdered ==
  ASSUME TypeOK, LinesInOrder, NEW n \in Node, NEW msg, SendStep(n, msg)
  PROVE  Ordered'
<1>1. /\ slice = "SEND" /\ turn = n /\ UNCHANGED <<turn, slice>>
      /\ latest \in [Node -> Nat]
  <2>1. latest \in [Node -> Nat]
    BY DEF TypeOK, Body
  <2> QED
    BY <2>1 DEF SendStep
<1>2. /\ Wait(n) = AMOUNT_NODES /\ \A s \in Node : Wait(s) <= AMOUNT_NODES
      /\ \A s \in Node : Wait(s)' = Wait(s) /\ Wait(s) \in Int
  <2>1. \A s \in Node : Wait(s)' = Wait(s)
    BY <1>1 DEF Wait
  <2> QED
    BY <1>1, <2>1, WaitBounds
<1>3. Ordered /\ \A s \in Node : latest[s] <= bcast /\ bcast \in Nat
  BY LineTypes DEF LinesInOrder, Bounded
<1>4. CASE latest' = latest
  BY <1>2, <1>3, <1>4 DEF Ordered, Undec
<1>5. CASE latest' = [latest EXCEPT ![n] = msg.body] /\ msg.body \in {Empty, bcast + 1}
  <2> SUFFICES ASSUME NEW r \in Node, NEW s \in Node, latest'[r] # Empty,
                      latest'[s] # Empty, Wait(r) < Wait(s)
               PROVE  latest'[r] < latest'[s]
    BY <1>2 DEF Ordered, Undec
  <2>1. r # n
    BY <1>2, NodeFacts
  <2>2. CASE s = n
    BY <1>1, <1>3, <1>5, <2>1, <2>2
  <2>3. CASE s # n
    BY <1>1, <1>3, <1>5, <2>1, <2>3 DEF Ordered, Undec
  <2> QED
    BY <2>2, <2>3
<1> QED
  BY <1>4, <1>5 DEF SendStep

\* What a broadcast adds to a socket.
LEMMA Copies ==
  ASSUME NEW q \in Seq(Message), NEW msg \in Message
  PROVE  LET r == q \o <<msg, msg>>
         IN  \A i \in DOMAIN r :
               \/ i \in DOMAIN q /\ r[i] = q[i]
               \/ (\A j \in DOMAIN q : j < i) /\ r[i] = msg
<1> DEFINE c == <<msg, msg>>
           r == q \o c
<1>1. c \in Seq(Message) /\ Len(c) = 2 /\ c[1] = msg /\ c[2] = msg
  OBVIOUS
<1> HIDE DEF c
<1>2. /\ r \in Seq(Message) /\ Len(r) = Len(q) + 2
      /\ \A i \in 1..(Len(q) + 2) : r[i] = IF i <= Len(q) THEN q[i] ELSE c[i - Len(q)]
  <2>1. /\ q \o c \in Seq(Message)
        /\ Len(q \o c) = Len(q) + Len(c)
        /\ \A i \in 1..(Len(q) + Len(c)) :
             (q \o c)[i] = IF i <= Len(q) THEN q[i] ELSE c[i - Len(q)]
    BY <1>1, ConcatProperties
  <2> QED
    BY <1>1, <2>1
<1>3. Len(q) \in Nat /\ DOMAIN q = 1..Len(q) /\ DOMAIN r = 1..Len(r)
  BY <1>2, LenProperties
<1> HIDE DEF r
<1>4. ASSUME NEW i \in DOMAIN r
      PROVE  \/ i \in DOMAIN q /\ r[i] = q[i]
             \/ (\A j \in DOMAIN q : j < i) /\ r[i] = msg
  <2>1. i \in 1..(Len(q) + 2) /\ i \in Nat
    BY <1>2, <1>3
  <2>2. CASE i <= Len(q)
    BY <1>2, <1>3, <2>1, <2>2
  <2>3. CASE ~(i <= Len(q))
    <3>1. i - Len(q) = 1 \/ i - Len(q) = 2
      BY <1>3, <2>1, <2>3
    <3> QED
      BY <1>1, <1>2, <1>3, <2>1, <2>3, <3>1
  <2> QED
    BY <2>2, <2>3
<1> QED
  BY <1>4 DEF r, c
\* A message in a socket was there before the broadcast, or it is a copy of msg
\* behind all others.
LEMMA SentMessages ==
  ASSUME TypeOK, NEW n \in Node, NEW msg, SendStep(n, msg), NEW m \in Node
  PROVE  \A i \in DOMAIN sock'[m] :
           \/ i \in DOMAIN sock[m] /\ sock'[m][i] = sock[m][i]
           \/ (\A j \in DOMAIN sock[m] : j < i) /\ sock'[m][i] = msg /\ m # n
<1>1. CASE sock'[m] = sock[m]
  BY <1>1
<1>2. CASE m # n /\ sock'[m] = sock[m] \o <<msg, msg>>
  <2>1. sock[m] \in Seq(Message) /\ msg \in Message
    BY LineTypes DEF SendStep
  <2> QED
    BY <1>2, <2>1, Copies
<1> QED
  BY <1>1, <1>2 DEF SendStep

LEMMA SendLeftovers ==
  ASSUME TypeOK, NEW n \in Node, NEW msg, SendStep(n, msg), NEW m \in Node,
         Leftovers(m), NotSent
  PROVE  Leftovers(m)'
<1>1. /\ slice = "SEND" /\ turn = n /\ UNCHANGED <<turn, slice>> /\ n \notin ran
      /\ ran' = ran \cup {n} /\ msg.nodeID = n /\ turn \in Node
      /\ latest \in [Node -> Body]
  BY DEF SendStep, TypeOK
<1>2. LeftOver(m)' = LeftOver(m)
  <2>1. CASE m = n
    <3>1. Before(turn)' = Before(turn) /\ Before(turn) # turn
      BY <1>1, NodeFacts DEF Before
    <3>2. LeftOver(m)' = Before(turn)
      BY <1>1, <2>1, <3>1 DEF LeftOver, LastTurnOf, Before
    <3>3. LeftOver(m) = Before(turn)
      BY <1>1, <2>1, <3>1 DEF LeftOver, LastTurnOf
    <3> QED
      BY <3>2, <3>3
  <2>2. CASE m # n
    BY <1>1, <2>2 DEF LeftOver, LastTurnOf, Before
  <2> QED
    BY <2>1, <2>2
<1>3. latest[turn] \in {Empty, latest'[turn]} /\ msg.body \in {Empty, latest'[turn]}
  BY <1>1 DEF SendStep, NotSent
<1>4. ASSUME NEW i \in DOMAIN sock'[m]
      PROVE  \/ sock'[m][i].nodeID = LeftOver(m)'
             \/ /\ slice' = "SEND" /\ sock'[m][i].nodeID = turn' /\ turn' # m
                /\ sock'[m][i].body \in {Empty, latest'[turn']}
  <2>1. CASE i \in DOMAIN sock[m] /\ sock'[m][i] = sock[m][i]
    BY <1>1, <1>2, <1>3, <2>1 DEF Leftovers
  <2>2. CASE sock'[m][i] = msg /\ m # n
    BY <1>1, <1>3, <2>2
  <2> QED
    BY <2>1, <2>2, SentMessages
<1>5. ASSUME NEW i \in DOMAIN sock'[m], NEW j \in DOMAIN sock'[m],
             i < j, sock'[m][i].nodeID = turn
      PROVE  sock'[m][j].nodeID = turn
  <2>1. CASE j \in DOMAIN sock[m] /\ sock'[m][j] = sock[m][j]
    <3>1. i \in DOMAIN sock[m] /\ sock'[m][i] = sock[m][i]
      <4>1. DOMAIN sock[m] \subseteq Nat /\ DOMAIN sock'[m] \subseteq Int
        <5>1. sock[m] \in Seq(Message) /\ msg \in Message
          BY LineTypes DEF SendStep
        <5>2. <<msg, msg>> \in Seq(Message)
          BY <5>1
        <5>3. sock'[m] \in Seq(Message)
          <6>1. sock[m] \o <<msg, msg>> \in Seq(Message)
            BY <5>1, <5>2, ConcatProperties
          <6> QED
            BY <5>1, <6>1 DEF SendStep
        <5> QED
          BY <5>1, <5>3, LenProperties
      <4> QED
        BY <1>5, <2>1, <4>1, SentMessages
    <3> QED
      BY <1>1, <1>5, <2>1, <3>1 DEF Leftovers
  <2>2. CASE sock'[m][j] = msg
    BY <1>1, <2>2
  <2> QED
    BY <2>1, <2>2, SentMessages
<1> QED
  BY <1>1, <1>4, <1>5 DEF Leftovers

LEMMA SendOrder ==
  ASSUME TypeOK, LinesInOrder, NEW n \in Node, NEW msg, SendStep(n, msg), StaysOwn(n)
  PROVE  LinesInOrder'
<1>1. /\ slice = "SEND" /\ turn = n /\ UNCHANGED <<turn, slice, late, out>>
      /\ n \notin ran /\ ran' = ran \cup {n} /\ turn \in Node
      /\ \A m \in Node \ {n} : view'[m] = view[m]
  BY DEF SendStep
<1>2. /\ NotSent /\ \A m \in Node : Bounded(m) /\ Own(m)
      /\ \A m \in Node \ late : InFile(m)
  BY DEF LinesInOrder
<1>3. NotSent'
  BY <1>1 DEF NotSent
<1>4. /\ \A s \in Node \ {n} : latest'[s] = latest[s]
      /\ \A s \in Node \ {n} : view'[n].last[s] = view[n].last[s]
      /\ latest'[n] \in {latest[n], msg.body}
      /\ view'[n].last[n] \in {view[n].last[n], msg.body}
      /\ msg.body <= bcast' /\ bcast <= bcast' /\ bcast \in Nat /\ bcast' \in Nat
  <2>1. /\ latest \in [Node -> Body] /\ bcast \in Nat
        /\ view[n].last \in [Node -> Body \cup {Null}]
    BY LineTypes DEF TypeOK
  <2> QED
    BY <2>1 DEF SendStep, Empty
<1>5. ASSUME NEW m \in Node
      PROVE  Bounded(m)'
  <2>1. latest'[m] <= bcast'
    <3>1. latest[m] \in Nat /\ latest[m] <= bcast
      BY <1>2, LineTypes DEF Bounded
    <3>2. latest'[m] \in {latest[m], msg.body}
      BY <1>4
    <3> QED
      BY <1>4, <3>1, <3>2
  <2>2. ASSUME NEW s \in Node
        PROVE  view'[m].last[s] <= bcast'
    <3>1. view[m].last[s] \in Int /\ view[m].last[s] <= bcast
      BY <1>2, LineTypes DEF Bounded
    <3>2. view'[m].last[s] \in {view[m].last[s], msg.body}
      BY <1>1, <1>4
    <3> QED
      BY <1>4, <3>1, <3>2
  <2>3. \A i \in DOMAIN sock'[m] : sock'[m][i].body <= bcast'
    <3>1. \A i \in DOMAIN sock[m] : sock[m][i].body \in Nat /\ sock[m][i].body <= bcast
      BY <1>2, LineTypes DEF Bounded
    <3>2. \A i \in DOMAIN sock'[m] :
            sock'[m][i] = msg \/ (i \in DOMAIN sock[m] /\ sock'[m][i] = sock[m][i])
      BY SentMessages
    <3> QED
      BY <1>4, <3>1, <3>2
  <2>4. \A i \in DOMAIN out'[m] : out'[m][i] \in 1..bcast'
    BY <1>1, <1>2, <1>4, LineTypes DEF Bounded
  <2> QED
    BY <2>1, <2>2, <2>3, <2>4 DEF Bounded
<1>6. ASSUME NEW m \in Node
      PROVE  Own(m)'
  <2>1. CASE m # n
    BY <1>1, <1>2, <2>1 DEF Own
  <2>2. CASE m = n /\ view[n].stage[n] # "MEMBER"
    <3>1. view'[n].last = view[n].last
      BY <2>2 DEF SendStep
    <3> QED
      BY <1>2, <2>2, <3>1 DEF Own
  <2>3. CASE m = n /\ view[n].stage[n] = "MEMBER"
    BY <2>3 DEF Own, StaysOwn, InitView
  <2> QED
    BY <2>1, <2>2, <2>3
<1>7. ASSUME NEW m \in Node \ late
      PROVE  InFile(m)'
  <2>1. InFile(m) /\ Bounded(m)
    BY <1>2
  <2>2. Leftovers(m)'
    BY <1>2, <2>1, SendLeftovers DEF InFile
  <2>3. latest'[n] \in {latest[n], bcast + 1, Empty}
    BY <1>1, <1>2 DEF SendStep, TypeOK
  <2>4. Older(m)'
    <3>1. \A i \in DOMAIN out[m] : out[m][i] < bcast + 1
      BY <1>4, <2>1, LineTypes DEF Bounded
    <3> QED
      BY <1>1, <1>4, <2>1, <2>3, <3>1 DEF InFile, Older, Undec
  <2>5. Increasing(m)'
    BY <1>1, <2>1 DEF InFile, Increasing
  <2>6. Fresh(m)'
    <3> SUFFICES ASSUME NEW s \in Node, ~(s = turn' /\ slice' = "SEND" /\ m \notin ran')
                 PROVE  view'[m].last[s] \in {Null, Empty, latest'[s]}
      BY DEF Fresh
    <3>1. CASE s # n
      BY <1>1, <1>4, <2>1, <3>1 DEF InFile, Fresh
    <3>2. CASE s = n /\ m # n
      <4>1. view'[m].last[s] \in {Null, Empty, latest[s]}
        BY <1>1, <2>1, <3>2 DEF InFile, Fresh
      <4>2. latest[s] \in {Empty, latest'[s]}
        BY <1>1, <1>2, <3>2 DEF SendStep, NotSent
      <4> QED
        BY <4>1, <4>2
    <3>3. CASE s = n /\ m = n
      <4>1. CASE view[n].stage[n] # "MEMBER"
        BY <1>2, <3>3, <4>1 DEF SendStep, Own
      <4>2. CASE view[n].stage[n] = "MEMBER"
        <5>1. latest \in [Node -> Body] /\ view[n].last \in [Node -> Body \cup {Null}]
          BY LineTypes DEF TypeOK
        <5>2. view'[n].last[n] = latest'[n]
          BY <4>2, <5>1 DEF SendStep
        <5> QED
          BY <3>3, <5>2
      <4> QED
        BY <4>1, <4>2
    <3> QED
      BY <3>1, <3>2, <3>3
  <2> QED
    BY <2>2, <2>4, <2>5, <2>6 DEF InFile
<1> QED
  BY <1>1, <1>3, <1>5, <1>6, <1>7, SendOrdered DEF LinesInOrder
-----------------------------------------------------------------------------
(* The clocks move on                                                       *)

LEMMA SliceChange ==
  ASSUME TypeOK, NothingLeft, SleepersLate, NextSlice
  PROVE  /\ UNCHANGED <<view, sock, out, late, bcast>>
         /\ \A n \in Node \ late : n \notin ran'
         /\ slice # "PAUSE" =>
              \A n \in Node : n \notin ran => view[n] = InitView /\ sock[n] = <<>>
         /\ \/ /\ slice = "MEMBERSHIP" /\ slice' = "SEND" /\ turn' = turn
               /\ latest' = [latest EXCEPT ![turn] = Empty]
            \/ slice = "SEND" /\ slice' = "PAUSE" /\ UNCHANGED <<turn, latest>>
            \/ /\ slice = "PAUSE" /\ slice' = "MEMBERSHIP" /\ latest' = latest
               /\ turn' = IF turn = AMOUNT_NODES - 1 THEN 0 ELSE turn + 1
<1>1. \A n \in Node \ late : n \notin ran'
  BY DEF NextSlice, SleepersLate
<1>2. slice # "PAUSE" =>
        \A n \in Node : n \notin ran => view[n] = InitView /\ sock[n] = <<>>
  BY DEF NextSlice, AllRan, NothingLeft
<1> QED
  BY <1>1, <1>2 DEF NextSlice, files

LEMMA DecidedOrder ==
  ASSUME TypeOK, LinesInOrder, NEW n \in Node \ late, n \notin ran',
         UNCHANGED <<view, sock, out, turn>>, slice = "MEMBERSHIP", slice' = "SEND",
         latest' = [latest EXCEPT ![turn] = Empty]
  PROVE  InFile(n)'
<1>1. InFile(n) /\ turn \in Node /\ latest \in [Node -> Body]
  BY DEF LinesInOrder, TypeOK
<1>2. Leftovers(n)'
  <2>1. LeftOver(n)' = LeftOver(n) /\ LeftOver(n) # turn
    BY LeftOverFacts DEF LeftOver, LastTurnOf, Before
  <2> QED
    BY <1>1, <2>1 DEF InFile, Leftovers
<1>3. Fresh(n)'
  <2>1. \A s \in Node : view[n].last[s] \in {Null, Empty, latest[s]}
    BY <1>1 DEF InFile, Fresh
  <2>2. \A s \in Node \ {turn} : view'[n].last[s] \in {Null, Empty, latest'[s]}
    BY <1>1, <2>1
  <2> QED
    BY <2>2 DEF Fresh
<1>4. Older(n)'
  BY <1>1 DEF InFile, Older, Undec
<1>5. Increasing(n)'
  BY <1>1 DEF InFile, Increasing
<1> QED
  BY <1>2, <1>3, <1>4, <1>5 DEF InFile

LEMMA SentOrder ==
  ASSUME TypeOK, LinesInOrder, NEW n \in Node \ late,
         n \notin ran => view[n] = InitView /\ sock[n] = <<>>,
         UNCHANGED <<view, sock, out, turn, latest>>, slice = "SEND", slice' = "PAUSE"
  PROVE  InFile(n)'
<1>1. InFile(n) /\ turn \in Node
  BY DEF LinesInOrder, TypeOK
<1>2. Leftovers(n)'
  <2>1. CASE n \notin ran
    BY <2>1 DEF Leftovers
  <2>2. CASE n \in ran
    <3>1. LeftOver(n)' = LeftOver(n) /\ (turn # n => LeftOver(n) = turn)
      BY <2>2 DEF LeftOver, LastTurnOf, Before
    <3> QED
      BY <1>1, <3>1 DEF InFile, Leftovers
  <2> QED
    BY <2>1, <2>2
<1>3. Fresh(n)'
  BY <1>1 DEF InFile, Fresh, InitView
<1>4. Older(n)'
  BY <1>1 DEF InFile, Older, Undec
<1>5. Increasing(n)'
  BY <1>1 DEF InFile, Increasing
<1> QED
  BY <1>2, <1>3, <1>4, <1>5 DEF InFile

LEMMA NextTurnOrder ==
  ASSUME TypeOK, LinesInOrder, NEW n \in Node \ late,
         UNCHANGED <<view, sock, out, latest>>, slice = "PAUSE", slice' = "MEMBERSHIP",
         turn' = IF turn = AMOUNT_NODES - 1 THEN 0 ELSE turn + 1
  PROVE  InFile(n)'
<1>1. InFile(n) /\ turn \in Node
  BY DEF LinesInOrder, TypeOK
<1>2. Leftovers(n)'
  <2>1. Before(turn') = turn
    BY <1>1, NodeFacts DEF Before
  <2>2. LeftOver(n)' = LeftOver(n)
    <3>1. LastTurnOf(n)' = turn /\ LastTurnOf(n) = turn
      BY <2>1 DEF LastTurnOf, Before
    <3> QED
      BY <3>1 DEF LeftOver, Before
  <2> QED
    BY <1>1, <2>2 DEF InFile, Leftovers
<1>3. Fresh(n)'
  BY <1>1 DEF InFile, Fresh
<1>4. Older(n)'
  BY <1>1 DEF InFile, Older, Undec
<1>5. Increasing(n)'
  BY <1>1 DEF InFile, Increasing
<1> QED
  BY <1>2, <1>3, <1>4, <1>5 DEF InFile

\* Every line waits one turn less when the next turn begins.
LEMMA WaitShrinks ==
  ASSUME TypeOK, slice = "PAUSE", slice' = "MEMBERSHIP",
         turn' = IF turn = AMOUNT_NODES - 1 THEN 0 ELSE turn + 1
  PROVE  \A s \in Node : Wait(s) \in Int /\ Wait(s)' = Wait(s) - 1
<1>1. turn \in Node
  BY DEF TypeOK
<1>2. \A s : Wait(s) = IF s > turn THEN s - turn ELSE s - turn + AMOUNT_NODES
  BY DEF Wait
<1>3. \A s : Wait(s)' = IF s > turn' \/ s = turn' THEN s - turn'
                                                  ELSE s - turn' + AMOUNT_NODES
  BY DEF Wait
<1> HIDE DEF Wait
<1>4. \A s \in Node : Wait(s) \in Int
  BY <1>1, <1>2, NodeFacts
<1>5. CASE turn = AMOUNT_NODES - 1
  BY <1>1, <1>2, <1>3, <1>5, NodeFacts
<1>6. CASE turn # AMOUNT_NODES - 1
  BY <1>1, <1>2, <1>3, <1>6, NodeFacts
<1> QED
  BY <1>4, <1>5, <1>6

LEMMA SliceOrder ==
  ASSUME TypeOK, NothingLeft, SleepersLate, LinesInOrder, NextSlice
  PROVE  LinesInOrder'
<1>1. /\ Ordered /\ \A n \in Node : Bounded(n) /\ Own(n)
      /\ turn \in Node /\ latest \in [Node -> Body] /\ bcast \in Nat
  BY DEF LinesInOrder, TypeOK
<1>2. UNCHANGED <<view, sock, out, late, bcast>>
  BY SliceChange
<1>3. ASSUME NEW n \in Node
      PROVE  Bounded(n)' /\ Own(n)'
  <2>1. latest'[n] \in {latest[n], Empty}
    BY <1>1, SliceChange
  <2> QED
    BY <1>1, <1>2, <2>1 DEF Bounded, Own, Empty
<1>4. CASE slice = "MEMBERSHIP" /\ slice' = "SEND" /\ turn' = turn
           /\ latest' = [latest EXCEPT ![turn] = Empty]
  <2>1. Ordered'
    <3>1. \A s \in Node \ {turn} : Wait(s)' = Wait(s)
      BY <1>4 DEF Wait
    <3> QED
      BY <1>1, <1>4, <3>1 DEF Ordered, Undec
  <2>2. NotSent'
    BY <1>1, <1>4 DEF NotSent
  <2>3. \A n \in Node \ late : InFile(n)'
    BY <1>2, <1>4, SliceChange, DecidedOrder
  <2> QED
    BY <1>2, <1>3, <2>1, <2>2, <2>3 DEF LinesInOrder
<1>5. CASE slice = "SEND" /\ slice' = "PAUSE" /\ UNCHANGED <<turn, latest>>
  <2>1. Ordered'
    <3>1. \A s \in Node : Wait(s)' = Wait(s)
      BY <1>5 DEF Wait
    <3> QED
      BY <1>1, <1>5, <3>1 DEF Ordered, Undec
  <2>2. NotSent'
    BY <1>5 DEF NotSent
  <2>3. \A n \in Node \ late : InFile(n)'
    BY <1>2, <1>5, SliceChange, SentOrder
  <2> QED
    BY <1>2, <1>3, <2>1, <2>2, <2>3 DEF LinesInOrder
<1>6. CASE slice = "PAUSE" /\ slice' = "MEMBERSHIP" /\ latest' = latest
           /\ turn' = IF turn = AMOUNT_NODES - 1 THEN 0 ELSE turn + 1
  <2>1. Ordered'
    <3>1. \A r, s \in Node : Wait(r)' < Wait(s)' => Wait(r) < Wait(s)
      BY <1>6, WaitShrinks
    <3> QED
      BY <1>1, <1>6, <3>1 DEF Ordered, Undec
  <2>2. NotSent'
    BY <1>6 DEF NotSent
  <2>3. \A n \in Node \ late : InFile(n)'
    BY <1>2, <1>6, NextTurnOrder
  <2> QED
    BY <1>2, <1>3, <2>1, <2>2, <2>3 DEF LinesInOrder
<1> QED
  BY <1>4, <1>5, <1>6, SliceChange
-----------------------------------------------------------------------------
(* The theorems                                                             *)

LEMMA InitOrder == Init => LinesInOrder
<1> SUFFICES ASSUME Init PROVE LinesInOrder
  OBVIOUS
<1>1. Ordered
  BY DEF Init, Ordered, Undec
<1>2. NotSent
  BY DEF Init, NotSent
<1>3. ASSUME NEW n \in Node
      PROVE  Bounded(n) /\ Own(n) /\ InFile(n)
  <2>1. view[n] = InitView /\ sock[n] = <<>> /\ out[n] = <<>> /\ latest[n] = Empty
        /\ bcast = 0
    BY DEF Init
  <2>2. Bounded(n)
    BY <2>1 DEF Bounded, InitView, Empty, Null
  <2>3. Own(n)
    BY <2>1 DEF Own, InitView
  <2>4. Leftovers(n)
    BY <2>1 DEF Leftovers
  <2>5. Fresh(n)
    BY <2>1 DEF Fresh, InitView
  <2>6. Older(n) /\ Increasing(n)
    BY <2>1 DEF Older, Increasing
  <2> QED
    BY <2>2, <2>3, <2>4, <2>5, <2>6 DEF InFile
<1> QED
  BY <1>1, <1>2, <1>3 DEF LinesInOrder

LEMMA LinesStep ==
  ASSUME TypeOK, NothingLeft, SleepersLate, LinesInOrder, [Next]_vars
  PROVE  LinesInOrder'
<1>1. ASSUME NEW n \in Node, Next
      PROVE  StaysOwn(n)
  <2>1. NothingLeft' /\ StaysMember(n)
    BY <1>1, NothingLeftStep, NextStays
  <2>2. CASE up[n] /\ up'[n]
    BY <2>1, <2>2 DEF StaysOwn, StaysMember, IsMember
  <2>3. CASE ~up[n]
    BY <2>3 DEF NothingLeft, StaysOwn, InitView
  <2>4. CASE ~up'[n]
    BY <2>1, <2>4 DEF NothingLeft, StaysOwn
  <2> QED
    BY <2>2, <2>3, <2>4
<1>2. ASSUME NEW n \in Node, Handler(n)
      PROVE  LinesInOrder'
  <2>1. StaysOwn(n)
    BY <1>1, <1>2 DEF Next
  <2>2. CASE EnterMembership(n) \/ MembershipDecision(n) \/ NoDecision(n)
    BY <2>1, <2>2, EnterMembershipLines, MembershipDecisionLines, NoDecisionLines,
       MembershipOrder
  <2>3. CASE SendMessage(n) \/ SendInit(n) \/ SendNothing(n)
    BY <2>1, <2>3, SendMessageLines, SendInitLines, SendOrder
  <2>4. CASE ReceiveMessage(n) \/ ReceiveNothing(n)
    BY <2>1, <2>4, ReceiveMessageLines, ReceiveNothingLines, ReceiveOrder
  <2> QED
    BY <1>2, <2>2, <2>3, <2>4 DEF Handler
<1>3. CASE UNCHANGED vars
  <2>1. UNCHANGED <<view, sock, out, turn, slice, ran, late, bcast, latest>>
    BY <1>3 DEF vars, proc, clock, files, hazards
  <2>2. Ordered' /\ NotSent'
    BY <2>1 DEF LinesInOrder, Ordered, NotSent, Undec, Wait
  <2>3. \A n \in Node : Bounded(n)' /\ Own(n)'
    BY <2>1, Untouched DEF LinesInOrder
  <2>4. \A n \in Node \ late' : InFile(n)'
    BY <2>1, Untouched DEF LinesInOrder
  <2> QED
    BY <2>2, <2>3, <2>4 DEF LinesInOrder
<1> QED
  BY <1>2, <1>3, SliceOrder, StartOrder, CrashOrder, OversleepOrder DEF Next

\* TypeOK, NothingLeft and SleepersLate say what the proof needs to know about
\* the rest of the state.
OrderInv == TypeOK /\ NothingLeft /\ SleepersLate /\ LinesInOrder

LEMMA OrderInvariant == Spec => []OrderInv
<1>1. Init => OrderInv
  BY InitType, InitHeld, InitOrder DEF OrderInv
<1>2. OrderInv /\ [Next]_vars => OrderInv'
  BY NextType, NothingLeftStep, SleepersLateStep, LinesStep DEF OrderInv
<1> QED
  BY <1>1, <1>2, PTL DEF Spec

\* The output files of nodes that have never been late list the lines in the
\* order of their broadcasts, none twice, whatever else fails and however
\* often nodes are started again (deliver_message).
THEOREM FilesInOrder == Spec => []TotalOrder
<1>1. OrderInv => TotalOrder
  BY DEF OrderInv, LinesInOrder, InFile, Increasing, TotalOrder, TOB!TotalOrder
<1> QED
  BY <1>1, OrderInvariant, PTL
-----------------------------------------------------------------------------
(* The protocol implements TotalOrderBroadcast.                             *)

Pending == {latest[s] : s \in Node} \ {Empty}

LEMMA TurnIsOldest ==
  ASSUME TypeOK, LinesInOrder, slice = "MEMBERSHIP", Undec(turn)
  PROVE  TOB!Oldest(latest[turn])
<1>1. turn \in Node /\ latest[turn] \in Pending
  BY DEF TypeOK, Pending, Undec
<1>2. ASSUME NEW other \in Pending
      PROVE  latest[turn] <= other
  <2>1. PICK s \in Node : other = latest[s] /\ Undec(s)
    BY <1>2 DEF Pending, Undec
  <2> QED
    BY <1>1, <2>1, OldestFirst, LineTypes
<1> QED
  BY <1>1, <1>2 DEF TOB!Oldest, Pending

LEMMA OneFile ==
  ASSUME TypeOK, out' \in [Node -> Seq(Nat)], NEW n \in Node,
         \A m \in Node \ {n} : out'[m] = out[m]
  PROVE  out' = [out EXCEPT ![n] = out'[n]]
BY DEF TypeOK

LEMMA EndsRefines ==
  ASSUME TypeOK, out' \in [Node -> Seq(Nat)], NEW n \in Node, Alone(n), Ends(n),
         late' = late
  PROVE  [TOB!Next]_(TOB!vars)
<1>1. /\ \A m \in Node \ {n} : out'[m] = out[m]
      /\ UNCHANGED <<bcast, latest, late>>
  BY DEF Alone
<1>2. out' = [out EXCEPT ![n] = out'[n]]
  BY <1>1, OneFile
<1>3. CASE out'[n] = out[n]
  <2>1. out' = out
    BY <1>2, <1>3 DEF TypeOK
  <2> QED
    BY <1>1, <2>1 DEF TOB!vars
<1>4. CASE \E k \in 0..Len(out[n]) : out'[n] = SubSeq(out[n], 1, k)
  <2>1. TOB!Lose(n)
    BY <1>1, <1>2, <1>4 DEF TOB!Lose
  <2> QED
    BY <2>1 DEF TOB!Next
<1> QED
  BY <1>3, <1>4 DEF Ends

LEMMA MembershipRefines ==
  ASSUME TypeOK, LinesInOrder, out' \in [Node -> Seq(Nat)],
         NEW n \in Node, MembershipStep(n)
  PROVE  [TOB!Next]_(TOB!vars)
<1>1. /\ Alone(n) /\ slice = "MEMBERSHIP" /\ turn \in Node
      /\ UNCHANGED <<bcast, latest, late>> /\ \A m \in Node \ {n} : out'[m] = out[m]
  BY DEF MembershipStep, Alone, TypeOK
<1>2. out' = [out EXCEPT ![n] = out'[n]]
  BY <1>1, OneFile
<1>3. CASE Ends(n)
  BY <1>1, <1>3, EndsRefines
<1>4. CASE Keeps(n)
  <2>1. out' = out
    BY <1>2, <1>4 DEF Keeps, TypeOK
  <2> QED
    BY <1>1, <2>1 DEF TOB!vars
<1>5. CASE Delivery(n) /\ n \notin late
  <2>1. /\ view[n].last[turn] = latest[turn] /\ Undec(turn)
        /\ \A i \in DOMAIN out[n] : out[n][i] < latest[turn]
    BY <1>1, <1>5, DeliveryInOrder
  <2>2. TOB!Oldest(latest[turn])
    BY <1>1, <2>1, TurnIsOldest
  <2>3. latest[turn] \notin TOB!Delivered(n)
    BY <1>1, <2>1, LineTypes DEF TOB!Delivered
  <2>4. out' = [out EXCEPT ![n] = Append(@, latest[turn])]
    BY <1>2, <1>5, <2>1 DEF Delivery
  <2>5. TOB!Deliver(n)
    <3> DEFINE line == latest[turn]
    <3>1. line \in {latest[s] : s \in Node} \ {Empty}
      BY <2>2 DEF TOB!Oldest
    <3>2. UNCHANGED <<bcast, {latest[s] : s \in Node} \ {Empty}, late>>
      BY <1>1
    <3>3. TOB!Oldest(line) /\ line \notin TOB!Delivered(n)
          /\ out' = [out EXCEPT ![n] = Append(@, line)]
      BY <2>2, <2>3, <2>4
    <3> HIDE DEF line
    <3> QED
      BY <3>1, <3>2, <3>3, Zenon DEF TOB!Deliver
  <2> QED
    BY <2>5 DEF TOB!Next
<1>6. CASE Delivery(n) /\ n \in late
  <2>1. view[n].last[turn] \in 1..bcast
    BY <1>1, <1>6, LineTypes DEF Delivery, LinesInOrder, Bounded, Body, Null, Empty
  <2>2. out' = [out EXCEPT ![n] = Append(@, view[n].last[turn])]
    BY <1>2, <1>6 DEF Delivery
  <2>3. TOB!Stray(n)
    BY <1>1, <1>6, <2>1, <2>2 DEF TOB!Stray
  <2> QED
    BY <2>3 DEF TOB!Next
<1> QED
  BY <1>3, <1>4, <1>5, <1>6 DEF MembershipStep

LEMMA SendRefines ==
  ASSUME TypeOK, LinesInOrder, NEW n \in Node, NEW msg, SendStep(n, msg)
  PROVE  [TOB!Next]_(TOB!vars)
<1>1. UNCHANGED <<out, late>> /\ latest \in [Node -> Body]
  BY DEF SendStep, TypeOK
<1>2. CASE latest' = latest /\ bcast' = bcast
  BY <1>1, <1>2 DEF TOB!vars
<1>3. CASE view[n].stage[n] = "MEMBER"
  <2>1. latest[n] = Empty
    BY <1>3 DEF SendStep, LinesInOrder, NotSent
  <2>2. CASE msg.body = Empty
    BY <1>1, <1>2, <2>1, <2>2, LineTypes DEF SendStep, Empty
  <2>3. CASE msg.body = bcast + 1
    <3>1. bcast' = bcast + 1 /\ latest' = [latest EXCEPT ![n] = bcast + 1]
          /\ bcast + 1 # Empty
      BY <1>3, <2>3, LineTypes DEF SendStep, Empty
    <3>2. {latest'[s] : s \in Node} \ {Empty}
            = ({latest[s] : s \in Node} \ {Empty}) \cup {bcast + 1}
      BY <1>1, <2>1, <3>1
    <3>3. TOB!Broadcast
      BY <1>1, <3>1, <3>2 DEF TOB!Broadcast
    <3> QED
      BY <3>3 DEF TOB!Next
  <2> QED
    BY <1>3, <2>2, <2>3 DEF SendStep
<1> QED
  BY <1>2, <1>3 DEF SendStep

LEMMA SliceRefines ==
  ASSUME TypeOK, NothingLeft, SleepersLate, LinesInOrder, NextSlice
  PROVE  [TOB!Next]_(TOB!vars)
<1>1. UNCHANGED <<out, late, bcast>> /\ latest \in [Node -> Body] /\ turn \in Node
  BY SliceChange DEF TypeOK
<1>2. CASE latest' = latest
  BY <1>1, <1>2 DEF TOB!vars
<1>3. CASE slice = "MEMBERSHIP" /\ latest' = [latest EXCEPT ![turn] = Empty]
  <2>1. CASE latest[turn] = Empty
    BY <1>1, <1>2, <1>3, <2>1
  <2>2. CASE latest[turn] # Empty
    <3>1. TOB!Oldest(latest[turn])
      BY <1>3, <2>2, TurnIsOldest DEF Undec
    <3>2. \A s \in Node \ {turn} : latest[s] # latest[turn]
      BY <1>1, <1>3, <2>2, OldestFirst, LineTypes DEF Undec
    <3>3. {latest'[s] : s \in Node} \ {Empty}
            = ({latest[s] : s \in Node} \ {Empty}) \ {latest[turn]}
      BY <1>1, <1>3, <3>2
    <3>4. TOB!Decide
      BY <1>1, <3>1, <3>3 DEF TOB!Decide, TOB!Oldest
    <3> QED
      BY <3>4 DEF TOB!Next
  <2> QED
    BY <2>1, <2>2
<1> QED
  BY <1>2, <1>3, SliceChange

\* Every step of the protocol is one of the service: a broadcast, a delivery
\* of the oldest undecided line, a decision, the loss of the end of a file, or
\* a step of a node that has been late.
THEOREM ImplementsBroadcast == Spec => ImplementsTOB
<1>1. Init => TOB!Init
  BY DEF Init, TOB!Init
<1>2. OrderInv /\ OrderInv' /\ [Next]_vars => [TOB!Next]_(TOB!vars)
  <2> SUFFICES ASSUME OrderInv, OrderInv', [Next]_vars
               PROVE  [TOB!Next]_(TOB!vars)
    OBVIOUS
  <2>1. /\ TypeOK /\ NothingLeft /\ SleepersLate /\ LinesInOrder
        /\ out \in [Node -> Seq(Nat)] /\ out' \in [Node -> Seq(Nat)]
    BY DEF OrderInv, TypeOK
  <2>2. ASSUME NEW n \in Node, EnterMembership(n) \/ MembershipDecision(n) \/ NoDecision(n)
        PROVE  [TOB!Next]_(TOB!vars)
    BY <2>1, <2>2, EnterMembershipLines, MembershipDecisionLines, NoDecisionLines,
       MembershipRefines
  <2>3. ASSUME NEW n \in Node, SendMessage(n) \/ SendInit(n) \/ SendNothing(n)
        PROVE  [TOB!Next]_(TOB!vars)
    BY <2>1, <2>3, SendMessageLines, SendInitLines, SendRefines
  <2>4. ASSUME NEW n \in Node, ReceiveMessage(n) \/ ReceiveNothing(n) \/ Start(n)
        PROVE  [TOB!Next]_(TOB!vars)
    BY <2>4 DEF ReceiveMessage, ReceiveNothing, Receives, Wakes, Start, TOB!vars
  <2>5. ASSUME NEW n \in Node, Crash(n)
        PROVE  [TOB!Next]_(TOB!vars)
    BY <2>1, <2>5, EndsWhenProcessEnds, EndsRefines DEF Crash, Alone
  <2>6. ASSUME NEW n \in Node, Oversleep(n)
        PROVE  [TOB!Next]_(TOB!vars)
    <3>1. TOB!GoesLate(n)
      BY <2>6 DEF Oversleep, files, TOB!GoesLate
    <3> QED
      BY <3>1 DEF TOB!Next
  <2>7. CASE UNCHANGED vars
    BY <2>7 DEF vars, files, hazards, TOB!vars
  <2> QED
    BY <2>1, <2>2, <2>3, <2>4, <2>5, <2>6, <2>7, SliceRefines DEF Next, Handler
<1> QED
  BY <1>1, <1>2, OrderInvariant, PTL DEF Spec, ImplementsTOB, TOB!Spec
=============================================================================
