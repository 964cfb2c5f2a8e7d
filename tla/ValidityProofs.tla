---------------------------- MODULE ValidityProofs ----------------------------
(***************************************************************************)
(* The theorem that a correct sender delivers its own lines, whatever      *)
(* happens to the other processes and at whatever moment.                  *)
(***************************************************************************)
EXTENDS TotalOrderProofs

-----------------------------------------------------------------------------
(* The invariant                                                            *)

\* Who sleeps is in the middle of its failure: it runs no handler.
Sleepers == \A n \in Node : asleep[n] > 0 => up[n] /\ n \in ran /\ n \in faulty

\* The line of an earlier process of the node is decided before the process
\* that came after it sends for the first time.
Reborn ==
  /\ slice = "SEND" /\ up[turn] /\ turn \notin ran /\ age[turn] > 0
       => latest[turn] = Empty
  /\ \A n \in Node : view[n].stage[n] = "ACTIVE" => latest[n] = Empty

\* A member keeps its own line until it decides about it, and then delivers it
\* unless the membership is too small.
OwnLine(n) ==
  IsMember(n) /\ n \notin faulty /\ latest[n] # Empty =>
    IF slice = "MEMBERSHIP" /\ turn = n /\ n \in ran
    THEN view[n].count < MIN_MEMBERS \/ latest[n] \in Delivered(n)
    ELSE view[n].last[n] = latest[n]

OwnLines == \A n \in Node : OwnLine(n)

-----------------------------------------------------------------------------
(* Handlers                                                                 *)

\* What every handler of a process leaves alone.
Frame(n) ==
  /\ up[n] /\ n \notin ran /\ ran' = ran \cup {n}
  /\ UNCHANGED <<turn, slice, asleep>> /\ faulty \subseteq faulty'
  /\ ~up'[n] \/ UNCHANGED <<up, age>>
  /\ \A m \in Node \ {n} : /\ up'[m] = up[m] /\ age'[m] = age[m]
                           /\ view'[m] = view[m] /\ out'[m] = out[m]
                           /\ latest'[m] = latest[m]

LEMMA EndsFrame ==
  ASSUME TypeOK, NEW n \in Node, ProcessEnds(n)
  PROVE  /\ up'[n] = FALSE
         /\ \A m \in Node \ {n} : up'[m] = up[m] /\ age'[m] = age[m]
BY DEF ProcessEnds, TypeOK

LEMMA BroadcastFrame ==
  ASSUME NEW n, NEW msg, BroadcastMessage(n, msg)
  PROVE  faulty \subseteq faulty'
BY DEF BroadcastMessage, Heard, Fail

LEMMA HandlerFrame ==
  ASSUME TypeOK, NEW n \in Node, Handler(n)
  PROVE  Frame(n)
<1>1. ASSUME NEW s, Wakes(n, s), UNCHANGED <<faulty, latest>>,
             ProcessEnds(n) \/ UNCHANGED <<up, age>>,
             \A m \in Node \ {n} : view'[m] = view[m] /\ out'[m] = out[m]
      PROVE  Frame(n)
  BY <1>1, EndsFrame DEF Frame, Wakes
<1>2. CASE EnterMembership(n) \/ MembershipDecision(n) \/ NoDecision(n)
  <2>1. MembershipStep(n)
    BY <1>2, EnterMembershipLines, MembershipDecisionLines, NoDecisionLines
  <2>2. Wakes(n, "MEMBERSHIP") /\ UNCHANGED <<faulty, latest>>
    BY <1>2 DEF EnterMembership, MembershipDecision, NoDecision
  <2>3. ProcessEnds(n) \/ UNCHANGED <<up, age>>
    BY <1>2, Zenon DEF EnterMembership, MembershipDecision, NoDecision,
       DeliverMessage, Continue, proc
  <2> QED
    BY <1>1, <2>1, <2>2, <2>3 DEF MembershipStep, Alone
<1>3. CASE ReceiveMessage(n) \/ ReceiveNothing(n)
  <2>1. ReceiveStep(n)
    BY <1>3, ReceiveMessageLines, ReceiveNothingLines
  <2>2. Wakes(n, "SEND") /\ UNCHANGED <<faulty, latest, up, age>>
    BY <1>3 DEF ReceiveMessage, ReceiveNothing, Receives
  <2> QED
    BY <1>1, <2>1, <2>2 DEF ReceiveStep, Alone
<1>4. CASE SendMessage(n) \/ SendInit(n) \/ SendNothing(n)
  <2>1. PICK msg : SendStep(n, msg)
    BY <1>4, SendMessageLines, SendInitLines
  <2>2. Wakes(n, "SEND") /\ UNCHANGED <<up, age, out>> /\ faulty \subseteq faulty'
    BY <1>4, BroadcastFrame DEF SendMessage, SendInit, SendNothing, proc
  <2>3. \A m \in Node \ {n} : view'[m] = view[m] /\ latest'[m] = latest[m]
    BY <2>1 DEF SendStep, TypeOK
  <2> QED
    BY <2>2, <2>3 DEF Frame, Wakes
<1> QED
  BY <1>2, <1>3, <1>4 DEF Handler

-----------------------------------------------------------------------------
(* Sleepers                                                                 *)

LEMMA SleepersStep ==
  ASSUME TypeOK, Sleepers, [Next]_vars
  PROVE  Sleepers'
<1>1. asleep \in [Node -> Nat] /\ up \in [Node -> BOOLEAN]
  BY DEF TypeOK
<1>2. ASSUME NEW n \in Node, Handler(n)
      PROVE  Sleepers'
  <2>1. Frame(n)
    BY <1>2, HandlerFrame
  <2> QED
    BY <2>1 DEF Frame, Sleepers
<1>3. ASSUME NEW n \in Node, Start(n)
      PROVE  Sleepers'
  BY <1>1, <1>3 DEF Start, Sleepers
<1>4. ASSUME NEW n \in Node, Crash(n)
      PROVE  Sleepers'
  <2>1. \A m \in Node \ {n} : up'[m] = up[m]
    BY <1>4, EndsFrame DEF Crash
  <2> QED
    BY <1>1, <1>4, <2>1 DEF Crash, Fail, Sleepers
<1>5. ASSUME NEW n \in Node, Oversleep(n)
      PROVE  Sleepers'
  <2>1. \A m \in Node \ {n} : asleep'[m] = asleep[m]
    BY <1>1, <1>5 DEF Oversleep
  <2> QED
    BY <1>1, <1>5, <2>1 DEF Oversleep, Fail, proc, Sleepers
<1>6. CASE NextSlice
  BY <1>1, <1>6 DEF NextSlice, Sleepers
<1>7. CASE UNCHANGED vars
  BY <1>7 DEF vars, proc, clock, hazards, Sleepers
<1> QED
  BY <1>2, <1>3, <1>4, <1>5, <1>6, <1>7 DEF Next

-----------------------------------------------------------------------------
(* Later processes of a node                                                *)

LEMMA AgeToSend ==
  ASSUME TypeOK, NEW n \in Node, TRUE \in CycleAboveZero(n)
  PROVE  age[n] > 0
<1>1. age[n] \in Int
  BY DEF TypeOK
<1>2. CycleLength \in Nat /\ CycleLength > 0
  BY NodeFacts DEF CycleLength, SLICES_IN_TURN
<1>3. ~(age[n] < CycleLength)
  BY DEF CycleAboveZero
<1> QED
  BY <1>1, <1>2, <1>3

\* Only its own initialization message makes a process ACTIVE in its own view.
LEMMA BecomesActive ==
  ASSUME TypeOK, NEW n \in Node, Handler(n), up'[n], view'[n].stage[n] = "ACTIVE"
  PROVE  SendInit(n) \/ view[n].stage[n] = "ACTIVE"
<1>1. view[n] \in View /\ turn \in Node /\ view \in [Node -> View]
  BY DEF TypeOK
<1>2. CASE EnterMembership(n)
  <2>1. Enter(view[n], turn).stage = [view[n].stage EXCEPT ![turn] = "MEMBER"]
    BY <1>1 DEF Enter, View
  <2>2. \/ view'[n] = Enter(view[n], turn)
        \/ view'[n] = view[n]
    <3>1. ~ProcessEnds(n)
      BY EndsFrame
    <3> QED
      BY <1>1, <1>2, <3>1 DEF EnterMembership, proc
  <2>3. view[n].stage \in [Node -> Stage]
    BY <1>1 DEF View
  <2> QED
    BY <1>1, <2>1, <2>2, <2>3
<1>3. CASE MembershipDecision(n)
  <2>1. IsMember(n)
    BY <1>3 DEF MembershipDecision, Wakes, Decides, IsMember
  <2> QED
    BY <1>3, <2>1, MembershipDecisionStays DEF StaysMember
<1>4. CASE SendMessage(n)
  <2>1. IsMember(n)
    BY <1>4 DEF SendMessage, Wakes, IsMember
  <2> QED
    BY <1>4, <2>1, SendStays DEF StaysMember
<1>5. CASE ReceiveMessage(n) \/ ReceiveNothing(n)
  BY <1>5, ReceiveMessageStays, ReceiveNothingStays
<1>6. CASE NoDecision(n) \/ SendNothing(n)
  BY <1>6 DEF NoDecision, SendNothing, proc
<1> QED
  BY <1>2, <1>3, <1>4, <1>5, <1>6 DEF Handler

LEMMA HandlerReborn ==
  ASSUME TypeOK, NothingLeft, Reborn, NothingLeft', NEW n \in Node, Handler(n)
  PROVE  Reborn'
<1>1. Frame(n)
  BY HandlerFrame
<1>2. (slice = "SEND" /\ up[turn] /\ turn \notin ran /\ age[turn] > 0
         => latest[turn] = Empty)'
  <2>1. CASE turn = n
    BY <1>1, <2>1 DEF Frame
  <2>2. CASE turn # n
    <3>1. turn \in Node
      BY DEF TypeOK
    <3> QED
      BY <1>1, <2>2, <3>1 DEF Frame, Reborn
  <2> QED
    BY <2>1, <2>2
<1>3. ASSUME NEW m \in Node, view'[m].stage[m] = "ACTIVE"
      PROVE  latest'[m] = Empty
  <2>1. CASE m # n
    BY <1>1, <1>3, <2>1 DEF Frame, Reborn
  <2>2. CASE m = n
    <3>1. up'[n]
      BY <1>3, <2>2 DEF NothingLeft, InitView
    <3>2. CASE SendInit(n)
      <4>1. age[n] > 0
        BY <3>2, AgeToSend DEF SendInit
      <4> QED
        BY <2>2, <3>2, <4>1 DEF SendInit, Wakes, Reborn
    <3>3. CASE ~SendInit(n)
      <4>1. view[n].stage[n] = "ACTIVE"
        BY <1>3, <2>2, <3>1, <3>3, BecomesActive
      <4>2. latest'[n] = latest[n]
        BY <4>1 DEF Handler, EnterMembership, MembershipDecision, NoDecision,
           SendMessage, SendInit, SendNothing, ReceiveMessage, ReceiveNothing
      <4> QED
        BY <2>2, <4>1, <4>2 DEF Reborn
    <3> QED
      BY <3>2, <3>3
  <2> QED
    BY <2>1, <2>2
<1> QED
  BY <1>2, <1>3 DEF Reborn

LEMMA RebornStep ==
  ASSUME TypeOK, NothingLeft, Reborn, [Next]_vars
  PROVE  Reborn'
<1>0. NothingLeft' /\ turn \in Node
  BY NothingLeftStep DEF TypeOK
<1>1. ASSUME NEW n \in Node, Handler(n)
      PROVE  Reborn'
  BY <1>0, <1>1, HandlerReborn
<1>2. ASSUME NEW n \in Node, Start(n)
      PROVE  Reborn'
  <2>1. age[n] = 0
    BY <1>2 DEF Start, NothingLeft
  <2>2. up'[turn] /\ turn \notin ran' /\ turn # n => up[turn] /\ turn \notin ran
    BY <1>0, <1>2 DEF Start, TypeOK
  <2> QED
    BY <1>2, <2>1, <2>2 DEF Start, Reborn
<1>3. ASSUME NEW n \in Node, Crash(n)
      PROVE  Reborn'
  <2>1. /\ up'[n] = FALSE
        /\ \A m \in Node \ {n} : up'[m] = up[m] /\ age'[m] = age[m]
    BY <1>3, EndsFrame DEF Crash
  <2>2. \A m \in Node : view'[m] = InitView \/ view'[m] = view[m]
    BY <1>3 DEF Crash, ProcessEnds, TypeOK
  <2>3. \A m \in Node : InitView.stage[m] # "ACTIVE"
    BY DEF InitView
  <2> QED
    BY <1>0, <1>3, <2>1, <2>2, <2>3 DEF Crash, Reborn
<1>4. ASSUME NEW n \in Node, Oversleep(n)
      PROVE  Reborn'
  BY <1>4 DEF Oversleep, proc, Reborn
<1>5. CASE NextSlice
  <2>1. CASE slice = "MEMBERSHIP"
    <3>1. \A m \in Node : latest'[m] \in {latest[m], Empty}
      BY <1>5, <2>1 DEF NextSlice, TypeOK
    <3>2. latest'[turn'] = Empty
      BY <1>0, <1>5, <2>1 DEF NextSlice, TypeOK
    <3> QED
      BY <1>5, <3>1, <3>2 DEF NextSlice, Reborn
  <2>2. CASE slice # "MEMBERSHIP"
    BY <1>5, <2>2 DEF NextSlice, Reborn
  <2> QED
    BY <2>1, <2>2
<1>6. CASE UNCHANGED vars
  BY <1>6 DEF vars, proc, clock, Reborn
<1> QED
  BY <1>1, <1>2, <1>3, <1>4, <1>5, <1>6 DEF Next

-----------------------------------------------------------------------------
(* Members keep their own line                                              *)

LEMMA OwnLineElsewhere ==
  ASSUME NEW n \in Node, OwnLine(n), up'[n] => up[n],
         view'[n] = view[n], latest'[n] = latest[n], out'[n] = out[n],
         n \in faulty => n \in faulty',
         UNCHANGED <<turn, slice>>, n \in ran' <=> n \in ran
  PROVE  OwnLine(n)'
BY DEF OwnLine, IsMember, Delivered

\* The line is kept when the step is another's, or its sender a member before.
LEMMA OwnLineKept ==
  ASSUME NEW n \in Node, OwnLine(n), up'[n] => up[n],
         view'[n].stage[n] = "MEMBER" => view[n].stage[n] = "MEMBER",
         view'[n].last[n] = view[n].last[n], latest'[n] = latest[n],
         faulty \subseteq faulty', UNCHANGED <<turn, slice>>,
         slice = "MEMBERSHIP" => turn # n
  PROVE  OwnLine(n)'
BY DEF OwnLine, IsMember

LEMMA DeliversOwnLine ==
  ASSUME TypeOK, NEW n \in Node, NEW w \in View, DeliverMessage(n, w),
         turn = n, w.last[n] = latest[n], latest[n] # Empty, latest' = latest
  PROVE  latest'[n] \in Delivered(n)'
<1>1. latest[n] # Null /\ out \in [Node -> Seq(Nat)] /\ latest[n] \in Nat
  <2>1. latest[n] \in Body /\ out \in [Node -> Seq(Nat)]
    BY DEF TypeOK
  <2> QED
    BY <2>1 DEF Body, Null
<1>2. out'[n] = Append(out[n], latest[n])
  BY <1>1 DEF DeliverMessage
<1>3. /\ Len(out[n]) + 1 \in DOMAIN out'[n]
      /\ out'[n][Len(out[n]) + 1] = latest[n]
  BY <1>1, <1>2
<1> QED
  BY <1>3 DEF Delivered

LEMMA DecisionOwnLine ==
  ASSUME TypeOK, NEW n \in Node, OwnLine(n), MembershipDecision(n), turn = n
  PROVE  OwnLine(n)'
<1> DEFINE v == AfterSuspicion(n)
           w == IF CheckSenderOmission(v, n, turn) THEN EnterSuspicion(v, turn)
                                                   ELSE v
<1>1. w \in View /\ w.last = view[n].last
  BY DecisionKeeps DEF SameMessages
<1>2. ProcessEnds(n) \/ DeliverMessage(n, w)
  BY DEF MembershipDecision
<1>3. /\ IsMember(n) /\ slice = "MEMBERSHIP" /\ n \notin ran
      /\ UNCHANGED <<slice, turn, latest, faulty>> /\ n \in ran'
  BY DEF MembershipDecision, Wakes, Decides, IsMember
<1> HIDE DEF w
<1>4. CASE ProcessEnds(n)
  BY <1>4, EndsFrame DEF OwnLine, IsMember
<1>5. CASE DeliverMessage(n, w)
  <2> SUFFICES ASSUME n \notin faulty, latest[n] # Empty
               PROVE  latest'[n] \in Delivered(n)'
    BY <1>3 DEF OwnLine
  <2>1. w.last[n] = latest[n]
    BY <1>1, <1>3 DEF OwnLine
  <2> QED
    BY <1>1, <1>3, <1>5, <2>1, DeliversOwnLine
<1> QED
  BY <1>2, <1>4, <1>5

LEMMA MembershipOwnLine ==
  ASSUME TypeOK, Reborn, NEW n \in Node, OwnLine(n), Frame(n),
         EnterMembership(n) \/ MembershipDecision(n) \/ NoDecision(n)
  PROVE  OwnLine(n)'
<1>1. /\ slice = "MEMBERSHIP" /\ turn \in Node /\ view \in [Node -> View]
      /\ UNCHANGED <<turn, slice, latest, faulty>> /\ up[n]
      /\ n \notin ran /\ n \in ran'
  BY DEF EnterMembership, MembershipDecision, NoDecision, Wakes, TypeOK
<1>2. CASE turn # n
  <2>1. CASE ProcessEnds(n)
    BY <2>1, EndsFrame DEF OwnLine, IsMember
  <2>2. CASE ~ProcessEnds(n)
    <3>1. view'[n].stage[n] = "MEMBER" => view[n].stage[n] = "MEMBER"
      <4>1. CASE EnterMembership(n)
        <5>1. SameStageBut(Enter(view[n], turn), view[n], turn)
          BY <1>1, EnterKeeps
        <5>2. view'[n] = Enter(view[n], turn) \/ view'[n] = view[n]
          BY <1>1, <2>2, <4>1 DEF EnterMembership, proc
        <5> QED
          BY <1>2, <5>1, <5>2 DEF SameStageBut
      <4>2. CASE MembershipDecision(n)
        BY <4>2 DEF MembershipDecision, Decides
      <4>3. CASE NoDecision(n)
        BY <4>3 DEF NoDecision, proc
      <4> QED
        BY <4>1, <4>2, <4>3
    <3>2. MembershipStep(n)
      BY EnterMembershipLines, MembershipDecisionLines, NoDecisionLines
    <3>3. Ends(n) \/ view'[n].last[n] = view[n].last[n]
      <4>1. view[n].last \in [Node -> Body \cup {Null}]
        BY DEF TypeOK, View
      <4> QED
        BY <1>1, <1>2, <3>2, <4>1 DEF MembershipStep, Keeps, Delivery
    <3>4. CASE Ends(n)
      BY <3>4 DEF Ends, InitView, OwnLine, IsMember
    <3>5. CASE view'[n].last[n] = view[n].last[n]
      BY <1>1, <1>2, <3>1, <3>5, OwnLineKept DEF Frame
    <3> QED
      BY <3>3, <3>4, <3>5
  <2> QED
    BY <2>1, <2>2
<1>3. CASE turn = n
  <2>1. CASE EnterMembership(n)
    <3>1. latest[n] = Empty
      BY <1>3, <2>1 DEF EnterMembership, Admits, Reborn
    <3> QED
      BY <1>1, <3>1 DEF OwnLine
  <2>2. CASE MembershipDecision(n)
    BY <1>3, <2>2, DecisionOwnLine
  <2>3. CASE NoDecision(n)
    <3>1. view' = view /\ ~Decides(n)
      BY <2>3 DEF NoDecision, proc
    <3>2. view[n].count \in Int
      BY <1>1 DEF View
    <3>3. view[n].stage[n] = "MEMBER" => view[n].count < MIN_MEMBERS
      BY <1>3, <3>1, <3>2, NodeFacts DEF Decides
    <3> QED
      BY <1>1, <1>3, <3>1, <3>3 DEF OwnLine, IsMember
  <2> QED
    BY <2>1, <2>2, <2>3
<1> QED
  BY <1>2, <1>3

LEMMA HandlerOwnLine ==
  ASSUME TypeOK, Reborn, NEW n \in Node, OwnLine(n), Handler(n)
  PROVE  OwnLine(n)'
<1>1. Frame(n) /\ view[n] \in View /\ turn \in Node /\ latest \in [Node -> Body]
  BY HandlerFrame DEF TypeOK
<1>2. CASE EnterMembership(n) \/ MembershipDecision(n) \/ NoDecision(n)
  BY <1>1, <1>2, MembershipOwnLine
<1>3. CASE ReceiveMessage(n) \/ ReceiveNothing(n)
  <2>1. ReceiveStep(n) /\ view'[n].stage[n] = view[n].stage[n]
    BY <1>3, ReceiveMessageLines, ReceiveNothingLines, ReceiveMessageStays,
       ReceiveNothingStays
  <2>2. slice = "SEND" /\ UNCHANGED latest
    BY <1>3 DEF ReceiveMessage, ReceiveNothing, Receives, Wakes
  <2>3. view'[n].last[n] = view[n].last[n]
    BY <1>1, <2>1 DEF ReceiveStep, View
  <2> QED
    BY <1>1, <2>1, <2>2, <2>3, OwnLineKept DEF Frame
<1>4. CASE SendMessage(n) \/ SendInit(n) \/ SendNothing(n)
  <2>1. PICK msg : SendStep(n, msg)
    BY <1>4, SendMessageLines, SendInitLines
  <2>2. view[n].last \in [Node -> Body \cup {Null}]
    BY <1>1 DEF View
  <2>3. CASE view[n].stage[n] = "MEMBER"
    <3>1. slice' = "SEND" /\ view'[n].last[n] = latest'[n]
      BY <1>1, <2>1, <2>2, <2>3 DEF SendStep
    <3> QED
      BY <3>1 DEF OwnLine
  <2>4. CASE view[n].stage[n] # "MEMBER"
    <3>1. view'[n].stage[n] # "MEMBER"
      <4>1. CASE SendInit(n)
        <5>1. [view[n] EXCEPT !.stage[n] = "ACTIVE"].stage[n] = "ACTIVE"
          BY <1>1 DEF View
        <5>2. view'[n] = [view[n] EXCEPT !.stage[n] = "ACTIVE"]
          BY <4>1 DEF SendInit, TypeOK
        <5> QED
          BY <5>1, <5>2
      <4>2. CASE SendNothing(n)
        BY <2>4, <4>2 DEF SendNothing, proc
      <4> QED
        BY <1>4, <2>4, <4>1, <4>2 DEF SendMessage
    <3> QED
      BY <3>1 DEF OwnLine, IsMember
  <2> QED
    BY <2>3, <2>4
<1> QED
  BY <1>2, <1>3, <1>4 DEF Handler

LEMMA OwnLinesStep ==
  ASSUME TypeOK, NothingLeft, Sleepers, Reborn, OwnLines, [Next]_vars
  PROVE  OwnLines'
<1> SUFFICES ASSUME NEW n \in Node
             PROVE  OwnLine(n)'
  BY DEF OwnLines
<1>0. OwnLine(n) /\ turn \in Node
  BY DEF OwnLines, TypeOK
<1>1. CASE Handler(n)
  BY <1>0, <1>1, HandlerOwnLine
<1>2. ASSUME NEW m \in Node \ {n}, Handler(m)
      PROVE  OwnLine(n)'
  <2>1. Frame(m)
    BY <1>2, HandlerFrame
  <2> QED
    BY <1>0, <2>1, OwnLineElsewhere DEF Frame
<1>3. ASSUME NEW m \in Node, Start(m)
      PROVE  OwnLine(n)'
  <2>1. CASE m = n
    <3>1. view'[n] = InitView
      BY <1>3, <2>1 DEF Start, NothingLeft
    <3> QED
      BY <3>1 DEF OwnLine, IsMember, InitView
  <2>2. CASE m # n
    BY <1>0, <1>3, <2>2, OwnLineElsewhere DEF Start, TypeOK
  <2> QED
    BY <2>1, <2>2
<1>4. ASSUME NEW m \in Node, Crash(m)
      PROVE  OwnLine(n)'
  <2>1. CASE m = n
    BY <1>4, <2>1, EndsFrame DEF Crash, OwnLine, IsMember
  <2>2. CASE m # n
    <3>1. /\ up'[n] = up[n] /\ view'[n] = view[n] /\ out'[n] = out[n]
          /\ faulty \subseteq faulty' /\ UNCHANGED <<turn, slice, ran, latest>>
      BY <1>4, <2>2 DEF Crash, ProcessEnds, LosesOutput, Fail, TypeOK
    <3> QED
      BY <1>0, <3>1, OwnLineElsewhere
  <2> QED
    BY <2>1, <2>2
<1>5. ASSUME NEW m \in Node, Oversleep(m)
      PROVE  OwnLine(n)'
  <2>1. CASE m = n
    BY <1>5, <2>1 DEF Oversleep, Fail, OwnLine
  <2>2. CASE m # n
    BY <1>0, <1>5, <2>2, OwnLineElsewhere DEF Oversleep, proc, files, Fail
  <2> QED
    BY <2>1, <2>2
<1>6. CASE NextSlice
  <2>0. UNCHANGED <<up, view, out, faulty>>
    BY <1>6 DEF NextSlice, files
  <2>1. CASE slice = "MEMBERSHIP"
    <3>1. /\ slice' = "SEND" /\ turn' = turn
          /\ latest'[n] = IF n = turn THEN Empty ELSE latest[n]
      BY <1>6, <2>1 DEF NextSlice, TypeOK
    <3> QED
      BY <1>0, <2>0, <2>1, <3>1 DEF OwnLine, IsMember
  <2>2. CASE slice = "SEND"
    <3>1. slice' = "PAUSE" /\ UNCHANGED latest
      BY <1>6, <2>2 DEF NextSlice
    <3> QED
      BY <1>0, <2>0, <2>2, <3>1 DEF OwnLine, IsMember
  <2>3. CASE slice = "PAUSE"
    <3>1. slice' = "MEMBERSHIP" /\ UNCHANGED latest
      BY <1>6, <2>3 DEF NextSlice
    <3>2. n \in ran' => n \in faulty
      BY <1>6 DEF NextSlice, Sleepers
    <3> QED
      BY <1>0, <2>0, <2>3, <3>1, <3>2 DEF OwnLine, IsMember
  <2> QED
    BY <1>6, <2>1, <2>2, <2>3 DEF NextSlice
<1>7. CASE UNCHANGED vars
  BY <1>0, <1>7, OwnLineElsewhere DEF vars, proc, clock, files, hazards
<1> QED
  BY <1>1, <1>2, <1>3, <1>4, <1>5, <1>6, <1>7 DEF Next

-----------------------------------------------------------------------------
(* The theorem                                                              *)

ValidityInv == TypeOK /\ NothingLeft /\ Sleepers /\ Reborn /\ OwnLines

LEMMA InitValidity == Init => ValidityInv
<1>1. \A n \in Node : InitView.stage[n] = "INACTIVE"
  BY DEF InitView
<1>2. Init => Sleepers /\ Reborn /\ OwnLines
  BY <1>1 DEF Init, Sleepers, Reborn, OwnLines, OwnLine, IsMember
<1> QED
  BY <1>2, InitType, InitHeld DEF ValidityInv

\* When all have decided, the sender has delivered its own line, unless the
\* membership is too small: no crash, lost message, late or newly started
\* process elsewhere makes a correct sender skip or lose it
\* (membership_decision, send_operation).
THEOREM OwnLinesDelivered == Spec => []Validity
<1>1. ValidityInv /\ [Next]_vars => ValidityInv'
  BY NextType, NothingLeftStep, SleepersStep, RebornStep, OwnLinesStep
     DEF ValidityInv
<1>2. ValidityInv => Validity
  <2> SUFFICES ASSUME ValidityInv, Decided, latest[turn] # Empty, Correct(turn)
               PROVE  view[turn].count < MIN_MEMBERS \/ latest[turn] \in Delivered(turn)
    BY DEF Validity
  <2>1. turn \in Node /\ OwnLine(turn)
    BY DEF ValidityInv, TypeOK, OwnLines
  <2> QED
    BY <2>1 DEF Decided, AllRan, Correct, IsMember, OwnLine
<1> QED
  BY <1>1, <1>2, InitValidity, PTL DEF Spec
===============================================================================
