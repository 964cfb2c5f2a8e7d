---------------------------- MODULE TimeAwareTOB ----------------------------
(***************************************************************************)
(* The Time Aware Total Order Broadcast protocol: AMOUNT_NODES processes   *)
(* with synchronised clocks that share a TDMA cycle.  A cycle has one turn *)
(* per node, a turn the three slices MEMBERSHIP, SEND and PAUSE.  In every *)
(* slice each running process wakes up once, runs the handler slice_switch *)
(* picks for it and sleeps until the next slice.                           *)
(*                                                                         *)
(* Processes may crash and be started again, a broadcast may reach nobody  *)
(* (sender omission) or miss one receiver (receiver omission), a process   *)
(* may sleep through slices (timing failure): module ServiceTime shows     *)
(* that it goes on with the slice it finds.  The bounds MaxStarts,         *)
(* MaxFaults and Spacing say how often.                                    *)
(***************************************************************************)
EXTENDS Membership, Sequences

CONSTANTS
  Lines,      \* lines in each node's input file
  Powered,    \* the nodes whose process has just been started initially
  MaxStarts,  \* how often each node's process may be started later
  StartSlots, \* the <<turn, slice>> pairs in which it may be started
  MaxFaults,  \* how many failures may happen in a behaviour
  FaultKinds, \* which of the kinds of failures.c may happen
  Naps,       \* how many slices a process may sleep through in one failure
  Unwritten,  \* how many lines stdio may not have written yet
  Spacing     \* turns without failure before each failure

ASSUME BoundsAssumption ==
  /\ Lines \in Nat /\ MaxStarts \in Nat /\ MaxFaults \in Nat /\ Spacing \in Nat
  /\ Powered \subseteq Node
  /\ StartSlots \subseteq Node \X {"MEMBERSHIP", "SEND", "PAUSE"}
  /\ FaultKinds \subseteq {"TIMING_FAILURE", "CRASH_FAILURE",
                           "SENDER_OMISSION", "RECEIVER_OMISSION"}
  /\ Naps \subseteq Nat \ {0} /\ Unwritten \in Nat

VARIABLES
  up,      \* up[n]: the process of node n runs
  view,    \* view[n]: its node_states, membership_flag and memb_count
  age,     \* age[n]: slices since its init_time (saturating at CycleOver)
  unread,  \* unread[n]: lines it has not yet read from its input file
  sock,    \* sock[n]: the messages waiting in its socket, oldest first
  turn,    \* the turn all synchronised clocks show ...
  slice,   \* ... and the slice
  ran,     \* the processes that have run their handler for this slice
  asleep,  \* asleep[n]: further slices its process sleeps through
  out,     \* out[n]: output file of node n, survives the process
  disk,    \* disk[n]: lines of it that earlier processes have written
  starts,  \* starts[n]: how often node n may still be started
  faults,  \* failures that may still happen
  calm,    \* turns since the last failure (saturating at Spacing)
  faulty,  \* history: nodes whose last process has suffered a failure
  late,    \* history: nodes that have slept through slices, ever
  bcast,   \* history: number of lines broadcast so far, by anyone
  latest   \* history: latest[s] is the undecided line of s, or Empty

proc    == <<up, view, age, unread, sock>>
clock   == <<turn, slice, ran, asleep>>
files   == <<out, disk>>
hazards == <<starts, faults, calm, faulty, late>>
vars    == <<proc, clock, files, hazards, bcast, latest>>

Message == [ nodeID : Node,
             stage  : Stage,
             vector : SUBSET Node,
             sus    : Suspicion,
             body   : Body ]

Slices       == {"MEMBERSHIP", "SEND", "PAUSE"}
SLICES_IN_TURN == 3
CycleLength  == SLICES_IN_TURN * AMOUNT_NODES
\* A process that lives for more than a cycle's worth of slices has seen
\* update_time leave cycle 0.
CycleOver    == CycleLength + 1

TypeOK ==
  /\ up     \in [Node -> BOOLEAN]
  /\ view   \in [Node -> View]
  /\ age    \in [Node -> 0..CycleOver]
  /\ unread \in [Node -> 0..Lines]
  /\ sock   \in [Node -> Seq(Message)]
  /\ turn   \in Node
  /\ slice  \in Slices
  /\ ran    \in SUBSET Node
  /\ asleep \in [Node -> Nat]
  /\ out    \in [Node -> Seq(Nat)]
  /\ disk   \in [Node -> Nat]
  /\ starts \in [Node -> 0..MaxStarts]
  /\ faults \in 0..MaxFaults
  /\ calm   \in 0..Spacing
  /\ faulty \in SUBSET Node
  /\ late   \in SUBSET Node
  /\ bcast  \in Nat
  /\ latest \in [Node -> Body]

Init ==
  /\ up     = [n \in Node |-> n \in Powered]
  /\ view   = [n \in Node |-> InitView]
  /\ age    = [n \in Node |-> 0]
  /\ unread = [n \in Node |-> IF n \in Powered THEN Lines ELSE 0]
  /\ sock   = [n \in Node |-> <<>>]
  /\ turn   = 0
  /\ slice  = "MEMBERSHIP"
  /\ ran    = {}
  /\ asleep = [n \in Node |-> 0]
  /\ out    = [n \in Node |-> <<>>]
  /\ disk   = [n \in Node |-> 0]
  /\ starts = [n \in Node |-> MaxStarts]
  /\ faults = MaxFaults
  /\ calm   = 0
  /\ faulty = {}
  /\ late   = {}
  /\ bcast  = 0
  /\ latest = [n \in Node |-> Empty]

-----------------------------------------------------------------------------
(* Processes start and stop                                                 *)

\* The memory and the socket of a process are gone when it ends.
ProcessEnds(n) ==
  /\ up'     = [up     EXCEPT ![n] = FALSE]
  /\ view'   = [view   EXCEPT ![n] = InitView]
  /\ age'    = [age    EXCEPT ![n] = 0]
  /\ unread' = [unread EXCEPT ![n] = 0]
  /\ sock'   = [sock   EXCEPT ![n] = <<>>]

\* The output file is fully buffered: of the lines that the process has
\* delivered a kill loses those stdio has not written yet.
LosesOutput(n) ==
  \E k \in disk[n]..Len(out[n]) :
    k >= Len(out[n]) - Unwritten /\ out' = [out EXCEPT ![n] = SubSeq(@, 1, k)]

\* init_service: a process may be started in any slice; it runs the handler of
\* that slice, too, unless the slice is over when it wakes up first.
Start(n) ==
  /\ ~up[n] /\ starts[n] > 0 /\ <<turn, slice>> \in StartSlots
  /\ up'     = [up     EXCEPT ![n] = TRUE]
  /\ unread' = [unread EXCEPT ![n] = Lines]
  /\ starts' = [starts EXCEPT ![n] = @ - 1]
  /\ ran' \in {ran \ {n}, ran \cup {n}}
  /\ disk'   = [disk   EXCEPT ![n] = Len(out[n])]
  /\ faulty' = faulty \ {n}
  /\ UNCHANGED <<view, age, sock, turn, slice, asleep, out, faults, calm, late,
                 bcast, latest>>

MayFail(kind) == kind \in FaultKinds /\ faults > 0 /\ calm = Spacing

Fail(n) == faults' = faults - 1 /\ calm' = 0 /\ faulty' = faulty \cup {n}

\* A kill, or 'q' on the terminal of a node, which closes the output file.
Crash(n) ==
  /\ up[n] /\ MayFail("CRASH_FAILURE")
  /\ ProcessEnds(n) /\ LosesOutput(n)
  /\ asleep' = [asleep EXCEPT ![n] = 0]
  /\ Fail(n)
  /\ UNCHANGED <<turn, slice, ran, disk, starts, late, bcast, latest>>

\* The process sleeps through this slice and those that follow, up to a whole
\* cycle; messages wait in its socket.  Nobody misses a PAUSE slice.
Oversleep(n) ==
  /\ up[n] /\ n \notin ran /\ slice # "PAUSE" /\ MayFail("TIMING_FAILURE")
  /\ \E nap \in Naps : asleep' = [asleep EXCEPT ![n] = nap - 1]
  /\ ran'  = ran \cup {n}
  /\ late' = late \cup {n}
  /\ Fail(n)
  /\ UNCHANGED <<proc, turn, slice, files, starts, bcast, latest>>

-----------------------------------------------------------------------------
(* One wake-up of process n per slice                                       *)

Wakes(n, s) ==
  /\ up[n] /\ n \notin ran /\ slice = s
  /\ ran' = ran \cup {n}
  /\ UNCHANGED <<turn, slice, asleep, disk, late>>

\* Variant: more than MIN_MEMBERS members needed.
Decides_OffByOne(n) ==
  /\ view[n].stage[turn] = "MEMBER" /\ view[n].stage[n] = "MEMBER"
  /\ view[n].count > MIN_MEMBERS

\* slice_switch: the two conditions of the MEMBERSHIP slice.
Decides(n) ==
  /\ view[n].stage[turn] = "MEMBER" /\ view[n].stage[n] = "MEMBER"
  /\ view[n].count >= MIN_MEMBERS

Admits(n) ==
  /\ view[n].stage[turn] = "ACTIVE"
  /\ view[n].stage[n] = "MEMBER" \/ turn = n

\* Variant: also when there is no membership yet.
GivesUp_Always(n) == turn = n

\* A process that an existing membership does not admit shuts down; without
\* a membership it keeps trying, the other nodes may not have been started.
GivesUp(n) == view[n].flag /\ turn = n

\* enter_membership
EnterMembership(n) ==
  /\ Wakes(n, "MEMBERSHIP") /\ Admits(n)
  /\ \/ /\ CanJoin(view[n], turn)
        /\ view' = [view EXCEPT ![n] = Enter(@, turn)]
        /\ UNCHANGED <<up, age, unread, sock>>
     \/ /\ ~CanJoin(view[n], turn)
        /\ IF GivesUp(n) THEN ProcessEnds(n) ELSE UNCHANGED proc
  /\ UNCHANGED <<out, starts, faults, calm, faulty, bcast, latest>>

\* Variant: the line is written twice.
DeliverMessage_Keeps(n, v) ==
  IF v.last[turn] \in {Null, Empty}
  THEN UNCHANGED <<proc, out>>
  ELSE /\ view' = [view EXCEPT ![n] = v]
       /\ out'  = [out EXCEPT ![n] = @ \o <<v.last[turn], v.last[turn]>>]
       /\ UNCHANGED <<up, age, unread, sock>>

\* deliver_message: an empty message is not delivered and stays in place, a
\* line is written to the output file and its memory released; with last_msg
\* at NULL the access kills the process.
DeliverMessage(n, v) ==
  LET body == v.last[turn]
      left == IF body = Empty THEN v ELSE [v EXCEPT !.last[turn] = Null]
  IN  IF body = Null
      THEN ProcessEnds(n) /\ LosesOutput(n)
      ELSE /\ view' = [view EXCEPT ![n] = left]
           /\ out'  = [out EXCEPT ![n] = IF body = Empty THEN @ ELSE Append(@, body)]
           /\ UNCHANGED <<up, age, unread, sock>>

\* The process keeps running with view v.
Continue(n, v) ==
  /\ view' = [view EXCEPT ![n] = v]
  /\ UNCHANGED <<up, age, unread, sock, out>>

\* The view after the first half of membership_decision.
AfterSuspicion(n) ==
  IF view[n].sus[turn].flag THEN HandleSuspicion(view[n], turn) ELSE view[n]

\* Variant: a convicted process does not shut down.
SelfConvicted_Never(n) == FALSE

\* handle_suspicion convicts the process itself: it shuts down at once.
SelfConvicted(n) == turn = n /\ Convicted(view[n], n)

\* membership_decision; handle_suspicion returns to it, so that a node that
\* was just convicted goes through mval as well.
MembershipDecision(n) ==
  /\ Wakes(n, "MEMBERSHIP") /\ Decides(n)
  /\ LET v == AfterSuspicion(n)
         w == IF CheckSenderOmission(v, n, turn) THEN EnterSuspicion(v, turn)
                                                 ELSE v
     IN  \/ SelfConvicted(n) /\ ProcessEnds(n) /\ UNCHANGED out
         \/ /\ ~SelfConvicted(n) /\ Mval(v, n, turn)
            /\ w.vv[n][turn] = "RECEIVED" \/ n = turn
            /\ DeliverMessage(n, w)
         \/ /\ ~SelfConvicted(n) /\ Mval(v, n, turn)
            /\ ~(w.vv[n][turn] = "RECEIVED" \/ n = turn)
            /\ Continue(n, w)
         \/ /\ ~SelfConvicted(n) /\ ~Mval(v, n, turn)
            /\ IF turn = n THEN ProcessEnds(n) /\ UNCHANGED out
                           ELSE Continue(n, RemoveMembership(w, turn))
  /\ UNCHANGED <<starts, faults, calm, faulty, bcast, latest>>

\* The sender has not sent yet, or this node knows too little.
NoDecision(n) ==
  /\ Wakes(n, "MEMBERSHIP") /\ ~Decides(n) /\ ~Admits(n)
  /\ UNCHANGED <<proc, out, starts, faults, calm, faulty, bcast, latest>>

\* Who hears a broadcast of n: everybody, nobody (its outgoing link failed,
\* both copies are lost), everybody but one (whose incoming link failed).
Listeners(n) == {m \in Node \ {n} : up[m]}

Heard(n, heard) ==
  \/ heard = Listeners(n) /\ UNCHANGED <<faults, calm, faulty>>
  \/ heard = {} /\ MayFail("SENDER_OMISSION") /\ Fail(n)
  \/ \E m \in Listeners(n) :
        heard = Listeners(n) \ {m} /\ MayFail("RECEIVER_OMISSION") /\ Fail(m)

\* broadcast_message sends every message twice.
BroadcastMessage(n, msg) ==
  \E heard \in SUBSET Listeners(n) :
    /\ Heard(n, heard)
    /\ sock' = [m \in Node |-> IF m \in heard THEN sock[m] \o <<msg, msg>> ELSE sock[m]]

\* prepare_msg
PrepareMsg(n, stage, body) ==
  [ nodeID |-> n,
    stage  |-> stage,
    vector |-> ArrayToByte(view[n], n),
    sus    |-> view[n].sus[n],
    body   |-> body ]

\* Variant: reads on at the end of the file.
Fetches_PastEnd(n) == view[n].count % 256 >= MIN_MEMBERS

\* fetch_message receives memb_count as a uint8_t and reads a line only when
\* there are enough members; at the end of the file messages are empty.
Fetches(n) == view[n].count % 256 >= MIN_MEMBERS /\ unread[n] > 0

\* send_operation of a member
SendMessage(n) ==
  /\ Wakes(n, "SEND") /\ turn = n /\ view[n].stage[n] = "MEMBER"
  /\ LET body == IF Fetches(n) THEN bcast + 1 ELSE Empty
     IN  /\ unread' = [unread EXCEPT ![n] = IF Fetches(n) THEN @ - 1 ELSE @]
         /\ bcast'  = IF Fetches(n) THEN body ELSE bcast
         /\ latest' = [latest EXCEPT ![n] = body]
         /\ BroadcastMessage(n, PrepareMsg(n, "MEMBER", body))
         /\ view'   = [view EXCEPT ![n].last[n] = body]
  /\ UNCHANGED <<up, age, out, starts>>

\* The values "context.cycle > 0" may have: in the slice of the cycle in which
\* the process was started it depends on when in the slice it woke up.
CycleAboveZero(n) ==
  IF age[n] < CycleLength THEN {FALSE}
  ELSE IF age[n] = CycleLength THEN BOOLEAN ELSE {TRUE}

\* Variant: a later process never sends its initialization message.
MayJoin_Never(n) == ~view[n].flag /\ ~CheckActiveNode(view[n], n)

MayJoin(n) == ~view[n].flag \/ ~CheckActiveNode(view[n], n)

\* send_operation of a process that wants to become a member
SendInit(n) ==
  /\ Wakes(n, "SEND") /\ turn = n /\ view[n].stage[n] # "MEMBER"
  /\ TRUE \in CycleAboveZero(n) /\ MayJoin(n)
  /\ BroadcastMessage(n, PrepareMsg(n, "ACTIVE", Empty))
  /\ view' = [view EXCEPT ![n].stage[n] = "ACTIVE"]
  /\ UNCHANGED <<up, age, unread, out, starts, bcast, latest>>

\* Too early to send, or another node is joining.
SendNothing(n) ==
  /\ Wakes(n, "SEND") /\ turn = n /\ view[n].stage[n] # "MEMBER"
  /\ FALSE \in CycleAboveZero(n) \/ ~MayJoin(n)
  /\ UNCHANGED <<proc, out, starts, faults, calm, faulty, bcast, latest>>

\* A receiver waits for the sender until the slice is over.  If it has a message
\* of the sender already it does not wait, and takes that one all the same.
Receives(n) ==
  /\ Wakes(n, "SEND") /\ turn # n
  /\ turn \in ran \/ ~up[turn]

\* Variant: members do not notice a newcomer.
ReceivedStage_NoNews(v, self, msg) ==
  IF v.stage[self] # "MEMBER" THEN msg.stage ELSE v.stage[turn]

\* The stage a receiver records for the sender of message msg.
ReceivedStage(v, self, msg) ==
  IF v.stage[self] # "MEMBER" THEN msg.stage
  ELSE IF v.stage[turn] = "INACTIVE" THEN "ACTIVE" ELSE v.stage[turn]

\* The places of the sender's messages in the socket of n.
FromSender(n) == {i \in DOMAIN sock[n] : sock[n][i].nodeID = turn}

\* receive_message throws other senders' messages away until it finds one.
FirstFromSender(n) == {i \in FromSender(n) : \A j \in FromSender(n) : i <= j}

\* receive_operation: what n knows once it has a message of the sender
AfterReceiving(n, msg) ==
  LET v    == UpdateView(view[n], n, turn, msg.vector)
      told == v.stage[n] # "MEMBER" /\ msg.stage = "MEMBER"
  IN  [v EXCEPT !.flag        = @ \/ told,
                !.count       = IF told /\ v.stage[turn] # "MEMBER" THEN @ + 1 ELSE @,
                !.stage[turn] = ReceivedStage(v, n, msg),
                !.last[turn]  = msg.body,
                !.sus[turn]   = msg.sus]

\* receive_operation, receive_message returned a message of the sender
ReceiveMessage(n) ==
  /\ Receives(n)
  /\ \E first \in FirstFromSender(n) :
       /\ view' = [view EXCEPT ![n] = AfterReceiving(n, sock[n][first])]
       /\ sock' = [sock EXCEPT ![n] = SubSeq(@, first + 1, Len(@))]
  /\ UNCHANGED <<up, age, unread, out, starts, faults, calm, faulty, bcast, latest>>

\* receive_operation, nothing arrived in time
ReceiveNothing(n) ==
  /\ Receives(n) /\ FromSender(n) = {}
  /\ sock' = [sock EXCEPT ![n] = <<>>]
  /\ LET v == [ForgetView(view[n], n, turn) EXCEPT !.last[turn] = Null]
     IN  view' = [view EXCEPT ![n] =
                    IF v.stage[turn] = "ACTIVE"
                    THEN [v EXCEPT !.stage[turn] = "INACTIVE"]
                    ELSE IF v.stage[turn] = "MEMBER" /\ v.stage[n] # "MEMBER"
                    THEN RemoveMembership(v, turn) ELSE v]
  /\ UNCHANGED <<up, age, unread, out, starts, faults, calm, faulty, bcast, latest>>

-----------------------------------------------------------------------------
(* The synchronised clocks. A process does nothing in a PAUSE slice.        *)

AllRan == \A n \in Node : up[n] => n \in ran

NextSlice ==
  /\ slice = "PAUSE" \/ AllRan
  /\ ran' = {n \in Node : asleep[n] > 0}
  /\ asleep' = [n \in Node |-> IF asleep[n] > 0 THEN asleep[n] - 1 ELSE 0]
  /\ age' = [n \in Node |-> IF up[n] /\ age[n] < CycleOver THEN age[n] + 1
                                                           ELSE age[n]]
  /\ \/ /\ slice = "MEMBERSHIP" /\ slice' = "SEND"
        /\ latest' = [latest EXCEPT ![turn] = Empty]
        /\ UNCHANGED <<turn, calm>>
     \/ /\ slice = "SEND" /\ slice' = "PAUSE"
        /\ UNCHANGED <<turn, calm, latest>>
     \/ /\ slice = "PAUSE" /\ slice' = "MEMBERSHIP"
        /\ turn' = IF turn = AMOUNT_NODES - 1 THEN 0 ELSE turn + 1
        /\ calm' = IF calm < Spacing THEN calm + 1 ELSE calm
        /\ UNCHANGED latest
  /\ UNCHANGED <<up, view, unread, sock, files, starts, faults, faulty, late, bcast>>

-----------------------------------------------------------------------------
Handler(n) ==
  \/ EnterMembership(n) \/ MembershipDecision(n) \/ NoDecision(n)
  \/ SendMessage(n) \/ SendInit(n) \/ SendNothing(n)
  \/ ReceiveMessage(n) \/ ReceiveNothing(n)

Next ==
  \/ NextSlice
  \/ \E n \in Node : Handler(n) \/ Start(n) \/ Crash(n) \/ Oversleep(n)

\* Time goes on: as a slice ends only when all running processes have had their
\* turn in it, this keeps all of them going.  Nobody has to start a process and
\* nothing has to fail.
Fairness == WF_vars(NextSlice \/ \E n \in Node : Handler(n))

Spec == Init /\ [][Next]_vars

FairSpec == Spec /\ Fairness

-----------------------------------------------------------------------------
(* Properties                                                               *)

IsMember(n) == up[n] /\ view[n].stage[n] = "MEMBER"

Correct(n) == IsMember(n) /\ n \notin faulty

Delivered(n) == {out[n][i] : i \in DOMAIN out[n]}

\* All running processes have decided about the sender of this turn.
Decided == slice = "MEMBERSHIP" /\ AllRan

\* The output files are those of a total order broadcast in which a line is
\* pending from its broadcast to the end of its sender's next membership
\* slice: however many processes fail and start again, every line is delivered
\* at most once per node and in the order of the broadcasts.
TOB == INSTANCE TotalOrderBroadcast
         WITH pending <- {latest[s] : s \in Node} \ {Empty}

ImplementsTOB == TOB!Spec

\* Any two nodes deliver what they both deliver in the same order, the order
\* of the broadcasts, and no line twice (deliver_message).  Nothing is said of
\* late nodes, which take old messages in their socket for new ones.
TotalOrder == TOB!TotalOrder

\* In a process that has never slept through a slice deliver_message does not
\* find last_msg at NULL: whenever membership_decision is about to deliver the
\* sender's message there is one.  Late nodes are exempt because it is not true
\* of them: after sleeping through the sender's SEND slice, or their own, they
\* decide on an old view vector and do reach deliver_message with NULL.
Delivers(n) ==
  /\ up[n] /\ slice = "MEMBERSHIP" /\ n \notin ran /\ Decides(n)
  /\ ~SelfConvicted(n) /\ Mval(AfterSuspicion(n), n, turn)
  /\ view[n].vv[n][turn] = "RECEIVED" \/ n = turn

NoNullDelivery ==
  \A n \in Node \ late : Delivers(n) => view[n].last[turn] # Null

\* Uniform agreement: once all have decided about a sender, its line is
\* delivered by every correct member or by nobody at all, not even by a
\* faulty member (mval, the same verdict at every node).
UniformAgreement ==
  Decided /\ latest[turn] # Empty =>
    \A n, m \in Node :
      latest[turn] \in Delivered(n) /\ Correct(m) => latest[turn] \in Delivered(m)

\* Validity: the line of a correct sender is delivered by the sender unless
\* the membership has become too small to decide (membership_decision).
Validity ==
  Decided /\ latest[turn] # Empty /\ Correct(turn) =>
    view[turn].count < MIN_MEMBERS \/ latest[turn] \in Delivered(turn)

\* memb_count is the number of nodes at stage MEMBER in every process
\* (enter_membership, remove_membership and receive_operation count).
CountIsExact ==
  \A n \in Node : up[n] => view[n].count = Cardinality(Members(view[n]))

\* The views that count while one correct member after the other decides in a
\* MEMBERSHIP slice: those of before the slice until the last one has decided.
Undecided == {n \in Node : Correct(n) /\ slice = "MEMBERSHIP" /\ n \notin ran}

CommonViews ==
  IF Undecided # {} THEN {Members(view[n]) : n \in Undecided}
                    ELSE {Members(view[n]) : n \in {m \in Node : Correct(m)}}

\* All correct members go through the same sequence of memberships: one node
\* is admitted or removed at a time, the same one at every member, and no
\* member that works is removed (enter_membership, membership_decision).
MS == INSTANCE MembershipService
        WITH views <- CommonViews,
             gone  <- {n \in Node : n \in faulty \/ (up[n] /\ ~IsMember(n))}

ImplementsMembership == MS!Spec

\* When no member heard the sender's last message, every member that can
\* still decide has removed it, and the sender itself is gone: silence is
\* recognised within one cycle (check_sender_omission at every node).  Late
\* nodes, which may have slept through the decision, are exempt.
SilentSenderRemoved ==
  Decided /\ (\A n \in Node \ {turn} : IsMember(n) => view[n].vv[n][turn] # "RECEIVED") =>
    \A n \in Node \ late :
      IsMember(n) /\ turn \in Members(view[n]) => view[n].count < MIN_MEMBERS

\* A process that has suffered no failure never ends: one failure does not
\* make the others convict each other (handle_suspicion, mval).
OnlyFaultyEnd ==
  [][\A n \in Node : up[n] /\ ~up'[n] => n \in faulty']_vars

\* A member does not become a mere listener again: it leaves the membership
\* by ending its process, whoever removes it from the own view.
MemberUntilEnd ==
  [][\A n \in Node : IsMember(n) /\ up'[n] => view'[n].stage[n] = "MEMBER"]_vars

\* A node that fails is recognised as faulty within one round: two cycles
\* after the failure, when its message has been missed and decided about, no
\* other member that can decide has it in its view.
FaultRecognised ==
  calm > 2 * AMOUNT_NODES =>
    \A n \in faulty : \A m \in Node \ {n} :
      IsMember(m) /\ n \in Members(view[m]) => view[m].count < MIN_MEMBERS

\* The last message of a node recognised as faulty is not delivered: who
\* removes the sender in this slice has not delivered its line.
LastMessageNotDelivered ==
  Decided /\ latest[turn] # Empty =>
    \A m \in Node :
      IsMember(m) /\ turn \notin Members(view[m]) => latest[turn] \notin Delivered(m)

\* A joining process that wrongly takes a member for gone does not enter: it
\* has not missed the last message of a running member that has sent one as
\* a member (remove_membership in receive_operation).
WrongRemovalNeverEnters ==
  [][\A n, m \in Node :
       /\ up[n] /\ view[n].flag /\ ~IsMember(n) /\ view'[n].stage[n] = "MEMBER"
       /\ IsMember(m) /\ view[m].last[m] # Null
       => view[n].vv[n][m] # "NOT_RECEIVED"]_vars

\* Processes that stay up end up in one membership of all of them.
Established ==
  (\A n \in Node : <>[]up[n]) =>
    <>[](\A n \in Node : up[n] /\ Members(view[n]) = Node)
=============================================================================
