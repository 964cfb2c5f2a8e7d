----------------------------- MODULE Membership -----------------------------
(***************************************************************************)
(* The membership rules of one node (prototype/src/membership.c) as        *)
(* operators on the node's local data: the node_states array together with *)
(* the globals membership_flag and memb_count.  A "view" is that data in   *)
(* one process; every operator takes a view (and the ID of the process     *)
(* that owns it, where the code reads SELF_ID) and returns a truth value,  *)
(* a node ID or the view the code leaves behind.                           *)
(***************************************************************************)
EXTENDS Integers, FiniteSets

CONSTANT AMOUNT_NODES      \* second command line argument, same on every node

\* init_time refuses fewer than 3 nodes, init_service more than MAX_NODES = 8
\* (the view vector travels as one byte).
ASSUME NodesAssumption == AMOUNT_NODES \in 3..8

MIN_MEMBERS == 3
Node        == 0..(AMOUNT_NODES - 1)
Stage       == {"INACTIVE", "ACTIVE", "MEMBER"}
Information == {"NO_INFO", "NOT_RECEIVED", "RECEIVED"}
Suspicion   == [flag : BOOLEAN, trigger : Node]

\* A message body: 0 is the empty message, a positive number the identity of
\* a line taken from an input file, Null the NULL pointer in last_msg.
Null  == -1
Empty == 0
Body  == Nat

View == [ stage : [Node -> Stage],                 \* node_states[i].stage
          vv    : [Node -> [Node -> Information]], \* node_states[i].node_vv
          sus   : [Node -> Suspicion],             \* node_states[i].sus
          last  : [Node -> Body \cup {Null}],      \* node_states[i].last_msg->data
          flag  : BOOLEAN,                         \* membership_flag
          count : Int ]                            \* memb_count

\* The zeroed memory init_membership starts from.
InitView == [ stage |-> [i \in Node |-> "INACTIVE"],
              vv    |-> [i \in Node |-> [j \in Node |-> "NO_INFO"]],
              sus   |-> [i \in Node |-> [flag |-> FALSE, trigger |-> 0]],
              last  |-> [i \in Node |-> Null],
              flag  |-> FALSE,
              count |-> 0 ]

Members(v) == {i \in Node : v.stage[i] = "MEMBER"}

-----------------------------------------------------------------------------
(* The neighbours of a node on the ring of members.  Both loops of the code *)
(* stop at nodeID itself, which they then return.                           *)

Nearest(v, nodeID, at) ==
  LET distances == {d \in 1..(AMOUNT_NODES - 1) : at[d] \in Members(v)}
  IN  IF distances = {} THEN nodeID
      ELSE at[CHOOSE d \in distances : \A e \in distances : d <= e]

GetPrevMember(v, nodeID) ==
  Nearest(v, nodeID, [d \in 1..(AMOUNT_NODES - 1) |->
                        (nodeID + AMOUNT_NODES - d) % AMOUNT_NODES])

GetNextMember(v, nodeID) ==
  Nearest(v, nodeID, [d \in 1..(AMOUNT_NODES - 1) |->
                        (nodeID + d) % AMOUNT_NODES])

-----------------------------------------------------------------------------
(* Joining                                                                  *)

\* Is another node, as far as this one has heard, in the middle of joining?
CheckActiveNode(v, self) == \E i \in Node \ {self} : v.stage[i] = "ACTIVE"

\* Every member's latest view vector confirms the initialization message.
CheckAckInitMsg(v, nodeID) ==
  \A i \in Members(v) : v.vv[i][nodeID] = "RECEIVED"

\* Without a membership one other node that heard the message is enough.
EstablishMembership(v, nodeID) ==
  \E i \in Node : v.stage[i] # "INACTIVE" /\ v.vv[i][nodeID] = "RECEIVED"

CanJoin(v, nodeID) ==
  IF v.flag THEN CheckAckInitMsg(v, nodeID) ELSE EstablishMembership(v, nodeID)

\* Variant: memb_count forgotten.
Enter_NoCount(v, nodeID) == [v EXCEPT !.stage[nodeID] = "MEMBER", !.flag = TRUE]

\* What enter_membership writes when the join succeeds.
Enter(v, nodeID) ==
  [v EXCEPT !.stage[nodeID] = "MEMBER", !.flag = TRUE, !.count = @ + 1]

Acquit(suspicion) == [flag |-> FALSE, trigger |-> suspicion.trigger]

\* Variant: memb_count forgotten.
RemoveMembership_NoCount(v, nodeID) == [v EXCEPT !.stage[nodeID] = "INACTIVE"]

\* Leaving the membership also acquits the next member on the ring of a
\* suspicion that the leaving node triggered.
RemoveMembership(v, nodeID) ==
  LET next == GetNextMember(v, nodeID)
  IN  [v EXCEPT !.sus[next]     = IF @.trigger = nodeID THEN Acquit(@) ELSE @,
                !.stage[nodeID] = "INACTIVE",
                !.count         = @ - 1]

-----------------------------------------------------------------------------
(* The membership decision                                                  *)

\* A suspicion of last cycle turns into a conviction when the node whose
\* message was missed is still there.
Convicted(v, nodeID) ==
  v.sus[nodeID].flag /\ v.stage[v.sus[nodeID].trigger] # "INACTIVE"

HandleSuspicion(v, nodeID) ==
  IF Convicted(v, nodeID)
  THEN RemoveMembership(v, nodeID)
  ELSE [v EXCEPT !.sus[nodeID] = Acquit(@)]

\* The members that report not to have received nodeID's last message.
Omitted(v, nodeID) ==
  {i \in Members(v) \ {nodeID} : v.vv[i][nodeID] = "NOT_RECEIVED"}

\* Variant: a single missed reception blames the sender.
CountOmittedReceptions_One(v, nodeID) == Omitted(v, nodeID) = {}

\* Variant: two missed receptions are tolerated, and a third.
CountOmittedReceptions_Three(v, nodeID) == Cardinality(Omitted(v, nodeID)) < 4

CountOmittedReceptions(v, nodeID) == Cardinality(Omitted(v, nodeID)) < 2

\* Variant: the sender never blames itself.
CheckSenderOmission_NoCount(v, self, nodeID) ==
  nodeID = self \/ v.vv[self][nodeID] = "RECEIVED"

CheckSenderOmission(v, self, nodeID) ==
  \/ nodeID # self /\ v.vv[self][nodeID] = "RECEIVED"
  \/ CountOmittedReceptions(v, nodeID)

\* compare_vv returns its verdict as a uint8_t: the -1 reaches the caller
\* as 255.
CompareVV(v, prevID, nodeID) ==
  IF \E i \in Node \ {prevID, nodeID} :
        v.vv[prevID][i] = "RECEIVED" /\ v.vv[nodeID][i] # "RECEIVED"
  THEN (-1) % 256
  ELSE 0

PrevReceived(v, nodeID) ==
  v.vv[nodeID][GetPrevMember(v, nodeID)] = "RECEIVED"

\* A second member, besides the predecessor, that nodeID did not hear.
MissedAnotherMember(v, nodeID) ==
  \E i \in Members(v) \ {nodeID, GetPrevMember(v, nodeID)} :
     v.vv[nodeID][i] = "NOT_RECEIVED"

CheckReceiverOmission(v, nodeID) ==
  IF PrevReceived(v, nodeID)
  THEN ~(CompareVV(v, GetPrevMember(v, nodeID), nodeID) < 0)
  ELSE ~MissedAnotherMember(v, nodeID)

\* check_receiver_omission leaves a node that missed only its predecessor's
\* message in suspicious mode.
EnterSuspicion(v, nodeID) ==
  IF PrevReceived(v, nodeID) \/ MissedAnotherMember(v, nodeID) THEN v
  ELSE [v EXCEPT !.sus[nodeID] =
                   [flag |-> TRUE, trigger |-> GetPrevMember(v, nodeID)]]

Mval(v, self, nodeID) ==
  CheckSenderOmission(v, self, nodeID) /\ CheckReceiverOmission(v, nodeID)

-----------------------------------------------------------------------------
(* The view vectors                                                         *)

\* The members of the set "vector" are the bits set in the received byte.
UpdateView(v, self, nodeID, vector) ==
  [v EXCEPT !.vv[nodeID] = [i \in Node |-> IF i \in vector THEN "RECEIVED"
                                                           ELSE "NOT_RECEIVED"],
            !.vv[self][nodeID] = "RECEIVED"]

\* Variant: the own view vector is not updated.
ForgetView_KeepsOwn(v, self, nodeID) ==
  [v EXCEPT !.vv[nodeID] = [i \in Node |-> "NO_INFO"]]

\* update_view with a NULL vector: nothing was received from nodeID.
ForgetView(v, self, nodeID) ==
  [v EXCEPT !.vv[nodeID] = [i \in Node |-> "NO_INFO"],
            !.vv[self][nodeID] = "NOT_RECEIVED"]

\* array_to_byte: the vector a node attaches to its own message.
ArrayToByte(v, self) == {i \in Node : v.vv[self][i] = "RECEIVED"}
=============================================================================
