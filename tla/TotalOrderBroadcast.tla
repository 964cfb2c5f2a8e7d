------------------------ MODULE TotalOrderBroadcast ------------------------
(***************************************************************************)
(* What the service promises about the output files, whoever fails: lines  *)
(* are numbered in the order in which they are broadcast; the oldest line  *)
(* that is still undecided is the only one a node may deliver, at most     *)
(* once; once it is decided nobody delivers it any more.  A node that is   *)
(* killed may lose the end of its file.  Nothing is promised about the     *)
(* file of a node that has once been late.                                 *)
(***************************************************************************)
EXTENDS Naturals, Sequences

CONSTANT Node

VARIABLES
  bcast,   \* number of lines broadcast so far
  pending, \* the lines not yet decided
  out,     \* out[n]: the lines node n has delivered, in order
  late     \* the nodes that have been late, ever

Init ==
  /\ bcast   = 0
  /\ pending = {}
  /\ out     = [n \in Node |-> <<>>]
  /\ late    = {}

Oldest(line) == line \in pending /\ \A other \in pending : line <= other

Delivered(n) == {out[n][i] : i \in DOMAIN out[n]}

Broadcast ==
  /\ bcast'   = bcast + 1
  /\ pending' = pending \cup {bcast + 1}
  /\ UNCHANGED <<out, late>>

Deliver(n) ==
  \E line \in pending :
    /\ Oldest(line) /\ line \notin Delivered(n)
    /\ out' = [out EXCEPT ![n] = Append(@, line)]
    /\ UNCHANGED <<bcast, pending, late>>

Decide ==
  \E line \in pending :
    /\ Oldest(line)
    /\ pending' = pending \ {line}
    /\ UNCHANGED <<bcast, out, late>>

Lose(n) ==
  \E k \in 0..Len(out[n]) :
    /\ out' = [out EXCEPT ![n] = SubSeq(@, 1, k)]
    /\ UNCHANGED <<bcast, pending, late>>

GoesLate(n) ==
  /\ late' = late \cup {n}
  /\ UNCHANGED <<bcast, pending, out>>

\* A late node works on messages of an earlier cycle.
Stray(n) ==
  /\ n \in late
  /\ \E line \in 1..bcast : out' = [out EXCEPT ![n] = Append(@, line)]
  /\ UNCHANGED <<bcast, pending, late>>

Next ==
  \/ Broadcast \/ Decide
  \/ \E n \in Node : Deliver(n) \/ Lose(n) \/ GoesLate(n) \/ Stray(n)

vars == <<bcast, pending, out, late>>

Spec == Init /\ [][Next]_vars

\* Every output file lists lines in the order in which they were broadcast,
\* none twice: hence any two nodes deliver what they both deliver in the same
\* order (deliver_message, membership_decision).
TotalOrder ==
  \A n \in Node \ late : \A i, j \in DOMAIN out[n] : i < j => out[n][i] < out[n][j]
=============================================================================
