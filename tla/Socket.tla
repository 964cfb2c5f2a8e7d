------------------------------- MODULE Socket -------------------------------
(***************************************************************************)
(* How one process receives (prototype/src/communication.c): what the two  *)
(* copies of every broadcast, copies that are late by any time (the gates  *)
(* of setup.sh hold one that misses its slice until the next SEND slice)   *)
(* and messages left over from earlier slices do to receive_message.       *)
(*                                                                         *)
(* Turns are numbered; the sender of turn k is node k % AMOUNT_NODES and a *)
(* message is the number of the turn it was sent in.  Time is in ticks and *)
(* jumps from event to event; the code between two events takes none,      *)
(* except that a process may enter receive_message late.                   *)
(***************************************************************************)
EXTENDS Integers, Sequences, FiniteSetsExt

CONSTANTS
  AMOUNT_NODES,
  SELF_ID,
  SLICE_DURATION, \* ticks
  Delays,         \* how long a copy may travel
  Lateness,       \* how late after waking up receive_message may be entered
  LastTurn,       \* later turns are not modelled
  UINT64          \* stands for 2^64: longer than any behaviour

ASSUME SocketAssumption ==
  /\ AMOUNT_NODES \in 3..8 /\ SELF_ID \in 0..(AMOUNT_NODES - 1)
  /\ SLICE_DURATION \in Nat \ {0} /\ LastTurn \in Nat
  /\ Delays \subseteq Nat /\ Lateness \subseteq Nat
  /\ UINT64 \in Nat /\ UINT64 > 100 * SLICE_DURATION * (LastTurn + 1)

VARIABLES
  now,     \* the time
  sent,    \* the next turn to be broadcast in
  flying,  \* the copies on the wire, with the time they arrive at
  socket,  \* the messages waiting in g_socket
  waiting, \* the process is blocked in ppoll ...
  turn,    \* ... or will be in the SEND slice of this turn
  ts,      \* the timeout computed by set_recv_timeout
  timer,   \* when ppoll times out, or else when receive_message is entered
  result,  \* history: what the last receive_message returned, and when
  arrived, \* history: turns a copy of whose message arrived in its slice
  overdue  \* history: copies that arrived when the next turn had begun to send

vars == <<now, sent, flying, socket, waiting, turn, ts, timer, result, arrived,
          overdue>>

SLICES_IN_TURN == 3
MAX_RECV_DELAY == SLICE_DURATION \div 10
None           == -1
Sender(k)      == k % AMOUNT_NODES

\* The SEND slice of turn k is the second one of the turn.
SliceStart(k) == (k * SLICES_IN_TURN + 1) * SLICE_DURATION
SliceEnd(k)   == SliceStart(k) + SLICE_DURATION

\* The next turn of another node whose SEND slice is not over at time t.
NextTurn(k, t) ==
  Min({j \in (k + 1)..(k + t + 3) : Sender(j) # SELF_ID /\ SliceEnd(j) > t})

\* The times at which a process that is ready at time t enters receive_message
\* in the SEND slice of turn k.
EntryTimes(k, t) == {Max({t, SliceStart(k)}) + late : late \in Lateness}

Init ==
  /\ now = 0 /\ sent = 0 /\ flying = {} /\ socket = <<>>
  /\ waiting = FALSE /\ ts = 0
  /\ turn = NextTurn(-1, 0) /\ timer \in EntryTimes(turn, 0)
  /\ result = [turn |-> None, msg |-> None, at |-> 0]
  /\ arrived = {} /\ overdue = {}

\* ppoll returns at once when a message waits: nothing else happens first.
Readable == waiting /\ socket # <<>>

\* Time moves on to t, the next event.
Happens(t) ==
  /\ ~Readable
  /\ \A u \in {SliceStart(sent), timer} \cup {copy.at : copy \in flying} : t <= u
  /\ now' = t

\* broadcast_message of the sender of the turn: each of the two copies takes
\* its own time, or is lost.  They are alike: let the first be the faster one,
\* and the one that arrives if the other is lost.
Broadcast ==
  /\ sent <= LastTurn /\ Happens(SliceStart(sent))
  /\ \E copies \in {{}, {1}, {1, 2}}, delay \in [{1, 2} -> Delays] :
       /\ delay[1] <= delay[2]
       /\ flying' = IF Sender(sent) = SELF_ID THEN flying
                    ELSE flying \cup
                      {[msg |-> sent, copy |-> c, at |-> now' + delay[c]] : c \in copies}
  /\ sent' = sent + 1
  /\ UNCHANGED <<socket, waiting, turn, ts, timer, result, arrived, overdue>>

Arrive ==
  /\ \E copy \in flying :
       /\ Happens(copy.at)
       /\ flying' = flying \ {copy}
       /\ socket' = Append(socket, copy.msg)
       /\ arrived' = IF copy.at <= SliceEnd(copy.msg) THEN arrived \cup {copy.msg}
                                                      ELSE arrived
       /\ overdue' = IF copy.at >= SliceStart(copy.msg + 1)
                     THEN overdue \cup {[msg |-> copy.msg, at |-> copy.at]} ELSE overdue
  /\ UNCHANGED <<sent, waiting, turn, ts, timer, result>>

\* receive_message returns and the process sleeps until its next one.  The
\* histories keep what is later than this turn or still in the socket.
Return(msg) ==
  /\ waiting' = FALSE
  /\ result' = [turn |-> turn, msg |-> msg, at |-> now']
  /\ turn' = NextTurn(turn, now')
  /\ timer' \in EntryTimes(turn', now')
  /\ arrived' = {k \in arrived : k > turn}
  /\ overdue' = {c \in overdue : \E i \in DOMAIN socket' : socket'[i] = c.msg}

\* Variant: the time to the next turn, not to the next slice.
TimeToNextSlice_Turn(k, t) ==
  (SliceEnd(k) + 2 * SLICE_DURATION - t) % UINT64

\* next_slice_time as set_recv_timeout keeps it, in an unsigned variable.
TimeToNextSlice(k, t) == (SliceEnd(k) - t) % UINT64

\* us_to_ts takes the number as a signed one and makes a negative one 0.
UsToTs(time_span) ==
  Max({0, IF time_span < UINT64 \div 2 THEN time_span ELSE time_span - UINT64})

\* receive_message is entered: set_recv_timeout, and the first ppoll.
Enter ==
  /\ ~waiting /\ turn <= LastTurn /\ Happens(timer)
  /\ UNCHANGED <<sent, flying, socket>>
  /\ LET time_to_next_slice == TimeToNextSlice(turn, now')
     IN  IF time_to_next_slice <= 0
         THEN Return(None) /\ UNCHANGED ts
         ELSE /\ UNCHANGED <<arrived, overdue>> /\ waiting' = TRUE
              /\ ts' = UsToTs((time_to_next_slice + MAX_RECV_DELAY) % UINT64)
              /\ timer' = now' + ts'
              /\ UNCHANGED <<turn, result>>

\* Variant: whoever sent it.
Expected_Anyone(msg) == TRUE

\* Variant: only a message of this very turn.
Expected(msg) == Sender(msg) = Sender(turn)

\* Variant: gives up after a message of another sender.
ReadOn_Never == Return(None) /\ UNCHANGED ts

\* ppoll again, with the whole timeout.
ReadOn ==
  /\ timer' = now + ts
  /\ UNCHANGED <<waiting, turn, ts, result, arrived, overdue>>

\* recv: the message at the head of the socket's queue is taken.
Recv ==
  /\ Readable
  /\ socket' = Tail(socket) /\ now' = now
  /\ IF Expected(Head(socket)) THEN Return(Head(socket)) /\ UNCHANGED ts
                               ELSE ReadOn
  /\ UNCHANGED <<sent, flying>>

TimeOut ==
  /\ waiting /\ Happens(timer)
  /\ UNCHANGED <<sent, flying, socket, ts>>
  /\ Return(None)

Next == Broadcast \/ Arrive \/ Enter \/ Recv \/ TimeOut

Spec == Init /\ [][Next]_vars

-----------------------------------------------------------------------------
(* Properties                                                               *)

\* receive_message has returned an earlier turn's message as that of its turn.
Stale(r) == r.msg # None /\ r.msg < r.turn

\* receive_message was entered exactly when its slice ended: set_recv_timeout
\* refuses a timeout of 0, and the socket is left unread.
Refused(r) == r.msg = None /\ r.at = SliceEnd(r.turn)

\* The last receive_message was back before the SEND slice of turn k.
BackBefore(k) == result.at < SliceStart(k)

Returns == result' # result

\* A copy of the message came when the SEND slice of the next turn had begun.
Overdue(msg) == \E copy \in overdue : copy.msg = msg

\* Such a copy of another sender's message came in a span of time.
Comes(from, to) ==
  \E copy \in overdue :
    Sender(copy.msg) # Sender(turn) /\ from <= copy.at /\ copy.at <= to

\* Messages carry no sequence number, yet a process takes one for the sender's
\* message of a later cycle only if a copy of that very message came when the
\* next turn had begun to send, or else if it is behind already: the socket
\* was refused, or its last message was a stale one.  Copies that are left over
\* in the socket are thrown away in time (receive_message).
StaleOnlyIfOverdue ==
  [][Returns /\ Stale(result') =>
       Overdue(result'.msg) \/ Stale(result) \/ Refused(result)]_vars

\* receive_message returns nothing only if no copy of the message came in its
\* slice, whatever is in the socket before it.  There are two exceptions: it was
\* entered in the very instant in which the slice ended, or the receive_message
\* before it went on into this slice and has thrown the message away.
TimelyMessageReceived ==
  [][Returns /\ result'.msg = None /\ turn \in arrived =>
       Refused(result') \/ ~BackBefore(turn)]_vars

\* The whole timeout starts again with every message that is thrown away, but
\* nothing that is left over keeps a process beyond its slice and
\* MAX_RECV_DELAY: only another sender's message that is a turn or more late,
\* and comes while the process waits (receive_message).
ReturnsInTime ==
  [][Returns /\ BackBefore(turn) /\ now' > SliceEnd(turn) + MAX_RECV_DELAY =>
       Comes(SliceStart(turn), SliceEnd(turn) + MAX_RECV_DELAY)]_vars

\* However often the timeout starts again, a process has left receive_message
\* when the SEND slice of the next turn begins, unless another sender's message
\* that is a turn or more late came between the two SEND slices: one that was
\* held by the sender's gate comes within the slice (receive_message).
NextTurnKept ==
  [][Returns /\ now' >= SliceStart(turn + 1) =>
       Comes(SliceEnd(turn) + 1, SliceStart(turn + 1) - 1)]_vars
=============================================================================
