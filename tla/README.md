# Formal models of the Time Aware Total Order Broadcast

`prototype/` implements the synchronous total order broadcast of Kopetz et al.
(thesis.pdf, README.md): up to eight processes with synchronised clocks share a
TDMA cycle, broadcast one message each per cycle, agree on who is a member from
the *view vectors* they attach to their messages, and deliver a member's message
one cycle after it was sent. This directory holds TLA+ models of it, the TLC
configurations that check them, and proofs for TLAPS.

    tlc -config MCTimeAwareTOB_omission.cfg MCTimeAwareTOB.tla
    tlapm TotalOrderProofs.tla

## The system

| Component (source) | State | Operations | Interaction |
|---|---|---|---|
| Main loop (`main.c`) | none of its own | `init_service`; loop of `update_time`, `slice_switch`, `sleep_next_slice`; `q` ends | drives everything below |
| Service time (`service_time.c`, `time_util.c`) | `context` (cycle, turn, slice, times), durations, `stuck_membership` | `init_time`, `update_time`, `check_slice_skip`, `increase_cycle`, `next_slice_time`, `sleep_next_slice` | reads `memb_count`, may shut the process down; everybody reads `context` |
| Slice handlers (`node.c`) | none of its own | `slice_switch`, `send_operation`, `receive_operation`, `shutdown_node` | calls membership, communication, interface |
| Membership (`membership.c`) | `node_states` (stage, view vector, suspicion, last message of every node), `membership_flag`, `memb_count` | `enter_membership`, `membership_decision`, `mval`, `handle_suspicion`, `remove_membership`, `update_view` | shared with `node.c` through globals; shuts the process down |
| Communication (`communication.c`) | the socket and its queue | `broadcast_message` (sends twice), `receive_message`, `prepare_msg` | Ethernet broadcast |
| Interface (`interface.c`) | input file, output file | `fetch_message`, `deliver_message` | writes what was received into the output file |
| Failures (`failures.c`) | - | `simulate_failure` (called from nowhere, "untested") | names the kinds of failure |
| Log, benchmark build, scripts | files | - | no influence on the protocol |

A turn has three slices. In **MEMBERSHIP** every process decides about the node
whose turn it is - deliver its last message, remove it, or admit it; in **SEND**
that node broadcasts and the others receive; **PAUSE** does nothing. So a message
sent in turn *s* is decided about in turn *s* of the next cycle, when every member
has reported in its view vector whether it heard it.

What is hard here: each process decides alone, yet all have to come to the same
verdict about a broadcast that some of them missed; a verdict depends on a whole
cycle of messages, and the membership may change in that cycle; suspicion spreads
a decision over two cycles; processes join by a protocol of their own while nothing
is established; crash and restart happen between any two slices and take buffered
output with them; a process that has slept through slices goes on with old messages
in its socket; clocks are read at one place and used at another; counters have eight
bits. `PROJECT.json` lists these hazards with their lines.

What makes the components correct:

- *membership*: exact count, agreement of the correct members' views, failed nodes
  recognised, correct nodes not convicted, eventual establishment;
- *delivery*: total order, no duplicates, uniform agreement, validity, never a
  missing message;
- *time*: every slice once and in order, in range, skipped slices noticed;
- *communication*: the message of this turn or nothing, in time, unless a message is a
  turn or more late; what those can do is limited to the process that reads them.

## The modules

| Module | Models |
|---|---|
| `Membership` | `membership.c` and `array_to_byte` as operators on one process's data, a record called a *view* |
| `TimeAwareTOB` | all processes: one action per branch of `slice_switch`, start, the four kinds of failure, sockets, files, and the synchronised clocks |
| `TotalOrderBroadcast` | the abstract service seen in the output files: broadcast, deliver the oldest undecided line, decide, lose the end of a file |
| `MembershipService` | the abstract service seen in the members' views: one membership that changes by one node at a time |
| `TimeAwareTOBProofs` | theorems about `TimeAwareTOB`: types, messages held, members stay |
| `TotalOrderProofs` | theorems about `TimeAwareTOB`: order of the files, refinement of `TotalOrderBroadcast` |
| `ValidityProofs` | theorem about `TimeAwareTOB`: a correct sender delivers its own lines, whatever fails |
| `FaultFreeProofs` | theorems about `TimeAwareTOB` when nothing fails: agreement, exact count, refinement of `MembershipService` |
| `FaultToleranceProofs` | theorems about `TimeAwareTOB` under the fault hypothesis: the same ones, and failures are recognised |
| `CycleWatch` | the two-member watchdog of `increase_cycle` |
| `CycleWatchProofs` | the theorem that the watchdog never fires |
| `ServiceTime` | one process following the clock; extends `CycleWatch` |
| `ServiceTimeProofs` | theorems about `ServiceTime`: the four properties of the run `late` |
| `Socket` | one process's `receive_message` with its socket queue, two copies per message, delays |
| `SocketProofs` | theorems about `Socket`: the four properties of the run `copies` |
| `MCTimeAwareTOB`, `MCServiceTime`, `MCSocket` | values of constants for TLC |

Definitions whose comment starts with *Variant:* are deliberately wrong versions
of the definition below them. They are used by no specification; `PROJECT.json`
("mutants") says which property each one breaks.

### TimeAwareTOB

`view[n]` is the memory of process *n* and `sock[n]` the queue of its socket; a
process that ends loses both (`ProcessEnds`, for `shutdown_node` and crashes alike),
while `out[n]`, the output file, stays, except for what was still buffered. `turn` and
`slice` are the clocks, `ran` the processes that have already run their handler in
this slice. Handlers of one slice run in any order, except that a receiver waits for
the sender: `receive_message` blocks until the message has come or the slice is over.
`NextSlice` moves the clocks on when every running process has had its turn.

| Code | Action |
|---|---|
| `slice_switch`, MEMBERSHIP, first condition: `membership_decision` | `MembershipDecision` |
| second condition: `enter_membership` | `EnterMembership` |
| neither | `NoDecision` |
| `send_operation`, three branches | `SendMessage`, `SendInit`, `SendNothing` |
| `receive_operation`, message or not | `ReceiveMessage`, `ReceiveNothing` |
| `init_service` | `Start` |
| `q`, or a kill | `Crash` |
| timing failure (failures.c 21-26), a skipped slice (service_time.c 38-49) | `Oversleep` |
| `update_time`, `sleep_next_slice` | `NextSlice` |

Decisions taken in the model:

- A message body is 0 (empty) or the number of a line in the order of broadcast;
  `Null` is the NULL pointer. Lines are therefore all different.
- `broadcast_message` puts two copies into the socket of every listener; a *sender
  omission* loses both, a *receiver omission* both at one receiver.
  `simulate_failure`, which nothing calls, would make the omissions by
  skipping the send or receive; here they are losses on the wire. That one copy is lost
  or late is in `Socket` (run `copies`): it has the effect of one message as long as no
  copy is a turn late. Messages that are a turn or more late (held by the gates
  of setup.sh, say) are in `Socket` only; here old messages reach a process because
  it was late itself.
- `receive_message` takes the first message of the sender of the turn, throws away
  what is in front of it and leaves what is behind. The second copy therefore stays
  until the next turn, and a process that has slept for a cycle finds the message of
  a cycle ago: without sequence numbers it takes it for the current one.
- *Timing failure*: `Oversleep` lets a process miss one slice or several (`Naps`, up
  to a cycle) and go on with the slice it finds, as the run `skip` shows it does. A
  delay is always a number of whole slices, begins before the handler, and nobody
  oversleeps a PAUSE slice alone, which would have no effect. `late` remembers such
  nodes for ever. Nothing is promised about what they deliver: they may reach `deliver_message` with NULL (they have missed their own SEND slice), deliver a
  line twice or in the wrong order. Properties of each process's own data
  (`TotalOrder`, `NoNullDelivery`, `SilentSenderRemoved`) exempt late nodes, those
  about what the *others* make of a failure do not.
- `fprintf` to the output file is buffered and the code never flushes. A kill loses
  any number of lines at the end of the file, up to `Unwritten`; what an earlier process
  of the node has written (`disk`) stays, because the file is opened for appending.
  A line that is torn in the middle counts as lost.
- `age` stands for `context.cycle > 0`: in the slice exactly a cycle after the
  start the condition may be true or false, depending on where in the slice the
  process was started. `ServiceTime` (property `AgeTellsCycle`) shows just that.
- Where the code reads `memb_count` as a `uint8_t` (`fetch_message`) the model
  takes it modulo 256; `compare_vv` returns `(-1) % 256` as the code does.
- A conviction by `handle_suspicion` does not end the decision about another
  node: the code returns into `membership_decision`, and so does the model.
- `increase_cycle`'s shutdown of a two-member membership is left out, because
  `CycleWatch` shows that it never happens.
- History variables (`faulty`, `late`, `bcast`, `latest`) record what properties
  speak of and guard no action; `faults`, `calm`, `starts` are bounds of the
  environment.

The protocol's fault hypothesis (thesis, fault hypothesis of the membership
protocol) is one failure at a time, the next one only after the first has been
dealt with. The constant `Spacing` is the number of turns without failure before
each one: `Spacing = 12` with four nodes is three cycles, `Spacing = 0` any moment.
Three cycles are enough for crashes and omissions. A process that comes back late
acts on what it knew before; the others first suspect it and then convict it, which
takes up to four cycles, hence `Spacing = 16` where timing failures are among several.

### The abstract services

`TotalOrderBroadcast` knows the lines that have been broadcast and not yet decided
(`pending`) and the output files. A step broadcasts a line, appends the oldest pending
line to a file that does not have it, decides the oldest pending line, or cuts the end
off a file; about the file of a node that was late nothing is promised. In the
refinement `pending` is `latest`, a line being pending from its broadcast to the end of
its sender's next MEMBERSHIP slice.

`MembershipService` has one membership, or none. Nodes are admitted or removed one
at a time, and only nodes that have failed or are new are removed. In
the refinement the membership is what the correct members see: while one after the
other decides in a MEMBERSHIP slice it is the view of those that have not decided yet, so
that the slice as a whole is one step and two correct members that decide differently
are a step of no kind.

### ServiceTime and CycleWatch

Times are in ticks. A cycle of 18 ticks has nine slices of two; a requested 20
becomes 27, nine slices of three. `InitTimes` runs through every phase of a cycle and lies far from 0, as
microseconds since the epoch do, with `Horizon < 2 * InitTimes`: that is what the
sum of two absolute times in `check_slice_skip` is compared with. `MaxDelay` is how
late a wake-up may be, which also stands for handlers that overrun.
`cycle` is only ever compared with 0 and is kept at 0 or 1.

### Socket

Time jumps from event to event; each of the two copies of a broadcast has its own
delay, or is lost. The process enters `receive_message` up to `Lateness` after it
could, reads its queue in order, throws away other senders' messages and starts
`ppoll` again with the whole timeout. `UINT64` stands for 2^64 and is larger than
any time of a behaviour; the unsigned remainder and `us_to_ts`'s signed reading
of it are both modelled.

`setup.sh` (36-44) gives every sender a gate that is open once per turn, so that a
broadcast that misses its slice goes out a turn later, in another node's slice. The
comment at communication.c:55 asks whether "msgs that arrived too late may get read in next
cycle". They do. Since messages carry no sequence number, a process takes
such a message for the next one of its sender; and one that comes while the process waits for
another sender starts the whole timeout again, so that it waits longer than its slice and
`MAX_RECV_DELAY`. What the code does achieve, and the properties state, is
that nothing *but* such a message has these effects:

- `StaleOnlyIfOverdue`: a left-over copy that came before the next turn began to send is never
  taken for a new message. An old message is taken only if a copy of it came later than
  that, or after the process has fallen behind by a refused or a stale read.
- `TimelyMessageReceived`: what has come in its slice is received, whatever lies in front
  of it. There are two exceptions. A process that enters exactly at the end of the slice computes
  a time of 0, which `set_recv_timeout` takes for an error: `receive_message` returns without
  reading the socket (communication.c:47). And a process that is still in its last
  `receive_message` throws the new message away there.
- `ReturnsInTime`: it returns within the slice and `MAX_RECV_DELAY` unless another
  sender's overdue message comes in that time.
- `NextTurnKept`: even then it has returned before the next SEND slice begins, unless such a
  message comes between the two SEND slices. One that the gate has held comes within a
  SEND slice and does not have that effect. A process that is kept longer may miss its
  MEMBERSHIP slice: that is a timing failure, `Oversleep` of `TimeAwareTOB`.

`overdue` and `arrived` are histories, cut back to what later steps can depend on.

## What is checked

| Run | Instance | Shows |
|---|---|---|
| `startup` | 3 nodes, started in any order and slice, 1 line each, no failure, fair | `TypeOK`, `CountIsExact`, `Validity`, `OnlyFaultyEnd`, `ImplementsMembership`, `Established` |
| `omission` | 4 members, 2 lines each, 2 failures of all four kinds, 16 turns apart, naps of 12 slices | `UniformAgreement`, `SilentSenderRemoved`, `OnlyFaultyEnd`, `ImplementsMembership` |
| `rejoin` | 4 members, 1 crash, sender omission or nap of one slice, restart, fair | `CountIsExact`, `UniformAgreement`, `ImplementsMembership`, `Established` |
| `any_moment` | 3 nodes, 2 failures of all four kinds at any moment, also while joining, restart, a line in the buffer | `TotalOrder`, `ImplementsTOB`, `NoNullDelivery`, `MemberUntilEnd` |
| `late` | one process, wake-ups up to 3 slices late | `ClockInRange`, `AgeTellsCycle`, `NoSliceTwice`, `EverySliceInOrder` |
| `copies` | one receiver among 3 nodes, 7 turns, copies in time, lost, or 40 or 51 ticks late where a turn has 30, receiver 0, 10 or 11 ticks late | `StaleOnlyIfOverdue`, `TimelyMessageReceived`, `ReturnsInTime`, `NextTurnKept` |

Why these bounds are enough to be interesting: three nodes are the smallest membership
that decides; four are the smallest in which one can fail and the rest still decide, in
which a node has members besides its predecessor and itself (the rule of
`check_receiver_omission`), and in which two members may report an omission. Two
failures cover a second one that meets the traces of the first. A line per node fills
every message a decision can be about; in `omission` there are two, so that lines are
still to come when failures become possible. A nap of one slice (`rejoin`) misses a
decision, a message or the own broadcast; one of a cycle (`omission`, `any_moment`),
the length in failures.c, comes back to a socket full of messages that all look
current. Both lengths in `omission` pass as well, but take too long to be run always.
Buffers lose lines in `any_moment`, where all properties about files are checked. In
`rejoin` processes start in the first turn of a cycle only: which node fails is open,
which gives every position relative to it. In `Socket` three nodes are the hardest
case: between two turns of a sender there is only one other `receive_message` to throw
left-over copies away. A delay of 40 ticks ends with the SEND slice of the next turn, the latest
moment at which its gate lets a message through; one of 51 ends between two SEND slices. A
lateness of 10 is the instant at which the slice ends, 11 is behind it. Seven turns
are enough for a late message to be read as a new one and for the next one to be read
late in turn. Stale reads (from an overdue copy, after a refused and after a stale
read), refused reads of a message that has come, waits beyond the slice and
`MAX_RECV_DELAY`, and waits into the next SEND slice all happen in the run. A process that
returns in its next SEND slice only (the exemption `~BackBefore`) does not within these
bounds: that takes several overdue messages in a row. Other values
(seven delays with `Lateness` {0, 5, 11}, five turns; delays {0, 70}, nine turns) pass as well.

Bounds by name: `Lines`, `MaxStarts`, `MaxFaults`, `FaultKinds`, `Naps`, `Unwritten`,
`Spacing`, `StartSlots` (TimeAwareTOB), `CycleOver` (age saturates), `MaxDelay`,
`Horizon` (ServiceTime), `Delays`, `Lateness`, `LastTurn` (Socket). `ServiceTime` and
`Socket` stop at their horizon, and `ServiceTime` when the process ends, so their runs
check no deadlock; the runs of `TimeAwareTOB` do.

Fairness (`FairSpec`): one weak fairness condition, that time goes on or some process
runs its handler. Because a slice ends only when all running processes have had their
turn in it, that keeps every one of them going: it is what a realtime process woken
by `clock_nanosleep` does. Nothing obliges a process to be started, and nothing to
fail: `Established` speaks of behaviours in which all are running in the end, from the
first start in `startup` and after a failure and a restart in `rejoin`. `CycleWatch`
assumes that a running process begins new cycles.

### Where code and documentation disagree

Each of these runs finds a counterexample (`PROJECT.json`, "findings").

| Run | Property | What happens |
|---|---|---|
| `receiver_unrecognised` | `FaultRecognised` | `compare_vv` returns -1 through a `uint8_t`; its caller's `< 0` is never true. A node that has missed one message stays a member. |
| `last_message` | `LastMessageNotDelivered` | a node convicted in `handle_suspicion` goes through `mval` all the same, and its last message is delivered. |
| `wrong_removal` | `WrongRemovalNeverEnters` | a joining process drops a live member it missed, and does enter. |
| `crash_in_join` | `UniformAgreement` | one crash while the membership is being established leaves a member that can admit nobody and take no decision, while the others deliver. |
| `two_nodes` | `TwoNodesEnd` | an eight-bit counter never reaches the threshold of 1000. |
| `skip` | `SkippedSliceEnds` | `check_slice_skip` adds an absolute time; a skipped slice goes unnoticed. |

Two smaller ones are without effect in the models. `set_recv_timeout` tests an
unsigned variable for a negative time, so that a process that enters
`receive_message` after its slice does poll the socket, against the log message at
communication.c:64; `us_to_ts` turns its timeout into the rest of `MAX_RECV_DELAY`,
or into 0, so that this alone makes nobody wait too long (`ReturnsInTime`). README.md:35 gives the slice duration as a ninth of the cycle; `init_time` divides
by three times the number of nodes, which is nine for three nodes only.

`FaultRecognised` and `LastMessageNotDelivered` do hold when only crashes and sender
omissions happen (`FailedSenderRecognised`, `LastMessageWithheld` below): what is left of them
in `omission` is `SilentSenderRemoved`. Two of
the properties that pass hold only under the hypothesis of their run:
`ImplementsMembership` fails when a failure hits a node that is joining, and
`CountIsExact` when three failures follow each other closely (a convicted node is
then removed twice).

## What is proved

All theorems hold for every value of the constants: 3 to 8 nodes, any number of lines
and starts, any naps, buffers, durations and delays. They assume `NodesAssumption` (3 to
8 nodes, as `init_time` and `init_service` demand), `BoundsAssumption` and, for the clock
and the socket, the assumptions of their modules. Three groups have a hypothesis of their
own, stated in each theorem: those of `FaultFreeProofs` (`FaultFree`), of
`FaultToleranceProofs` (`OneAtATime`, `FailsLate`) and of `SocketProofs` (`Punctual`). All
others admit failures of any kind at any moment.

`TimeAwareTOBProofs`:

- `TypeCorrect`: `Spec => []TypeOK`. `TypeOK` is inductive. One lemma per rule of
  `Membership` says that it turns views into views, one lemma per action of
  `TimeAwareTOB` that it keeps the types.
- `NeverDeliversNull`: `Spec => []NoNullDelivery`, for processes that have never slept
  through slices themselves, whatever happens to the others; one that has may reach
  `deliver_message` with NULL. The property says something about
  the moment of the decision only; the inductive invariant `MessageHeld` says when
  a process that was never late holds a message of *s*: whenever it has marked *s* as
  received (or is *s* itself and a member), except in the window from its decision
  about *s* to its next SEND slice of *s*, in which the message has been given away
  (`Due`). `NothingLeft` says that the memory of a process that does not run is the
  initial one, `SleepersLate` that only late nodes are asleep, so that the others run
  in every slice. `MembershipRanHeld` and `RanHeld` reduce each handler to what it
  does to `last`, `vv` and the own stage.
- `MembersStay`: `Spec => MemberUntilEnd`, from `TypeOK` and what each rule does to
  the stages.

`TotalOrderProofs`:

- `FilesInOrder`: `Spec => []TotalOrder`, and `ImplementsBroadcast`:
  `Spec => ImplementsTOB`, both from one inductive invariant, `OrderInv`, that follows
  a line on its way. Its core is `Ordered`: undecided lines are ordered like the
  distances of their senders' turns (`Wait`), so that the sender whose turn it is
  always has the oldest. The rest ties each process to the undecided lines, if it was
  never late: its socket holds left-over copies of the last sender only, followed by
  those of the current one (`Leftovers`), the line it keeps of a sender is
  the undecided one (`Fresh`), and its file is increasing and older than every undecided
  line, except for the line it has just delivered, which it then no longer holds
  (`Increasing`, `Older`). Here the second copy and the restart of a process matter: a
  process that starts has an empty socket, but may find its sender's line decided.
  For the refinement each action is mapped to one step of `TotalOrderBroadcast`; the only
  one in which a line stops being pending is `NextSlice`.

`ServiceTimeProofs`: `TurnsInRange`, `SlicesOnce`, `SlicesInOrder` and `CycleFromAge`, the
four properties of the run `late` without its bounds. The invariant `TimeInv` says that
the slices fill the cycle exactly (`RoundedUp`, from `set_cycle_duration`), that a process
asks to be woken at the beginning of the next slice (`NextSliceStart`, from `update_time`
and `next_slice_time`), and that `increase_cycle` has counted exactly when a cycle has
passed. The lemmas about quotients and remainders come first.

`CycleWatchProofs`: `NeverShutsDown`, `WatchSpec => []running`. It is why `TimeAwareTOB`
leaves that shutdown out, and the reason behind the finding of `two_nodes`.

`ValidityProofs`: `OwnLinesDelivered`, `Spec => []Validity`, whatever fails. The invariant
`ValidityInv` follows the line of a sender that has not failed itself from its broadcast
to its next MEMBERSHIP slice (`OwnLine`): the sender keeps the line in its own slot of
`last_msg`, which no other node's message touches, and when it has decided, the line
is in its file or the membership too small. `Sleepers` and `Reborn` make the two
exceptions precise: a process that sleeps is one that has failed, and one that has just
been started has no line, for it does not become a member within a cycle.

`FaultFreeProofs`: theorems under `FaultFree` (no failure is allowed, `MaxFaults = 0` or
`FaultKinds = {}`). What is left is still the hard half of the membership protocol:
processes started in any order, in any slice, within the same cycle or long after it, that
each decide alone and at their own moment of the slice.

- `OneMembership`: `Spec => ImplementsMembership`, and `NobodyRemoved`: the abstract
  service makes no other steps than to found the membership and to admit a node.
- `AllDeliver`: `Spec => []UniformAgreement`.
- `CountsMembers`: `Spec => []CountIsExact`.
- `NobodyEnds`: `Spec => OnlyFaultyEnd`.

All five follow from one inductive invariant, `FreeInv`. That nobody is convicted depends
on everybody's view vector having been heard by everybody, so the invariant relates the
memories of all processes over a cycle: `Since(i)` counts the slices since the last
SEND slice of *i*, and `HasHeard(n, i)` says that *n* has been there for the whole of
it. Then *n*'s own vector says of *i* what is true (`Vectors`), the vector *n* keeps of *i*
confirms every sender that sent before *i* did (`Rows`, `Confirmed`), the stage *n* keeps of
*i* is the one *i* has given itself (`Stages`), and nobody is taken for more than it is
(`NoGhosts`). The sender of a MEMBERSHIP slice is the exception: between its own entering and
the last member's admission the stages may differ, in the ways `Admitting` lists. This
rests on two facts about joining that no single function shows: a process is silent
for a whole cycle, so that it knows everybody before it sends (`Grown`), and a sender knows
that there is a membership if there is one (`SenderKnows`), so that it does not found a
second one. From these, `JoinsSucceed` (the confirmation
of every member is there) and `DecisionForSender` (the decision is always for the sender)
reduce the eight handlers to the six forms of `Handles`, and each conjunct is proved once per
form. `Lined`, `LineKept` and `Deliverers` carry the lines for agreement, `SameViews` says that
two members that have both decided, or both not, have the same view: that is what
the refinement needs, each step of which leaves some voter's view alone (`Unmoved`) or
is `Establish` or `Admit`.

`FaultToleranceProofs`: theorems under the protocol's fault hypothesis. `OneAtATime` says that
nodes crash, and broadcasts miss everybody or one receiver, but that before each failure
`2 * AMOUNT_NODES + 1` turns pass without one; `FailsLate` that the first failure comes when
all running processes have joined and nobody will be started any more. How many failures
there are, and how many nodes are left in the end, is open.

- `MembershipTolerates`: `Spec /\ FailsLate => ImplementsMembership`.
- `FaultyAgree`: `... => []UniformAgreement`; `SilenceNoticed`: `... => []SilentSenderRemoved`;
  `FaultyCount`: `... => []CountIsExact`; `OnlyTheFaultyEnd`: `... => OnlyFaultyEnd`.
- `FailedSenderRecognised` and `LastMessageWithheld`: `... => []FaultRecognised` and
  `... => []LastMessageNotDelivered` if there are no receiver omissions (`SendersFail`). That is as
  much of README.md:60 as is true: the runs `receiver_unrecognised` and `last_message`
  refute the rest.

The argument is that at most one thing is wrong with the membership at any time. The
invariant `Tolerant` says that there is a `Trouble` which explains what all processes
know (`Tolerates`): a group of members, and what has happened to one of them. *FINE* is nothing;
*DOOMED* a crashed node whose last message is still to be decided about; *MUTE* a node that nobody has heard
in its last turn; *DEAF* a node that has not heard another one's last message; *REPORTED* the same
node after it has heard the other again, while the rest still has its report; *FROZEN*
a group too small to decide. For each kind the invariant says exactly what every running process
has in its own vector (`OwnVector`), in the vectors it keeps of the others
(`OtherVectors`), whom it suspects and because of whom (`Suspicions`), which lines it keeps
(`LinesOf`), what is in the sockets (`Mailboxes`), and how far the removal of a node has
gone in this slice (`Purged`). A handler that runs leaves the trouble as it is, or makes one
out of *FINE*; the end of a MEMBERSHIP slice is where it passes on: *DOOMED* becomes *MUTE*, *DEAF*
becomes *REPORTED*, and *MUTE* and *REPORTED* end in *FINE*, with or without the
node, or in *FROZEN*. `Phase` bounds `calm`, the turns since the failure, by the kind and the
distance of the node's next turn, so that the next failure finds *FINE* or *FROZEN*
(`FailsFine`). The heart is what `membership_decision` makes of each kind: `CleanDecision`,
`Doubt` (the failed receiver is suspected by all), `Conviction` and `Acquittal` (a cycle
later, by the same verdict everywhere: the suspect goes if its trigger is its predecessor), `Removal` (nobody has
heard the sender). `Estranged` is the one exception: the node that missed a message suspects
the other, alone and for nothing. `LateInv` joins the two phases: up to the first failure
`FreeInv` holds (`FreeBeforeFailure`), and with `Joined` it implies `Tolerant`
(`JoinedTolerates`). For the refinement `CommonOf` is the membership of the moment: it
changes when the last correct member has decided about a leaving node, which is `Remove`, and is lost when
the last correct member fails, `Dissolve`.

`SocketProofs`: `StaleIsOverdue`, `TimelyReceived`, `InTime` and `KeepsNextTurn`, the four
properties of the run `copies`, for any number of nodes and turns, any losses and any
delays, from `SocketInvariant`. `OnTheWay` says that a copy arrives after its turn
has begun, `OnTime` that the process is never more than two turns ahead of the clock and enters in
time, `Queue` that the socket holds messages in the order of the turns except for overdue ones.
`NothingStale` is the core of the first theorem: a `receive_message` that has read the
socket up to its own turn leaves no earlier message of the sender of the next turn but
overdue ones. `Kept` says that what has come in its slice is still in the socket,
`Undisturbed` and `NotOverslept` that the timeout, which starts again with every message, does
not move past its first value, or past the next SEND slice, without an overdue message of
another sender. The hypothesis `Punctual` says nothing of delays. It asks for receivers
that are no later than a slice and `MAX_RECV_DELAY` (later ones are timing failures,
`Oversleep` of `TimeAwareTOB`) and for slices of 10 microseconds or more (or else
`MAX_RECV_DELAY`, a tenth of it, is 0). Entry at the very end of a slice is
not excluded: it is an exception that two of the properties name.

Every inductive invariant was checked with TLC before it was proved: `MessageHeld`,
`NothingLeft`, `SleepersLate`, `LinesInOrder` and `ValidityInv` on the instance of
`any_moment` (1.9 million states), that of `SocketProofs` on `copies` (2.5 million) and two other instances, `FreeInv` on
three nodes started in any slice (147 000), and on four nodes of which all, or all but one,
run from the start, `Tolerant` on three nodes with three failures (140 000) and on four
with one failure, or with three running nodes and two (98 000 together). With `Spacing = 5`,
on three nodes, it is violated: the two cycles and a turn of `OneAtATime` are not for the
proof's convenience.

Only model-checked: what failures do to processes that are joining or being started again
(`rejoin`), and timing failures in the membership protocol (`omission`, `rejoin`): a process that
comes back late acts on memories a cycle old, a trouble of its own with more phases than
those above. Outside of any fault hypothesis the properties are false (`crash_in_join`
breaks `UniformAgreement`). The liveness property `Established` is out of the proof system's reach.

## What is not modelled, and the plan

- Log output, the benchmark build with its scripts, network and clock setup:
  synchronised clocks and exclusive slots are assumed. (In the benchmark build the test
  `counter > MAX_NUM_MSGS+counter`, benchmark.c:19, never holds.)
- The characters of a line. `fetch_message` cuts a line of `DATA_SIZE` characters or
  more and leaves it without terminator (interface.c:53), and an empty line
  of the input is sent as a message with a line feed.
- The rounding of `us_to_ts`: it computes nanoseconds since the epoch in a double, so
  the wake-up it asks for may lie up to 128 ns before the slice. `ServiceTime`
  assumes that waking up takes longer; if it did not, the slice before would be run twice.
- Arguments of the command line, `init_broadcasting`, and `file_delete_line`, which
  nothing calls.
- Timing failures that end in the middle of a handler: a handler runs as a whole, and
  a delay is a number of whole slices.

The plan, in the order of the work:

1. `Membership`, `TimeAwareTOB`, the runs and findings above - done.
2. `TotalOrderBroadcast` and the refinement, checked by TLC - done.
3. `ServiceTime`, `CycleWatch`, `Socket` - done.
4. First theorems: types, messages held, members stay - done.
5. `TotalOrder` and `ImplementsTOB` as theorems - done.
6. `ServiceTime` and `CycleWatch`: theorems - done.
7. Timing failures, both copies of a broadcast and buffered output in the
   composition - done.
8. `MembershipService`, implemented under the fault hypothesis - done, by TLC first.
9. `Validity` under any failures, `Socket`, and the membership protocol without failures
   as theorems - done.
10. The properties of the run `omission` as theorems, one failure and then `Spacing` quiet
    turns - done for crashes and omissions of an established membership.
11. Left: the same for timing failures and for nodes that join again.
