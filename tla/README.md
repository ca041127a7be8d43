# Verification of dme-socd2009 in TLA+

`dme-socd2009` is a set of C programs for experiments with distributed mutual
exclusion. A *supervisor* process starts tests: it elects two or more of the
peers, tells each of them to compete for the critical region, follows them by
their reports and stops the experiment when it sees two of them inside. A *peer*
runs one of four algorithms: Lamport, Ricart-Agrawala, Suzuki-Kasami, Singhal.
All nodes are event driven: signals queue events, events call handlers, handlers
send UDP packets and arm timers.

This directory holds TLA+ models of these programs, what TLC checks of them, and
what TLAPS proves. Paths below are relative to the repository's root; the
program files are in `src/` of the repository.

## 1. Inventory

| Component | State it keeps | Operations | Talks to | What makes it correct |
|---|---|---|---|---|
| Datagram layer, `src/common/net.c` | one UDP socket per node | `dme_send_msg`, `dme_broadcast_msg`, `dme_recv_msg`, packing and parsing | kernel | a broadcast reaches every other peer once and never the supervisor |
| Supervisor, `src/supervisor.c`, `src/common/fsm.c` | its view of every peer's state, counters of a test | `syncro`, `do_work` (periodic election), `process_messages`, `critical_region_is_*` | peers, by SUP messages | elects only idle peers; every test ends; stops if and only if two peers are inside; its response arrays are not overrun |
| Peer skeleton, `src/skel.c` (repeated in each algorithm) | `fsm_state`, pending events and timers | `handle_supervisor_msg`, `handle_peer_msg`, `process_ev_want_cr`, `_entered_cr`, `_exited_cr`, reports to the supervisor | supervisor, peers | the fatal guards of the event handlers cannot fail; exclusion; whoever wants gets in |
| `src/suzuki.c` | `suzuki_RN`, the token (`suzuki_LN`, `pseudo_queue`), `i_have_token` | as above | peers | one token, never lost, never sent to someone who does not wait; LN exact |
| `src/lamport.c` | sorted `request_queue`, `replies` | as above, `my_turn` | peers | one entry per competitor, own entry on top while inside, REPLYs belong to the present request |
| `src/ricart.c` | `ricart_RD`, `ricart_replies`, own stamp | as above | peers | deferred REPLYs are owed to waiting peers and are sent once |
| `src/singhal.c` | `Requesting`, `Executing`, `Ri`, `Ii`, own stamp | as above | peers | of two peers one always asks the other; flags follow `fsm_state` |
| Events, `src/common/init.c` | registry of handlers, pool of 64 timers, pending signals, `exit_request` | `deliver_event`, `handle_event`, `schedule_event`, `wait_events`, `net_demux` | kernel signals, handlers | one handler at a time; no packet, event or timer lost or doubled; slots of the pool come back; a fatal result ends the loop |
| Time arithmetic, `src/common/util.c` | none | `timespec_delta`, `timespec_avg` | statistics | exact results |
| Configuration and start-up, `src/common/util.c`, both `main` | node table, options | `parse_file`, `parse_peer_params`, `parse_sup_params`, `open_listen_socket` | file, command line | the node table matches the file; an election is defined and elects peers |
| Scripts, `start.sh`, `make.sh`, `config.sh`, `dme.conf` | none | build, start all nodes on 127.0.0.1 | | |

Interaction: peers and supervisor share no memory. Within a node, handlers run
one at a time to their end (all three real-time signals are blocked and taken by
`sigwaitinfo` in `wait_events`). What is hard is therefore the order of packets
and events: requests that arrive after they were served, reports of different
peers that overtake each other, an event queued behind packets, a state known
elsewhere only with delay, time stamps taken by different processes, tests that
follow each other and inherit what the last one left behind. Nothing is ever
sent twice and nothing times out. `PROJECT.json` lists these hazards at their
lines.

## 2. Modules

| Module | Models | Notes |
|---|---|---|
| `Network` | `net.c` and the environment | CONSTANT `Net` chooses the environment, see below |
| `Supervisor` | `supervisor.c`, `fsm.c` | extends `Network` |
| `Peer` | what all peers share, after `skel.c` | extends `Supervisor`; holds the properties common to all algorithms |
| `PeerClock` | time stamps of three of the algorithms | extends `Peer`; CONSTANTS for the start of the experiment and the instants requests are stamped at |
| `Suzuki`, `Lamport`, `Ricart`, `Singhal` | one algorithm each, composed with the supervisor and the network into a complete system | `Spec`, `FairSpec` |
| `Mutex` | abstract specification: what a set of peers promises | each algorithm implements it with `state <- fsm_state` |
| `Startup` | `main` up to the event loop, the parsers of `util.c`, the election | the only sequential module |
| `Events` | `init.c`: signals, queue of events, pool of timers, and the kernel below | steps and calls, no specification of its own |
| `PeerProgram` | one peer as a process | extends `Events` and `Startup` |
| `EventLoop` | abstract specification: the event loop as the algorithms' modules use it | `PeerProgram` implements it, fairness included |
| `TimeArith` | `timespec_delta`, `timespec_avg` | |
| `SupervisorProgram` | the supervisor as a process, with its timer and its statistics | extends `Events`, `TimeArith`; implements `Supervisor` (`SupSpec`) |
| `MCPeers`, `MCClock`, `MCStartupValues` | values of constants for TLC | `MCClock`: when requests are stamped |
| `MCSuzuki`, `MCLamport`, `MCRicart`, `MCSinghal`, `MCPeerProgram`, `MCSupervisorProgram` | instances for TLC | |
| `PeerProofs` | lemmas about the network, the supervisor and the peers' common steps | section 6 |
| `SuzukiProofs`, `SinghalProofs`, `RicartProofs`, `LamportProofs` | theorems about the algorithms | section 6 |
| `EventsProofs`, `PeerProgramProofs`, `SupervisorProgramProofs` | theorems about the processes | section 6 |

The models are of two grains, and refinement joins them. The *system* modules
(`Network` to `Singhal`) compose all nodes and take a handler, from its signal to
its return, as one step; signals and timers are implicit. The *process* modules
(`PeerProgram`, `SupervisorProgram`) have one node with every signal, timer and
slot, and an environment that sends it packets. `PeerProgram` implements
`EventLoop`, which is the coarse grain written down for one peer: `exited_due`,
`entered_queued` and `exit_request` mean there what they mean in `Peer` and
`Suzuki`. `SupervisorProgram` implements `Supervisor` itself, which is the
module the algorithms are composed with.

Correspondence:

* **State.** A variable has the name of the program's variable and is a function
  on the nodes: `suzuki_RN[p]` is the array `suzuki_RN` in process `p`. Two
  variables stand for queues of the operating system: `exited_due[p]` counts the
  EXITED events scheduled by `schedule_event` and not handled yet,
  `entered_queued[p]` the ENTERED events queued by `deliver_event`. `net` holds
  the packets.
* **Actions.** One action is one handler from the signal that starts it to its
  return, with everything it calls, `handle_event` included. A handler that
  behaves differently by message or state is split into one action for each case
  (`RequestWithToken`, `RequestNoted`, `TokenReceived` are `handle_peer_msg` of
  `suzuki.c`), with the conditions of the code as guards.
* **A handler's packets.** On one host (`Net = "loopback"`) they reach the
  receivers' socket buffers one after another while other processes run: the
  handler puts them on the lane `<<"out", n>>` and the node's own steps `sendto`
  move them; `InHandler` keeps the node from starting another handler before.
* **Fatal results.** `Fatal` sets `exit_request[p]`; such a node takes no more
  steps.
* **Packets and data.** A packet is a record of sender, receiver and message; a
  message is a record with the fields a receiver looks at. Magic numbers, byte
  order, lengths and the log of message-sequence charts are left out. The
  statistics are in `SupervisorProgram`; `Supervisor` keeps `received_resps_count`,
  which indexes two arrays.
* **Queue of the token.** `pseudo_queue` is a zero-terminated array filled at its
  front; here it is a sequence. With an empty queue the code reads
  `pseudo_queue[-1]`, which is `suzuki_LN[49]` and zero for fewer than 49 peers
  (`SuzukiAssumption`): `FinalElement` is then the supervisor's pid.
* **Memory behind the nodes array.** `critical_region_is_sane` reads one cell
  too far. `OutOfBounds` is the set of answers to "does it look like an executing
  process"; the runs use `{FALSE}` where the supervisor's decision matters, and
  both values elsewhere.
* **Time.** In `PeerClock` `now` is counted in instants, `NsecPerSec` to a second;
  stamps are truncated modulo `Uint32` as in the code. All nodes read one clock, between
  hosts too. Time moves when a request is stamped or received: a request is stamped
  now, or at an instant up to `LongestPause` later, it is received later than it is
  stamped, and two requests may carry the same reading unless `DistinctReadings`
  says otherwise. Of all instants from the start on, `SyncroInstant`, requests are
  stamped at those in `Instants`: a behaviour whose requests are stamped at other
  instants is one of another instance. In `SupervisorProgram` the clock moves between two readings by
  one of `Pauses`.
* **Signals.** `sigrt_network`, `sigrt_timerexp` and `sigrt_deliver` are the
  pending signals of the three kinds, each with what it carries. `wait_events`
  takes the lowest number first: `Handles` is false while a packet's or a timer's
  signal is pending. `sigrt_deliver` is also the queue of events, because
  `networkio_handler` and `timer_expire_handler` only put an event there.
* **Timers.** `timers_state` is the program's view of a slot, `timers_pool` the
  kernel's; a timer set to zero takes a slot and never expires.
* **Start-up.** A command line is a sequence of options, a file a number and a
  sequence of lines. One action is one call of `main`. An action that makes
  several calls fails as a whole (`GiveUp`, `SystemCallFails`). `StartupAssumption`
  says what a command line and a file are: the value of an option and the count on
  the first line of the file are natural numbers. A negative count is left out.
* **A peer alone.** `PeerProgram` has the branches of `src/skel.c`; where the four
  programs differ, in what lets a waiting process in, both outcomes are allowed.
* **The supervisor alone.** Its peers in `SupervisorProgram` exclude each other and
  report in order, which is what `Mutex` and one host give; nothing says that they
  ever enter. `Sup`, the instance of `Supervisor` it implements, sees as its network
  the packets sent to each peer and, on the lane of the supervisor to itself, which
  nothing else uses, the socket: one queue, whoever a report is from.

Operators marked `faulty` stand beside the operator they are a faulty form of
(a missing reset, an off-by-one, a dropped guard). No specification uses them.
They are there to see that a property can fail: with the faulty operator in
place of the right one TLC finds the property violated. `PROJECT.json` pairs them
with properties.

### The three environments

| `Net` | What it is | Where it comes from |
|---|---|---|
| `"loopback"` | one host, a socket is one queue, `sendto` puts the packet there before it returns | `dme.conf` and `start.sh` put every node on 127.0.0.1 |
| `"fifo"` | several hosts, order kept between two nodes, senders race | the addresses in `dme.conf` may be any |
| `"udp"` | several hosts, packets overtake each other | what UDP allows |

None of them loses or duplicates packets. The programs have no defence against
loss (no acknowledgement, timer or retry): a lost packet ends the elections, and
liveness cannot hold. Safety with losses is covered where packets overtake each
other (`"udp"`), because `Spec` never forces a delivery and a packet that is
passed over for ever is a lost one. This includes the theorems of section 6 that
name no environment.

## 3. Runs

The system runs have three peers unless said otherwise. `MaxTests` bounds the
tests (elections) of a behaviour; it is the only bound added to the code's
behaviour there, everything else is finite by itself. `max_concurrent_proc` is the
largest number of competitors elected; every subset and order of that size or
smaller is.

| Run | Module, environment, bounds | Shows |
|---|---|---|
| `suzuki_loopback` | one host, 3 competitors, 2 tests, fairness | types; the token is never lost (`TokenKept`); no node stops; response arrays suffice; a WANT finds its peer idle; whoever competes enters, tests end; implements `Mutex`; no deadlock |
| `suzuki_fifo` | several hosts, 3 competitors, 2 tests, any memory behind the array | exclusion, one token, events match states, the token goes only to who waits, LN exact |
| `lamport_fifo` | several hosts, 3 competitors, 2 tests, equal stamps allowed; start within a second, pauses up to 2, no second with stamps on both sides of the start's nanoseconds | one queue entry per competitor, own request on top while inside, no late or double REPLY, queues empty in the end, nobody left waiting, epoch known; implements `Mutex` |
| `ricart_udp` | overtaking packets, 2 competitors, 2 tests, equal stamps allowed; start at 0 | no late or double REPLY, deferred REPLYs are owed to waiting peers, only a tie of stamps blocks; implements `Mutex` |
| `singhal_fifo` | several hosts, 3 competitors, 2 tests, equal stamps allowed; start within a second, every instant | the information structure, flags follow the state machine, nobody left waiting among three; implements `Mutex` |
| `peer_program` | 7 command lines of a peer, 15 of the supervisor, 12 files; 4 packets of 4 kinds, 1 of them before the registration; 2 slots | records in place, elections defined; signals cover the socket, slots match timers, events match states; implements `EventLoop` |
| `supervisor_program` | 3 peers, 3 competitors, 2 tests, 2 slots, 3 nanoseconds to a second | the periodic work lives and is single; delays do not overlap, averages exact; implements `Supervisor` |
| `lamport_nsec` | 2 peers, one host, 3 tests, start within a second | violation of `MutualExclusion`, finding 1 |
| `supervisor_blind` | the same instance | violation of `SupervisorStops`, finding 2 |
| `suzuki_stale_request` | several hosts, 2 tests | violation of `SupervisorGetsSupMessages`, finding 3 |
| `ricart_tie` | 2 peers, one host, 1 test, fairness | violation of `Served`, finding 4 |
| `singhal_restamp` | 5 peers, several hosts, 5 competitors, 1 test, no equal stamps, one schedule | violation of `NobodyForgotten`, finding 5 |

*Why the bounds are enough to be interesting.* Three peers are the fewest with a
competitor, a second competitor and a bystander whose view lags behind; with two
there is no third process to receive a late request, and the queue of the token,
the order of the request queues and chains of deferred replies are trivial. Two
tests are what a message, a queue entry or a flag left over from the first test
needs to do harm in the second. `lamport_nsec` needs a third, and `singhal_restamp` five peers. In `peer_program`
four packets are a SYNCRO, a WANT, a granting message and one too many, in any
order and at any time between signals, timers and queued events; one early packet
shifts all others by one, and more shift them by more. Two slots are one more
than a node uses, so that the search for a free one has something to search. The
command lines and files sit at the limits the parsers compare with. In
`supervisor_program` two tests make one set of statistics; with 3 nanoseconds to a
second and pauses of 2 and 5 the delays have borrows, the averages a rest of
seconds, a carry, and a carry of exactly one second.

*Deadlock.* In `suzuki_loopback` TLC's deadlock check is on: the only state a
behaviour may stay in is `ExperimentOver`, every test allowed by the bound played
and every packet handled. Elsewhere it is off: between hosts the supervisor may
really stop an experiment by a false alarm (below) and the token may really be
lost (finding 3); a process that gave up at its start or was stopped by ^Z ends.

*Start of the experiment.* The supervisor takes it from the clock
(`src/supervisor.c:386`), at any nanosecond. In `lamport_fifo` and `singhal_fifo` it is
half-way through a second after 0 (`SyncroInstant = 3`, two instants to a second), where
the subtraction of finding 1 wraps around for every instant in the first half of a second, and a
peer that does not know the epoch stamps from "1970". `singhal_fifo` has stamps at
every instant, later requests with smaller stamps included: `singhal.c` does not mind.
`lamport.c` does, so `lamport_fifo` leaves out what finding 1 is about, and only that
(`OneSideOfASecond`): there are stamps that wrap and stamps that do not, but never both
in one second. This is the hypothesis `StampsIncrease` of the theorems in section 6. Its
pauses of 2 let the clock pass from one second's half to the next one's. `Uint32` is 50 in
both, more than the instants a behaviour reaches; what wraps are the negative
differences. `Instants` ends 20 after the start, which no run reaches. `ricart_udp` starts at
instant 0: packets that overtake each other bring the WANT before the SYNCRO, which
would make stamps of two epochs. `lamport_nsec` starts within a second, has every
instant and numbers modulo 5.

## 4. Findings

1. **Stamps without a borrow** (`src/lamport.c:199`; `src/ricart.c:111` and
   `src/singhal.c:191` have the same lines). Seconds and nanoseconds are
   subtracted apart. Until the clock's nanoseconds pass those of the start, a
   stamp's nanoseconds are about 4 billion too large while its second is already
   counted up. A later request then carries the smaller stamp, and two peers of
   `lamport.c` are inside together (`lamport_nsec`). In `ricart.c` it
   takes a third one: p asks, q replies and then asks with a smaller stamp, so
   that p replies as well, while it still waits for the third peer; when that one has
   replied to both, both are inside. With two peers, and packets in order, p has entered
   before q's request comes and defers it. No run is kept for this: the lines at fault are the
   same, and `Exclusion` of `RicartProofs` needs `StampsIncrease` for that reason. `singhal.c`
   is safe: whoever is inside is in everybody's request set (`InsideIsAsked`), whatever
   the stamps are (`singhal_fifo` has inverted ones).
2. **The supervisor does not look at peer 1** (`src/common/fsm.c:73`): the index
   is incremented before it is used.
3. **A stale request sends the token to the supervisor**
   (`src/suzuki.c:329`). It needs a REQUEST that is slower than the token's way
   through another peer and back, so it does not happen on one host
   (`suzuki_loopback` checks that it does not).
4. **Equal stamps block Ricart-Agrawala** (`src/ricart.c:294`): the pids are not
   compared, neither process replies.
5. **A circle of waiting peers in Singhal's algorithm** (`src/singhal.c:427`). A
   pending peer that yields to one outside `Ri` asks it with a new stamp, and
   makes that the stamp of its pending request, after it has deferred others by
   the old one and while others still compare with the old one. The requests are
   then no longer in one order. With five competitors in the first test and
   all stamps different: peer 1 enters at once; 2 asks 1, defers 3 by its first
   stamp, yields to 5 and takes a new stamp, yields to 4 and takes another; 4
   defers this last request, and 3 has deferred 4. When 1 and 5 have left, nothing
   is under way and `Ii` is `{3}`, `{4}`, `{2}` at 2, 3 and 4: each waits for the
   next for ever. TLC cannot search five peers; `singhal_restamp` follows one
   schedule by the action constraint `Scheduled` of `MCSinghal`, which leaves out
   behaviours and adds none. With three peers all behaviours are searched and
   there is no such circle. Exclusion does not suffer (section 6).

Beside these, a file may lack its last record (`src/common/util.c:276`): there are
`prc_count + 1` records, number 0 being the supervisor's, and fewer than
`prc_count` are refused. The last node is then all zeros, and an election that
draws it elects process 0: the supervisor sends WANT to itself and takes no notice of
it (`process_messages` has no case for it). The test has one competitor less, and the
next one is not held up, because `critical_region_is_idlle` looks at the cells from 1 on and finds
the empty cell idle.
`RecordsInPlace` and `ElectionDefined` leave room for exactly this.

The supervisor's alarm may be false between hosts: the ENTERED of one peer
overtakes the EXITED of the one before it, and `process_messages` stops a correct
run. `NoFalseAlarm` therefore holds on one host (section 6, for all four algorithms;
`suzuki_loopback` checks it), and not in general. The `sleep(1)` between SYNCRO
and the first election (`src/supervisor.c:389`) separates nothing: both events are
only queued there and handled back to back later, so that between hosts a WANT
that overtakes its SYNCRO starts a competitor with an unknown epoch. And the
average of the statistics is exact but not always normalised
(`src/common/util.c:373`): its nanoseconds may be a whole second, which the log
prints with ten digits. `do_work` and `handle_event` have no return statement; the
models take what `make.sh` builds (no optimisation), the result of their last
call.

## 5. Properties and fairness

Properties common to all algorithms are in `Peer` (`MutualExclusion`,
`WantFindsIdle`, `ResponsesFit`, `NoPeerFatal`, `NoFalseAlarm`, `Served`,
`TestsEnd`, `NobodyForgotten`), the others with their algorithm. Each has a
comment with the code behaviour it is about.

*Liveness as safety.* A behaviour bounded by `MaxTests` is finite, every handler
consumes a packet or an event. So if packets and timers are not held up for ever
it ends in a state without either, and `NobodyForgotten` says that there every
peer is out of the protocol and every test over. It holds
without a fairness assumption, and fails as soon as one reply, release or token
is forgotten. In `lamport.c` it holds on ordered networks (`NobodyLeftWaiting`). In
`singhal.c` it does not (finding 5), and in `ricart.c` it does not either, where
`OnlyTiesBlock` says exactly when (finding 4). `suzuki_loopback` checks the temporal
forms `Served` and `TestsEnd`.

*Fairness.* `FairSpec` assumes weak fairness of the supervisor's steps and of each
peer's steps, `sendto` included. The code justifies it: `wait_events`
blocks in `sigwaitinfo` and handles whatever is queued, real-time signals are
queued and delivered in order, timers fire, and the kernel delivers packets
between sockets of one host. Fairness is per process, not per message: a process
may choose which of its events comes first, and liveness is checked on one host,
where a socket is a queue.

The process modules show where this comes from. They assume only that
`sigwaitinfo` returns while a signal is pending (`WF_vars(WaitEvents)`) and that
the kernel ends every timer it runs (`WF_vars(Expire)`), and TLC checks that the
coarse specifications follow with fairness of their own: every packet that is not held
back by an early one, every queued ENTERED and every EXITED is handled
(`EventLoopSpec`), and the supervisor sends SYNCRO, handles every report and
starts a test whenever the region is idle (`SupervisorSpec`).

## 6. Proofs

The theorems about an algorithm hold for every number of peers (in `suzuki.c` below
49), every set of competitors, any number of tests, every reading of the clock, which
all nodes share between hosts too, and whatever lies behind the nodes array, unless
the statement says otherwise. "Ordered" means
`Net # "udp"`: packets from one node to one other keep their order, senders race.
"One host" means `Net = "loopback"`. "Stamps increase" is `StampsIncrease` of `PeerClock`:
of two requests the later one carries the later stamp. It is a hypothesis on the
instants requests are stamped at, for every start of the experiment; `StampsInOrder`
below says what it amounts to. Nothing is assumed about delivery: packets may
be delayed without end. Assumptions are `NetworkAssumption`, `SupervisorAssumption`,
and `SuzukiAssumption` or `ClockAssumption`; TLC evaluates them in the runs.

### What the peers share

`PeerProofs` holds the lemmas the proofs about the algorithms cite. Its parts:

* *The network.* Sending, broadcasting, receiving and handing over packets keep the
  type of the lanes, bring in no packet of a kind that was not sent, and keep at
  most one packet of a kind (`AtMostOneOf`); every packet is in a lane of its own
  source and destination (`Placed`).
* *Order.* `InOrder(n, T, U)`: no packet of kind T behind one of kind U. `Sent`
  describes what a handler's sends do to the lanes, so that order has to be argued
  once and not for every handler.
* *The supervisor's and the peers' common steps.*
* *The clock.* Instants read as seconds and a rest are compared like the instants, and
  a difference that fits a `uint32` is exact.
* *The supervisor's view.* `View` says how far the supervisor's picture of a peer
  may lag behind its state: there is at most one WANT, ENTERED and EXITED of it on
  their way, and they account for the difference. `Sight` adds that no other packet
  of that protocol is under way. On ordered networks it is kept by every step
  (`SightSent`, `SightReceived`, `SightWanted`, ...). `Heard` says that SYNCRO comes before any
  WANT, so that whoever competes knows the epoch.
* *One host.* A packet is in the buffer of its receiver, or last in the list of
  its sender, which hands it over at once (`HandedOver`, `Ahead`).
* *No false alarm.* On one host the packets to the supervisor are one queue. In it an
  ENTERED follows the EXITED of whoever else is or will be seen inside (`Follows`).
  That is kept if whoever is inside when a handler hands over its ENTERED is `Alone`:
  nobody else is inside, and no EXITED is still in its sender's list. What makes it so differs
  between the algorithms, but the form is the same (`OnHost`): p's EXITED is in the
  buffer, or p still stands in q's way; and p's EXITED is in the list in front of
  the packet of p that clears q's way (`Cleared`), because the handler that leaves
  the region sends the EXITED first. The algorithm says which packet that is and who stands in whose
  way (`Asks`), and proves that whoever is inside has nobody in its way.

### suzuki.c

| Theorem | States | Where |
|---|---|---|
| `TypeCorrect` | `Spec => []TypeOK` | everywhere |
| `OneToken` | `Spec => []TokenUnique` | everywhere |
| `Exclusion` | `Spec => []MutualExclusion` | everywhere |
| `EventsInTime` | `Spec => []EventsMatchState` | everywhere |
| `NeverFatal` | `Spec => []NoPeerFatal` | everywhere |
| `Implementation` | `Spec => MutexSpec` | everywhere |
| `ServedExactly` | `Spec => []ServedAreCounted` | everywhere |
| `TokenNeverDropped` | `Spec => []TokenIsWanted` | everywhere |
| `WantsFindIdle` | `Spec => []WantFindsIdle` | ordered |
| `NoResponseTooMany` | `Spec => []ResponsesFit` | ordered |
| `TokenStays` | `Spec => []TokenKept` | one host |
| `NoAlarm` | `Spec => []NoFalseAlarm` | one host, `OutOfBounds = {FALSE}` |
| `NobodyLeftWaiting` | `[](no ENTERED is queued => NobodyForgotten)` | one host |

*The argument.* Exclusion is not inductive: that nobody else is inside when a
token arrives follows from there being no other token. That in turn needs the
place of the token in every state, in a process or in a packet (`TokenUnique`,
whose last part is that only the holder executes), and it needs the queued
ENTERED event: between its delivery and its handling the process must keep the
token, or it would enter without it (`EventsMatchState`). The fatal guards
cannot fail for the same reason. The inductive invariant is

    IInv == TypeOK /\ TokenUnique /\ EventsMatchState /\ NoPeerFatal

proved by one lemma per action and put together in `NextOK`.
`Implementation` follows from the invariant step by step: an entering process has
the token, so by `TokenUnique` nobody else executes and the step is one of
`Mutex`.

*What the token carries.* That LN counts exactly, and that the token is sent only
to a peer that waits for it, need each other. A request is served when its number
is one ahead of LN; it then comes from a peer that waits, if no number under way
or noted is ahead of its sender's own. The one at the head of the queue waits and
no longer does once it has the token; it must not be in the queue again. And the
peer that takes the token must be the one it was sent to. The invariant is
`IInv /\ QInv`, with

    QInv == /\ net \in Nets(GoodPackets(suzuki_RN, fsm_state))
            /\ Addressed(net)
            /\ HeldGood(i_have_token, my_token, suzuki_RN, fsm_state)
            /\ NotAhead(suzuki_RN)

where a good token counts exactly, has nobody twice in its queue and only pending
peers in it. `GoodPackets` depends on the state, so that every step that changes a
request number or an FSM state shows that the packets under way stay good
(`StaysGood`, `RequestsStayGood`). Stale requests are included: one sends the token
away with an empty queue, which is to the supervisor (finding 3) and never to a
peer that does not wait.

*The supervisor's view.* `WantsFindIdle` and `NoResponseTooMany` follow from `Sight`
and from `Counted`: the responses counted and the competitors whose EXITED has
not been handled are together those that were elected. Every algorithm has these two
theorems. No step of an algorithm is about the supervisor's packets but those that
send ENTERED and EXITED, so the lemmas of `PeerProofs` carry most of them.

*The token is kept* on one host, where finding 3 cannot happen: a request becomes
stale when its sender has been served, which is after the request was put into
every buffer. So the invariant `KInv` says that stale requests are only in buffers of
peers that do not have the token, and there in front of the token if it comes
(`StaleFirst`). A holder therefore never reads one.

*No false alarm*, on one host: a peer sends its EXITED before it sends the token,
out of the same handler, so whoever gets the token sends its ENTERED when the
EXITED of everybody before it is in the supervisor's buffer (`Settled`). The second
hypothesis is about the cell behind the nodes array: if it looks like an executing
process the supervisor stops for that.

*Nobody is forgotten*, on one host, by the invariant `FInv`. `AskedEverywhere`: who waits
has asked everybody, so that every other peer knows the number of its present
request or has it on its way. `HolderDone`: a holder that is idle has an empty
queue and knows of no request LN does not count, because it would have sent the
token there when it left or when the request came; and a holder that is pending
has its ENTERED queued. Suppose nothing is on its way to a peer and no ENTERED is
queued. The token then has a holder (`TokenKept`), which is not pending, and not
inside since no EXITED is due. So it is idle and knows the present request of
everyone who waits, which by `ServedAreCounted` is one ahead of LN: nobody waits.
`NobodyForgotten` is stated for all four algorithms and does not mention the
ENTERED event of `suzuki.c`, hence the hypothesis on `entered_queued`. Between
hosts the statement is false, since the token may get lost (finding 3).

### singhal.c

| Theorem | States | Where |
|---|---|---|
| `TypeCorrect` | `Spec => []TypeOK` | everywhere |
| `FlagsCorrect` | `Spec => []FlagsAgree` | everywhere |
| `NeverFatal` | `Spec => []NoPeerFatal` | everywhere |
| `OneAsks` | `Spec => []OneAsksTheOther` | ordered |
| `InsideAsked` | `Spec => []InsideIsAsked` | ordered |
| `Exclusion` | `Spec => []MutualExclusion` | ordered |
| `Implementation` | `Spec => MutexSpec` | ordered |
| `WantsFindIdle` | `Spec => []WantFindsIdle` | ordered |
| `NoResponseTooMany` | `Spec => []ResponsesFit` | ordered |
| `NoAlarm` | `Spec => []NoFalseAlarm` | one host, `OutOfBounds = {FALSE}` |

*The argument* is about one pair of peers at a time. `AskedOnce`: a peer has at most
one request to another that is not answered, in a packet, noted in `Ii`, or
answered by a REPLY under way, and that REPLY is received before the request sent
behind it. `OneNeedNotAsk`: exactly one of the two need not ask the other; or both
do, and one of them has been answered and has not read it yet. Whoever is inside asks nobody,
so the other one has it in its request set and cannot be inside too.

Stamps do not occur in the argument: a peer that yields after a comparison puts
the other into its set and asks it, whichever way the comparison went. So
exclusion does not depend on the clock, on the epoch, or on the subtraction of
finding 1, which decides only who goes first. Order does matter: where packets
overtake each other a REPLY could be read after the request sent behind it.
The proof also shows that on ordered networks the sender of a request is never in
the receiver's `Ri` already, so the branch of `RequestYielded` that only answers
is never taken.

*No false alarm*: q's way is cleared by p's REPLY, and p stands in it while q
has p in `Ri`. Whoever is inside asks nobody. When p leaves, everybody asks it and none
of its REPLYs is on its way, by the invariant about the pair.

### ricart.c

| Theorem | States | Under |
|---|---|---|
| `TypeCorrect` | `Spec => []TypeOK` | |
| `NeverFatal` | `Spec => []NoPeerFatal` | |
| `RepliesExpected` | `Spec => []RepliesAreExpected` | |
| `DeferredWaiting` | `Spec => []DeferredAreWaiting` | |
| `Exclusion` | `[]MutualExclusion` | competitors know the epoch, stamps increase |
| `Implementation` | `MutexSpec` | ordered, or competitors know the epoch; stamps increase |
| `OnlyTies` | `[]OnlyTiesBlock` | the same; two peers or more |
| `WantsFindIdle` | `Spec => []WantFindsIdle` | ordered |
| `NoResponseTooMany` | `Spec => []ResponsesFit` | ordered |
| `NoAlarm` | `[]NoFalseAlarm` | one host, `OutOfBounds = {FALSE}`; stamps increase |

*Replies.* `AskedOnce`, again about a pair: a competitor's request to another peer
is in one place only, under way, deferred, or answered by a REPLY under way or
counted. So no REPLY is late or comes twice, everywhere, and whoever is inside
has everybody's.

*Exclusion* needs the stamps to be compared as their instants are. `Consent`: who
has been answered by a competitor comes before it. A peer answers while it does
not compete, and then stamps later than the request it answered was received; or
while it waits, after the comparison. Two peers inside would each come before the
other. This holds for stamps that increase with the instants
(`StampsIncrease`), taken from a known epoch (`EpochKnown`), and not without:
`lamport_nsec` shows for the same lines of `lamport.c` what happens otherwise.

Neither hypothesis is stronger than the code requires. `EpochKnown` follows on ordered
networks from `Heard`, so there it is no hypothesis. Where packets overtake each other
it is one: a WANT may overtake SYNCRO. (`ricart_udp` starts at 0, where an unknown epoch and
the known one are the same number.) `StampsIncrease` is a hypothesis everywhere, because nothing
in the code ensures it. `StampsInOrder` (`LamportProofs`) shows that it excludes nothing but
finding 1.

*Who waits for what.* `Owed`: when a competitor's requests are received and nothing
is under way to it, whoever has not answered it competes, and defers the reply or carries
the same stamp. Those that defer come earlier, so the earliest that waits (they
are finitely many, `WFMin`) is held up by a tie alone. With one peer the
statement is false: it waits for a REPLY nobody sends.

*No false alarm*: as in `singhal.c` the REPLY clears the way; p stands in it until q
competes and has counted the REPLY. That nobody else is inside is `Exclusion`, hence
the condition on the stamps.

### lamport.c

| Theorem | States | Where |
|---|---|---|
| `TypeCorrect` | `Spec => []TypeOK` | everywhere |
| `NeverFatal` | `Spec => []NoPeerFatal` | everywhere |
| `RepliesExpected` | `Spec => []RepliesAreExpected` | everywhere |
| `EpochHeard` | `Spec => []EpochKnown` | ordered |
| `Exclusion` | `[]MutualExclusion` | ordered; stamps increase |
| `OwnRequestHeads` | `[]OwnRequestAtHead` | the same |
| `OneOwnRequest` | `[]OwnRequestQueued` | the same |
| `QueuesEmpty` | `[]QueuesDrained` | the same |
| `Implementation` | `MutexSpec` | the same |
| `NobodyLeftWaiting` | `[]NobodyForgotten` | the same; two peers or more |
| `WantsFindIdle` | `Spec => []WantFindsIdle` | ordered |
| `NoResponseTooMany` | `Spec => []ResponsesFit` | ordered |
| `NoAlarm` | `[]NoFalseAlarm` | one host, `OutOfBounds = {FALSE}`; stamps increase |
| `StampsInOrder` | when stamps increase | every start; instants the stamps can tell |

`TypeCorrect` includes the request queues: insertion before the first later
request, with its cut of the list, keeps a sequence of requests. Replies are
treated as in `ricart.c`, without deferred ones.

*The queues.* A RELEASE names its sender, but the handler takes off the head
whatever it is, and with three peers the RELEASEs of two of them may arrive in the
wrong order. The invariant `Ordered` says why that does no harm. A queue (`Queued`)
has two parts. In front are entries whose owners have left: as many as RELEASEs
are on their way to the peer, in no particular order and with nobody's own among
them. Behind, sorted, are the requests of those that compete now, one of each
whose REQUEST has arrived. So every RELEASE pops an entry of the first part, not
always its sender's. The count is a cardinality (`Releasing`), because at most one RELEASE
of a peer is under way to another: its next REQUEST comes behind it (`ReleasedOnce`),
and nobody enters before the REQUEST is answered.

*Exclusion.* The stamps that peers compete with are in no variable of `lamport.c`,
only in their requests. The invariant is therefore
`\E ts : Ordered(ts)`, and the step that asks changes the witness. A peer
replies at once, whether it competes or not, so a REPLY alone means little:
`Consent` says that a peer that has been answered by one with an older request has
received this request before, since it was sent in front of the answer. Who
enters has its own entry at the head: then there is no released entry in front, the queue
knows every older request, and the peer is the oldest of all (`Oldest`). When it
leaves, its entry is the first of the live ones in every queue, and joins the
released ones with the RELEASE that is sent. Both arguments need order between two nodes:
on UDP the REPLY overtakes the REQUEST. The condition on the stamps is that of
`ricart.c`; `lamport_nsec` shows what happens without it.

*When stamps increase.* `StampsInOrder` is about any start of the experiment, and any set
of instants whose seconds since the start fit a `uint32` (`Tellable`; in the code, 136
years). Seconds are never in the wrong order then, and within a second two stamps
are as long as both instants are before the start's nanoseconds, where both wrap
around, or neither is. So stamps increase if and only if there is no second in
which one request is stamped before the start's nanoseconds and a later one after them or
at them (`BeforeStart`); in that case the first carries about 4 billion nanoseconds and the second
few. Requests of different seconds are never a problem, nor is a start on a full second.
This is finding 1 and nothing else, so the theorems under `StampsIncrease` say that
the missing borrow is the only thing that stamps can do to these algorithms.

*Nobody is forgotten.* A peer looks at `my_turn` only when a RELEASE or REPLY comes,
and enters in the same handler, so its turn must not come by anything else.
`TurnsTaken` says that it does not: between two steps no pending peer has its
turn. A REQUEST puts an entry of somebody else at the head of the queue or leaves
the head alone, and counts no reply. Suppose now that nothing is under way. By
`AskedOnce` a competitor then has everybody's REPLY, and by `Ordered` all queues
hold the requests of those that compete and nothing else. If there are competitors the oldest of
them (`SomeOldest`) is not inside, since no EXITED is due; so it is pending,
heads its own queue and has all replies, and that would be its turn. That the test is then over for the supervisor
as well follows from `Sight` and `Counted`. A single peer waits for ever, since no REPLY or
RELEASE comes, which is why two are needed.

*No false alarm*: here it is the RELEASE that clears the way, and p stands in q's
way while its RELEASE to q is under way. Whoever enters heads its own queue with
its own request, so no released entry is left in front and no RELEASE is under way
to it (`Ordered`).

### The processes

`PeerProgramProofs` and `SupervisorProgramProofs` prove about the two kinds of
process, for every size of the pool, whatever packets come and however often, and
for every command line, file, number of peers, interval and number of tests:

| Theorem | States | of |
|---|---|---|
| `SlotsGivenBack` | `Spec => []SlotsMatchTimers` | `PeerProgram` |
| `PacketsCounted` | `Spec => []SignalsCoverSocket` | `PeerProgram` |
| `EventsFitPhase` | `Spec => []EventsMatchPhase` | `PeerProgram` |
| `LoopSteps` | `Spec => Abstract!Init /\ [][Abstract!Next]_(Abstract!vars)` | `PeerProgram` |
| `RecordsPlaced` | `Spec => []RecordsInPlace` | `PeerProgram` |
| `ElectionIsDefined` | `Spec => []ElectionDefined` | `PeerProgram` |
| `PeriodicForEver` | `Spec => []PeriodicAlive` | `SupervisorProgram` |
| `SupSteps` | `Spec => Sup!SupInit /\ [][Sup!SupNext]_(Sup!supVars)` | `SupervisorProgram` |
| `DelaysApart` | `Spec => []DelaysDisjoint` | `SupervisorProgram` |
| `AverageLogged` | `Spec => AverageExact` | `SupervisorProgram` |

`LoopSteps` and `SupSteps` are `EventLoopSpec` and `SupervisorSpec` without their
fairness, which stays with TLC. Assumptions: `EventsAssumption`, `StartupAssumption`
and `PeerProgramAssumption`, or `TimeAssumption` and `SupervisorProgramAssumption`,
evaluated in the runs of the two programs.

*The engine.* `schedule_event` fails silently when the pool is used up, and then a
process would execute for ever, or the supervisor start no more test. So the
number of due events is only right if a slot is always free, and that is so
because all slots follow the timers (`SlotsMatchTimers`), because only one kind
of event ever has a timer, and because none of it is due where the next is
scheduled: in a process that enters (`EventsMatchPhase`), in `do_work` that handles
the one there was (`PeriodicAlive`). Neither is inductive alone. The invariants are

    IInv == TypeOK /\ EngineOK /\ TimersAreFor("EXITED") /\ EventsMatchPhase
    IInv == /\ EngineOK /\ TimersAreFor("PERIODIC_WORK")
            /\ socket \in Seq(PeerReport) /\ main \in {...} /\ PeriodicAlive

with `EngineOK == EventsTypeOK /\ SlotsMatchTimers /\ SignalsCoverSocket`.
`EventsProofs` has what the kernel's steps, the signals' handlers and the calls of
`init.c` do to them: how the number of due events changes when an event is put on a timer,
expires or is queued, and that `get_free_timer` finds a slot if there is one.

*Loops over data.* `parse_file` and the sum of the delays are folds, and what a fold
yields takes an induction. The library's theorems for that are out of reach, because
they take an operator as a parameter; `EventsProofs` has two that take none.
`LeastNumber`: a set of numbers that is not empty has a least one; hence `CountUp`,
induction for a set of numbers. `FoldExists`: the recursive function by which a fold
is defined exists, so that the fold of a sequence can be taken along its initial
segments, one element at a time.

*The start-up.* `Reading` is what `parse_file` may have after some lines: the cells
below `ix` are records in their places, those above are zero, and the record of
the peer itself has enough link speeds, if any. Each line keeps it, and what is
accepted has read all of it but perhaps the last record. The options stay in their ranges
(`PeerParamsOK`, `SupervisorParamsOK`). So the rounded share of the nodes is not
above their number (`Share`), and an election draws from at least as many processes
as it needs (`ManyToDraw`).

*The supervisor and its specification.* `ViewSteps` maps every step to one of
`Supervisor` or to a stutter. What it needs of the program is `SyncroFirst`: `main`
queues SYNCRO and the first PERIODIC_WORK before a signal is looked at and nobody queues
SYNCRO again, so that it is handled once and before the first election.

*The delays.* `DelaysDisjoint` says that the delays of a test together are not more
than the time since it began. They are disjoint intervals, each from the EXITED
before it, or from the election, to the ENTERED that ends it. `PeersInv` says that
reports alternate, since the peers exclude each other, so `tstamp_last_exited` is always
the start of the interval under way; by `DelaysInv` the sum of the delays is not more
than the time from the election to there while nobody is inside, and to now in any
case (`LastExitAt`). `AverageExact` needs as many delays
as responses, and a response before an average is taken (`ResponsesInv`). Then seconds
and nanoseconds, divided apart with a rest carried over, add up to the quotient
of the whole sum (`Quotient`, `AverageOfSums`).

### Model-checked only

* Liveness (`Served`, `TestsEnd`, the fairness in `EventLoopSpec` and
  `SupervisorSpec`): temporal reasoning with fairness and ENABLED is outside what
  the installed provers do.
* `NobodyForgotten` of `singhal.c`, for three peers and two tests (`singhal_fifo`).
  There is nothing to prove: with five competitors it is false (finding 5).

Every other property of a passing run is stated by a theorem.

## 7. Not modelled

* Splitting the configuration file into words and numbers, the text of logs and
  debugging output, the scripts. A malformed address or port is not noticed by
  the code either.
* Writing behind an array: more than 49 peers in `suzuki.c`, more than 50 link
  speeds, the buffer for the line of delays with 17 competitors or more. The code
  does not check them, and what happens then has no defined outcome to model.
* The response times, which a peer measures itself and the supervisor only
  stores, averages and prints next to the delays.
* Duplicated packets, and liveness with lost ones (section 2); nodes that are
  started late or stopped by hand in the composed systems: the programs keep
  nothing between runs and know no restart. A peer that is stopped is in
  `PeerProgram`.
* The limit of pending real-time signals and the failure of `malloc` in
  `deliver_event`, whose results nobody looks at.
* A single peer: Lamport and Ricart-Agrawala never enter then, since both wait
  for a message to act on. `SupervisorAssumption` allows it, the runs do not use it.

## 8. Plan

Done: all programs and all of the shared code, in two grains; the abstract
specifications `Mutex`, `EventLoop` and `Supervisor`; proofs of exclusion and of
the refinement of `Mutex` for all four algorithms, and of the supervisor's view of
their peers; of the token and the queues, and that nobody is left waiting, for
`suzuki.c` on one host and `lamport.c` on ordered networks; that on one host the
supervisor raises no false alarm with any of the four; of the event engine, the
start-up and the statistics; that both kinds of process do what the coarse
modules say. What remains:

1. Liveness under fairness, which TLC checks and the installed provers cannot do.
2. A condition on the elections under which nobody is left waiting in `singhal.c`.
   TLC finds no circle among three competitors and there is one among five; for four
   the question is open.
