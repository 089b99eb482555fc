# franka-rs in TLA+

Specifications of [franka-rs](https://github.com/BarisYazici/franka-rs), a client for Franka
arms in Rust with no libfranka underneath, of the node that serves arms over Zenoh, of the
cameras and recorders beside it, and of the programs that drive it. The modules model the parts
where several threads, machines or callbacks meet, and the arithmetic that must hold at its
edges; TLC checks them on small instances, and TLAPS proves most of the safety for every value of
the constants.

```
 commanders                     franka-node                          franka-rs               robot
 PyTargets, PySession,  ---->  transport ---> channel --> arm thread --> target control --> FCI
 PySilence, VrTeleop,          [NodeLife]                 [ArmMachine]   [TargetControl]   [FciMotion]
 VrHands, VrBridge,            gate [NodeGate]                |          [TorqueLoop]      [FciLoop]
 VrParams, the panel           tuning [NodeParams,            |          [PositionStream]  [FciLink]
 [PanelEvents,                         ParamsWire]            |          [TargetOptions]   [RobotClient]
  PanelMetrics]                gripper [GripperHand] ---------|--------------------------> hand
                               recording [NodeRecording, FlightLogger]
                               configuration [NodeConfig]     | episode and state topics
                                                              v
 a program in one process [PyArm]                 franka-cam [CamCapture, CamFrames, CamRecorder]
 the simulator of the tests [SimHarness]
```

`PROJECT.json` lists the components, the runs with their properties, the lines each definition
stands for, the hazards and the theorems. To check: `tlc -config Node.cfg MCNode` and so on for
the runs of section 3, `tlapm NodeProofs.tla` and so on for the proofs of section 4.

## 1. The system

### franka-node (`crates/franka-node`)

**Arm thread** (`arm/machine.rs`, `arm/commands.rs`, `arm/mod.rs`). One thread per arm owns a
`Machine`: phase (idle, acquired, active, homing, faulted), lease holder, live leases, the
handle of a control loop, the gate, the home query in progress, the watchdog's two times. Its
inputs come through one channel: targets (bounded by `Backlog`), gripper orders, queries, lease
events. It takes them in batches: commands and lease events in order, then the newest target.
Between events it looks at a tick and at the watchdog's deadline. *Hard*: a session begins in
six steps each of which may fail; it may end by a stop, a release, a lost lease, the watchdog,
a dead loop, a fault, a home that arrives or times out, a shutdown; the control loop ends on
its own at any time; queries are answered from several places. *Correct means*: no holder
without a live lease, no loop without an owner, brackets closed, each query answered once, a
silent commander stopped, a session never taken over.

**Gate** (`guard.rs`). Judges every target of the holder: sequence, norm, box, step, lead, a
token bucket. *Hard*: the network repeats, reorders and loses; the anchor is where the arm
seen at the last state tick, not where it is. *Correct means*: accepted in order and once,
within rate and lead, no sender refused for tokens it has, and a target at the arm gets in.

**Gripper driver** (`gripper/hand.rs`). A worker runs one blocking command of the hand at a
time; callers leave the newest width, a grasp or a homing in slots and notify; `stop` goes past
the worker from a thread of its own; `Drop` joins. *Hard*: lost wakeups, the deadband that
compares with a width which a failure made stale, what a stop dropped coming back, homes that
time out.

**Live parameters** (`arm/params.rs`, `msg/params`, and `target_control/tuning` below). A
versioned set with an origin, clamped to a table of bounds, confirmed above thresholds, reseeded
by each session; a second seqlock carries it into the loop, which crosses to it over many
cycles. *Hard*: read-modify-write by several clients over a lossy request, a session that starts
between a read and a set, springs and dampings tied in pairs.

**Recording** (`arm/record.rs`, `franka-rerun`). A file per session, announced by episode
samples; the loop pushes records into a bounded channel without ever waiting, the recorder's
thread drains and writes them. *Hard*: which of them a close may lose, a start that fails after
the file was opened, names that collide, batches that cut the log anywhere.

**Life** (`lib.rs`, `transport.rs`, `status.rs`). Arms are attached one after another and served
as soon as they are wired; a signal, or a later arm that fails, unwinds everything. *Hard*: a
callback that still runs while its entity is undeclared, a query in a channel that closes.

**Configuration** (`config.rs`). What is accepted once must start every later session.

### franka-rs (`crates/franka-rs`)

**FCI motion protocol** (`robot/robot_impl`, `robot/commands.rs`, `robot/control_loop`,
`robot/active_control.rs`). A control process holds the control lock, starts a motion, waits
for `MotionStarted` and for a state that shows it, cycles, and finishes, fails or is aborted. Stop
and recovery run on other threads. *Hard*: the terminal reply may come before, between or after
the states that show the end; datagrams are lost and reordered; the connection breaks under
several waiting threads; a message that makes no sense ends a call while the connection stays; a
handle may be used after a failed finish. *Correct means*: `Ok` is the robot's success, no motion
is left running when the lock is free (but for the calls that give up without a cancel, section
6), accepted states never go back, every call returns.

**Network** (`network`, `gripper/mod.rs`). Replies on TCP, demultiplexed by command id: any
waiting thread may read another's. States on UDP with a timeout. *Correct means*: a message is
handed out whole and to whom it is for.

**Control loop's data path** (`control_loop`, `rate_limiting`, `lowpass_filter.rs`). Callbacks'
outputs are filtered and limited so that the robot takes them.

**Target control** (`robot/target_control`). A loop thread follows at 1 kHz what callers set
through a handle: a seqlock of words, a writers' mutex, a stop flag, a running flag. The loop
anchors, loads, plans, freezes when the measured pose strays, and on a stop lands, holds and
asks for `motion_finished`. *Hard*: torn reads, a target lost between two writers, a target set
just before a stop, a stop that never lands; near the end of an axis, walls, leashes and holds
that must not push further out. The position streams and the trajectory generator
(`otg.rs`) re-anchor and replan every cycle.

**Robot and model** (`robot/mod.rs`, `wire/robot`, `model`). Two protocol versions with different
numbers for the same things; a library downloaded and shared through a file.

### Cameras (`crates/franka-cam`)

**Capture** (`capture.rs`, `source.rs`, `v4l2.rs`). One thread per camera over mmapped buffers it
shares with the driver; any error reopens the device after a growing wait. *Hard*: a slice of a
buffer that is queued again, the counter's wrap and restart, a device that comes and goes, what
a driver grants instead of what was asked.

**Episode recorder** (`record/live.rs`). Per arm, Zenoh callbacks push boundaries and state
times, capture threads offer frames to a bounded queue while an `open` flag is set, a writer
thread merges both every 100 ms. *Hard*: the flag is set by the callback and cleared by the
writer; frames and boundaries arrive by different ways; the end is best effort.

### Clients

**Python client** (`python`, `_arm.py`, `_targets.py`). A streamer thread per session, a lease
token, waits on a condition variable, a check that tells a silent node from an own stall. **VR
teleoperation** (`tools/vr-teleop`): a bridge from a headset, a proof of which hand holds which
controller, a loop that drives an arm from faults to recoveries, knobs on threads of their own.
**Panel**: event streams behind bounded queues, numbers cached beside a ring that is reset.
**franka-py** (`targets.rs`): a program's threads, the interpreter's lock, a feeder thread.
**franka-sim-test**: test binaries that find or start a simulator in Docker.

## 2. Modules

| module | models (state → actions) |
|---|---|
| `ArmMachine` | the arm thread's record `arm`, its channel, the environment of its loop |
| `TargetRegister`, `TargetControl` | what target control promises; handle, slot word by word, loop |
| `FciMotion` | users, callers, mailbox, states, an external robot |
| `FciLink` | sockets byte by byte, readers, handshake, datagrams |
| `MCArm` | two instances: alphabets of events, two clients or one streamer; `ArmMachine` or `FciLink`, with fairness |
| `NodeGate` | gate, the arm that follows, the network |
| `NodeParams`, `ParamsWire` | tuning's races over a few words; the whole table for one client |
| `NodeRecording`, `FlightLogger` | a recording's threads and files; what batches may not change |
| `GripperHand` | callers, worker, stops, an external hand |
| `NodeLife` | main thread, arms, entities, queries, signals |
| `MCNode` | the six above as one specification |
| `NodeConfig`, `TargetOptions` | what is accepted, and what every session is started with |
| `PyArm`, `SimHarness` | a program's threads and chunk; binaries, containers, probes |
| `MCMotions` | `FciMotion` and the four above but `TargetOptions`, which `NodeConfig` extends, with `ParamsWire` |
| `CamCapture`, `CamFrames`, `CamRecorder`, `MCCameras` | capture thread and driver; a format's way to a consumer; the recorder |
| `PyTargets`, `PySession`, `VrTeleop`, `VrBridge`, `PanelEvents`, `MCClients` | what talks to the node |
| `RobotClient`, `FciLoop`, `TorqueLoop`, `PositionStream`, `PySilence`, `VrHands`, `VrParams`, `PanelMetrics`, `MCLibrary` | parts that stand alone |
| `ArmProofs`, `TargetControlProofs`, `NodeProofs`, `ClientsProofs`, `CamerasProofs`, `LibraryProofs`, `WireProofs`, `MotionsProofs` | theorems |

The suites `MCArm`, `MCNode`, `MCMotions`, `MCCameras`, `MCClients`, `MCLibrary` hold parts that
share no state in the code either. A variable `part`, chosen at the start, says which one moves;
the others stand at one of their initial states. So a suite's states are the sum of its parts'
and not the product, nothing of a part's own interleavings is lost, and a theorem about a suite
says of each part what a specification of its own would.

Notes on what a module keeps and what it abstracts:

**ArmMachine.** The code's handlers are methods of one struct that call each other, so the
struct is one record, `arm`, and each handler is an operator from it to the set of records it
may leave (several where the robot decides: a start fails, a stop returns an error). The
actions take events (`Take*`, `EndBatch`), tick, fire the watchdog, drain at shutdown; the
environment sends, ends the loop, answers the gripper's home, lets time pass. `Stopping`, a
phase the thread leaves before it looks at its channel again, is inside `StopTo`. Robot
calls answer at once, with success or error. `Finish` takes the drain's last look at the channel, the
last state and the drop of the channel as one step; a query sent in between is dropped unanswered by the
code, a window that `NodeLife` has (`leaving`). Left out: counters and messages that are only
published, the parameters' values (`NodeParams`), the failure to spawn the gripper-home thread.

**GripperHand.** The mutex is held across one step boundary only, between the worker's "nothing
to do" and its wait, so the state `checked` stands for it. `asked` and `dropped` are history.

**FciMotion.** A user's `at` names the line it waits at. `replies` is the TCP stream, `received`
the mailbox, `states` what the robot has shown, `seen` the index of the accepted one; a receive
takes any state from where the receiver started. Assumed: a state the robot showed before a Move
does not arrive after the robot took it (`robot.since`); without that the code takes a late
state of the old motion for the new one's, which it cannot tell apart. Errors are of two kinds: the
connection is lost (`Broken`), or a datagram is no state, a header of a wrong size or a reply of no
status, or a command is not sent (`Garbled`): the connection stays up, and of what each call does then
(`Errs`) a loop's error cancels, while `start_motion`, the cancel itself and a handle's finish just
return. The motions that were let go of so are `abandoned`, which is history. `write_once` of a handle
is no step of its own, since what it sends only keeps the motion going.

**FciLink.** A message is `HeaderLen` bytes and a body, and each byte says whose it is; a pass of
`read_from_buffer` is one step under the socket's mutex, and takes any number of the bytes that are
there. The connection may close, be shut, or carry a malformed message.

**FciLoop, TorqueLoop, PositionStream.** One axis (two in the stream), whole numbers, a cycle as the
unit of time; the rotation's chart and the inverse kinematics' box step are taken as one more
axis or a pin. The robot of `FciLoop` refuses jumps as the limits of the real one do, and an FR3's velocity
limits may move with its joint; the arm of
`TorqueLoop` goes anywhere, and by any way in one cycle. Plans of the generator are any that its
limits allow. `torque.from` is history: where the goal was a cycle ago.

**TargetControl.** A word's value is the place in `log` of the target that set it, so equality
of targets is identity. `setter[c].at` and `loop.at` are program counters; the sequence's two
increments and each word are steps of their own. At the target, blocked, deviated, at rest, the
robot's verdict are the environment's choices. Memory is sequentially consistent here (the
fences of `slot.rs` give the order the steps need). The second slot of the live tuning is
`NodeParams`'.

**NodeGate.** A target is one whole number, for a position, an orientation or a joint. Time is in
ticks, `Second` of them to a second, and a token has as many parts: a tick adds `Rate` parts. Where the
arm is (`place`) and where the last state tick saw it (`snapshot`, what the code judges against) are
apart; in between the loop moves the arm by `MaxTravel` at most, and a hand may push it anywhere. Each
half of a pose has its own lead limit: one is a number, of the other the gate knows whether it has any
(`gate.other`), since an anchored target steps from the snapshot only if both halves are bounded. `passed`,
`coast` and `pushes` are history.

**NodeParams, ParamsWire.** The first has the sequence and the words of the tuning slot, the clients'
reads and requests, seeds of new sessions, and the loop's crossing, over words of every kind;
the second one client against the whole table of bounds, with times in ticks. `Floor` is the
pair rule's table.

**NodeRecording.** A record is its cycle's number. The arm thread's `close` and `finish`, the
loop's push (which may drop), and the recorder's drain and write are steps; `Announced` are the
names that were published.

**NodeLife.** `main.at` is where `run` is, `arms[a]` where a thread is, `calls[c]` where a query is;
a callback that has begun may send after its entity is gone.

**CamCapture.** `driver` has the queue of buffers and what each contains, `capture.at` the place in
the thread's loop; the counter has `SeqModulus` values. **CamFrames** takes every small
configuration and grant, and sequences of marker bytes where `trim_jpeg` looks. **CamRecorder**:
a boundary's stamp is the number of boundaries published by then; state times are ages, in seconds, so no unit of time
falls within a start; a
writer's batch is a set of frames, since sorting them by stamp is all that the order is used for.

**NodeConfig, TargetOptions.** A configuration is the default with a few fields changed, of the
second of two arms; a number is a whole number in its field's unit, not a number, or endless; an
array is its worst element; stiffnesses are squares so that damping is whole.

**PyArm.** Three locks (the interpreter's, the chunk's, the handle's) as owners; condition waits
may wake at any time. **SimHarness**: locks, probes, `docker run` and its failures, drops on a panic.

**PyTargets, PySession, PySilence, VrTeleop, VrBridge, VrHands, VrParams, PanelEvents,
PanelMetrics.** The user's or the loop's thread and the callbacks beside it, with the node as it
looks from there. Poses are numbers, or only what the rules tell apart; sequence numbers are
eras; stores of Python attributes are steps. In `PySession` the arm's states are a sequence, the newest
that came first and the arm as it is last: a callback may deliver any later one of them, so a call goes
by a state that may be of before its own last verb. In `VrBridge` a tick of a stalled process comes up to
`MaxTick` units late, and the bounds on ages say so.

## 3. Runs

| run | what moves | states | shows |
|---|---|---|---|
| `ArmSessions` | the arm thread, two contending clients, or one that streams | 1.70 M | `TypeOK`, `SessionsAreOwned`, `NothingIsLost`, `SessionSteps` |
| `ArmLife` | the arm thread; two threads on one socket | 0.17 M | `SessionsEnd`, `EveryQueryAnswered`; `LinkSafety`, `OwnReplyComes` |
| `ArmStopWins` | target, stop, enable in one batch | – | `StopAlwaysWins` violated, see 6 |
| `TargetControl` | two callers, slot, loop | 0.47 M | `TypeOK`, `OkMeansAtRest`, `IsRegister`, `KeepsOthersWords`, `StopReturns` |
| `FciLife` | a loop, a caller, the robot, under fairness | 0.13 M | `EveryCallReturns`, `EndedMotionIsNoticed` |
| `FciStaleHandle` | two users, one with an old handle | – | `OkMeansSuccess` violated |
| `Motions` | motion; config; program; wire; harness | 1.31 M | `MotionsTypeOK`, `DrivingIsSafe`, `NothingGoesBack` |
| `Node` | gate; flight; recording; params; gripper; life | 0.48 M | `NodeTypeOK`, `GateSafety`, `RecordingSafety`, `TuningSafety`, `ThreadSafety`, `NothingTakenBack`, `NodeGoesOn` |
| `Clients` | targets; session; teleop; bridge; pages | 0.26 M | `ClientsTypeOK`, `StreamerSafety`, `TeleopSafety`, `PageIsCurrent`, `StopSparesTheNext`, `ClientsGoOn` |
| `Cameras` | capture; frames; recorder | 0.57 M | `CamerasTypeOK`, `CaptureSafety`, `EpisodeSafety`, `CameraGoesOn`, `LostEndCloses` |
| `CamSessionCut` | the recorder over two sessions and time | – | `RunningEpisodeGoesOn` violated |
| `Library` | client; loop; torque; stream; silence; hands; knobs; numbers | 0.56 M | `LibraryTypeOK`, `RobotSafety`, `DriverSafety`, `PanelSafety` |

A suite's property is the conjunction of its parts' properties, each under the `part` it is of;
the parts are defined, and said in words, in the parts' modules. Deadlock is not checked: the
systems may stop (a node shut down, a driver dropped, a bound reached).

**Bounds.** *Arm*: two clients where they contend (symmetric), one elsewhere; queue of two
events, which is enough for a batch that mixes a target with a command on either side of it
(what arrives during a batch joins it, so batches are longer than the queue);
`StopAfter` 2 > `HoldAfter` 1 separates held from stopped; settling takes two ticks, the
timeout one unit, so either can be first. The alphabets leave out events whose handling another
run covers; a query of nobody is only told from a client's where the holder is asked for.
*Link*: two threads, three requests, a message in several reads; one malformed message or lost
connection. *Target*: targets of two words, the smallest that can be torn; two callers; three
sets after the anchor, so that a load can miss more than one; two tries, patience of two cycles,
a settle window of one. *FCI*: two Moves, so that a motion's remains meet the next; one call of
stop or recovery; one trouble, a reflex or an unusable message; both kinds of motion in the safety run. *Config*: two fields
changed, the first of them one that is checked or used together with another. *Program*: two
threads, three calls, chunks whose feeder falls behind. *Wire*: two sets, each of one client's
fields, over two seeds, one near its bounds. *Harness*: two binaries, one of them with two tests.
*Gate*: three targets and one of another client, one lost or repeated at a time, a box inside
the places; two ticks to a second at one target a second, so that half a token is a refill that may be
lost; one unit of travel between two state ticks and one push. *Flight*: every cut of a log of three records. *Recording*: two sessions of two
cycles, a channel of one, so that it is full. *Params*: two clients, one of whom is blind to the
version; two sets; a change past its bound, both halves of a pair, words to be confirmed.
*Gripper*: two widths, because the deadband only tells "the same" from "another"; two stops under
way at once. *Life*: two arms, so that one is served before the other is had. *Capture*: two
buffers, the least the code accepts; a counter of three values and five frames, so that it wraps;
two changes of the device. *Frames*: every configuration and grant of pictures of up to two by
two, every payload of two marker bytes, those of four with an end of image early. *Recorder*: two
cameras, a queue of two, and three budgets (two sessions; one with time; one with two frames).
*Clients*: three places and two goals, two session objects, two faults, two controllers with a tick
late by one, one page with a queue of two. *Library*: five cycles near the end of an axis of seven places, one skipped;
eight ticks of a process that stalls; each large enough for the limiter, the wall, the hold, the
grace and the reset to happen in the middle. What is checked with these bounds is proved without
them for the components of section 4.

**Fairness.** *Arm*: the tick and the watchdog are strongly fair, because the loop looks at both
before every event; the batch, the drain and the gripper-home thread go on while they can, the
clock runs. The liveness properties assume `Drained`: the senders do not outrun the thread for
ever; a batch that never empties postpones tick and watchdog, and the code has no bound
against it. *Link*: a waiting thread polls. *FCI*: a thread that can go on in its call does, and
a loop cycles; the robot takes requests, answers them, and finishes a motion it was asked to
finish; nobody is required to start, stop or cancel. A newest state arrives again and again
(strong fairness on receiving it), or the receive times out; `try_receive` finds its lock free again
and again. *Target*: threads run and cycles
keep coming (or the loop fails); nothing is assumed of the generator or of the arm's rest.
*Node*: the recorder's thread runs, the arm thread goes on closing, the loop goes on crossing,
the main thread and the arms' threads run; the hand answers, since its commands end on their own.
*Cameras*: the thread and the writer run, time passes, the driver fills a buffer if the device is
ready and there is one. *Clients*: the streamer and the loop cycle, what was not lost is delivered,
a call that leaves a session is gone through. In a suite each condition is that of the part that
moves.

Every property has a mutant in `PROJECT.json`, and most have one per part: a change of one
definition, of the kind a bug in that code would be, under which the run finds the property
violated.

## 4. Proofs

A suite's theorems all go the same way: each part has an inductive invariant of its own, shown
to hold initially and to be kept by `[PartNext]_partVars`; a step of the suite is a step or a
stutter of each part; the run's property follows from the invariant.

**ArmProofs**, the arm thread (every set of clients, alphabet and bound). `TypeCorrect`, `OwnedSessions`
(with its parts `HolderIsAlive`, `SessionIsOwned`, `SessionIsClosed`) and `NothingLost` are
invariants; `SessionStepsHold` (`StoppedInPlace`, `NeverTakenOver`) is an action property. A
handler that ends a session relies on how phase, loop, gate, holder, file, episode and home query
go together. The invariant is `Inv == TypeOK /\ Core(arm) /\ HasLease(arm)`. `Core` is the
agreement of those fields and holds between any two handlers, also the nested ones; `HasLease`
is apart since `lease_lost` breaks it in its first step and restores it in its last. Each handler
has a lemma that its result is `Sound`: `Core` again, the lease kept, the session not taken over.
`NothingLost` counts: what is owed to a client is its queries in the channel, the one in the
batch, the home and the gripper's home it waits for (`Owed`), and every handler either keeps or
pays it; lemmas about `Count` say what an append and a tail do to the number of members of a
queue. Assumed: `NoClient` is no client, `HoldAfter < StopAfter` (the configuration's check), the
sizes are naturals.

**TargetControlProofs** (every number of callers, words, tries, cycles). `Refinement` proves
`Spec => IsRegister`: each behaviour of callers, slot and loop is one of the register, with
`at` the place in the log of the followed target. `OkIsAtRest`, `OthersWordsKept` and
`TypeCorrect` come from the same invariant: the mutex has one owner (`Locked`); nothing before
the first cycle, no call after a stop (`Started`); each target in the log has a word of its own,
so places are unique (`Fresh`); an even sequence is twice the log's length and the words are its
last target, an odd one marks a prefix of the next (`Seqlock`); what a load has copied is of the
slot as it is, if the sequence did not move (`Reading`); the followed target is in the log
(`Follows`); a stop that was sampled before the slot is planned with the last target
(`Landing`), the order the code takes care of in `Runner::cycle`; the result comes after the
settle window (`Finishing`). Assumed: `NoSetter` is no setter, at least one word and one try.

**NodeProofs.** `GateIsSafe`: what was let through since any accepted target, and the tokens left,
are within the bucket and its refills (`TokensLeft`), and some such window is used up to the last part of
a token (`TokensKept`), so a refusal costs nothing (`RateIsFair`); unless pushed, the arm is within
`MaxTravel` of the snapshot (`SeenAbout`), and the way to the last accepted target and the way gone since
are within the lead and that travel (`WithinLead`). `ThreadsAreSafe`, the gripper: a worker that
looked and found nothing has nothing to do, the width asked for last is pending, under way or
reached, and the commanded width is where the hand is or goes. `ThreadsAreSafe`, the life: every
thread that is not joined is among what `unwind` still has to take down, an arm's shutdown comes
after its entities are gone, the status ends before the first arm goes, and a query that was sent
in time is in the channel ahead of the shutdown. `TuningIsSafe`: whatever a client read at the
present version and seed is what is in effect (`ReadsAreCurrent`), a set that passed the gate is
legal against the words it changes (`SetIsLegal`), the origin's values are in effect.
`RecordsAreAccounted`: the records in file, batch and channel, in that order and each in
order, with those dropped, are those pushed (`AllAccounted`); what there is of a recording in
each phase of its session (`PhaseOfRecording`); announced files exist. Its second part is the
flight recorder: what it tells of a log, drawn rows, edges of the contact, turns of the quaternion,
must not depend on how the log was cut into batches. A batch is a `FoldLeft`, whose own recursion says that
its result is the last of a sequence of states, one per record (`LoggedInTurn`); each record keeps
that what was told is what `ToldOf` says of the log so far (`RecordKeeps`), hence a batch does
(`BatchKeeps`, by the least number of records for which it would not). `FlightInv` has besides that the
logger's counters are those of the whole log (`LoggerIs`) and that a time belongs to one record (`TimesInv`). `NothingIsTakenBack`, an
action property, follows from these invariants. `NodeIsTyped` is the type invariant of all six parts,
from these and what is left of each part's types. Assumed: `Box` lies in `Places`, which has no gaps, sizes are
naturals and rates positive; a tunable that is ramped has its rate among the tunables
(`WordsAssumption`); a tunable's least value is not above its bound, seeds are values of the type, and the
pair rule's least damping of any spring within its bound is within the damping's bound
(`FloorAssumption`, which is what `tests/tuning.rs` asserts of the ceilings). Seeds may be beyond
their bounds or undamped: `config.rs:493` only asks for finite and non-negative values.
Of the flight recorder (`FlightAssumption`): one in so many records is drawn, an orientation is one of a
circle with two spellings of each, or none.

**ClientsProofs.** `PagesAreCurrent`: while an event is being told, its newest version is the last
of its owner in the queue of each page, or on the page. `TeleopIsSafe`: whatever broke the step of
hand and arm since the clutch latched, the clutch knows (`ClutchKnows`); a state and a target are
of the session the arm is in while the loop drives (`OneSession`); from a fault to the next
session no state reads active too early (`RecoveryOrder`). The bridge: a fresh sample is no older
than the gap it is held for and the tick that found it (`Lateness`), a hand that drives was shaken
off since the last outage.
`StreamersAreSafe` and `StopsSpareTheNext`: a session that is not done is the client's newest, and
what the node runs is that one or nothing of the client's (`NewestOnly`, `NodeRuns`), whatever states
are on their way; a session that a state of before its enable told to be over is `misled`, and excepted
(section 6). `PyTargets`: the era that a wait needs is the present goal's. `ClientsAreTyped` is the type
invariant of all five parts: eras and versions stay within their budgets, a page's queue within its
size. Assumed: session objects are numbered in the order they are made; timeouts and a tick's length are
positive; caps and leads are naturals that the node's step admits (`LeadAssumption`), the line has no gaps
and a chunk has a row (`LineAssumption`), the bounds are naturals (`PanelAssumption`,
`TeleopAssumption`).

**ArmProofs**, the socket. The bytes left over and those on the wire are one stream in which every byte lies
within the whole of its message (`WellCut`), and what is left over is less than one message
(`Unfinished`): so what a reader completes is that message and nothing of the next, whoever reads
and in how many reads. `LinkIsSafe` is that, and that `read_once` of a gripper returns a state that
arrived after its call; `RepliesAreOwn` is the safety half of `OwnReplyComes`. Assumed: a header
has a byte, there is a body.

**CamerasProofs.** `SamplesAreWhole`: each buffer is queued, filled or in hand, and in one of these
places (`OnePlace`), filled ones wait in the order of their frames, and the last number is that of
the last sample, modulo the counter's width; so the modular gap is the number of frames between
two samples when that is below the width (`Wraps`). A format that was accepted has the length
a consumer computes from its header, for any extents. `EpisodesAreWhole`: the file not closed is
the open episode's and at most one (`OneOpenFile`), boundaries keep the order of their stamps on
each stretch of their way (`InOrder`), the frames that were queued when an end arrived are in the
queue or the batch ahead of that end, or in its file (`DueKept`), and once a writer saw every sink
gone the queue stays empty (`SinksEnd`). Assumed: two buffers or more and finitely many (what
`mmap` asks for and gets), extents are naturals (they are `u32`), `None` is neither a boundary nor
an episode, bounds are naturals.

**LibraryProofs.** `DriversAreRight`, the silence: while the node talks, an awake process runs each
tick and a state that waits is no older than the stall the process has just come out of
(`WaitsShortly`), so that its next cycle sees the stall; once late, one grace is all there is
(`Bounded`). The hands: if the other grip was held at the moment of a squeeze, its sample is in the
other queue and is read before the check's deadline (`OtherComes`), or is read already, at a time when
the check still waited for the controller (`NoneCounts`). `PanelIsCurrent`: versions count what was
accepted, every version since the published one has the published knobs (`VersionsInv`); a number that a
reader carries or leaves in the cache is of the stream it began in or a later one
(`ReaderIsCurrent`). `RobotIsUnderstood`: the numbers of both versions' tables mean the name they
were taken for (`NumbersAgree`); the version in use is the robot's from the moment it is accepted; the
number in a file's name was given to no other load. `LoopsAreLimited`: with `limit_rate` what goes out
is no jump. The limiter stays within a room: from the last velocity and acceleration some step obeys
the jerk, the acceleration and the velocity limits at once (`Room`), and each such step leaves room for
the next (`Roomy`), because the acceleration towards a limit is at most `Ratio` times the distance to it
and what is left is an integer's quotient. The robot's published torque differs from the one commanded
by half of a float32's last place, which the torque limiter's margin covers. A joint is where a
sum of steps got it (`LoopRange`), so limits that move with it are asked at places where they are
defined. The proof showed that the property as it was stated held only by its run's small bound on
velocity: limits that fall while the joint moves may take the room away, and the exception is now stated
(section 6). `TorquesAreSafe`: the goal stays within the margins because a step is bounded where it
ends (`LimitsFall`, `BoundIs`): limits that fall toward the ends leave it the room to brake. The
tracker is between goal and target and the runner's path never exceeds its plan (`TrackerIs`,
`RunnerIs`); once the stop path has taken over, the goal is where it was frozen (`GoalIsRight`). The
envelope's lemma is `TorqueTurnsBack`: past the barrier's onset, whatever the impedance asks for, no arm that
stays there or moves on is pushed outward. Here too the proof corrected what was checked: an arm pushed past a
margin, or moved faster than the goal's box may, leaves the goal behind (`SpringIsBounded`), and a goal that
reaches a wall keeps for a cycle the velocity of the step it made in full (`NothingWindsUp`).
`LibraryIsTyped` is the type invariant of all eight parts, from these invariants; a budget that is walked
down stays within the limits (`BudgetsAreLimits`).
Assumed: grace and silence exceed the period;
`MaxDelay <= 1`, a sample waits one tick at most (with two, a controller that wakes, releases and
squeezes within the wait is read in one go, and its squeeze counts although the other grip was held:
TLC shows it); budgets are below the largest lead; `NoTime` is no time, `NoSet` is no set; what
`LoopAssumption` says of limits and units; of the stream that its largest budgets are positive; of the torque loop (`TorqueAssumption`) that the speed
allowed and the braking fall toward the ends and neither asks for a step beyond its end, that widths
and gains are naturals and the barrier's band has a width.

**MotionsProofs.** `MotionsAreSettled` is about `FciMotion`: when a control process is over, the robot
runs no motion of this client, and `Ok` was said of a success only. Replies, states and the robot run
apart, so the invariant `FciInv` says where everything is. Ids of requests the robot has not taken are
the newest and in order, at least one above the motion it runs (`IdsInOrder`). What is on its way to
a client, be it owed, sent, or read and not claimed, tells of earlier requests, ends no motion that
still runs, and has each `started` once (`PipeIsRight`). A running motion has a holder of the lock,
whose state has passed the motion's first one once it is beyond the start, or was abandoned by a call that
gave up without a cancel (`Gone`); a `Move` in the queue is of
a start still awaiting its reply (`MotionIsOwned`); the answers to a process's own ids mean what happened
(`AnswersAreOwn`); who awaits a state holds the newest accepted one (`StateIsOwn`). TLC checked it on
two instances first. Both this theorem and `NothingIsUndone` have the hypothesis `OneAtATime`: all
control processes are loops, or there is one user. That is what the control lock is for, and it
fails without it: a handle whose finish failed gives the lock back and stays readable, and the run
`FciStaleHandle` shows what follows. `ProgramIsSafe`: a thread holds the locks its place in its call
says (`HeldByCalls`, `HeldByFeeder`), and all take GIL, `follow`, `control` in that order, so there
is no ring; what was published of a chunk is what the aim says (`AimIsOfTheChunk`). `HarnessIsSafe`:
within a binary tests take turns, a container that lives is being tested or kept (`OwnContainer`), and
a ready test whose neighbours' tests have not begun has its own simulator (`OwnRobot`).
`ConfigurationsStart`: whatever was edited, a configuration that was accepted is the one the node's
sessions are made of (`Made`, in `ConfigInv`). The node's own validation asks the library about the
Cartesian options only; that the joint ones start too needs the arm's other checks (`JointIsValid`). Of
a start `StartInv` says which thread and which law there may be at each of its places, so that a start
that failed has left neither. `MotionsDriveSafely` is the whole `DrivingIsSafe`, from these and
`ParametersAreAsTold`, whose invariant `WireProofs` has; `MotionsAreTyped` is the type invariant of the
five parts. Assumed:
`NoUser` is no user and the bounds are naturals; a thread is neither the feeder nor nobody, chunks are
sequences of rows with a period; the bound on edits is a natural; `NoTest` is no test, and a configuration asks for one of the two
protocols.

**WireProofs.** The parameters' table is walked row by row (`RowIs`); from the rows follow that a
damping's floor does not fall when its spring rises (`FloorsRise`), that every value of the node is
within its row and above its floor (`Kept`), and that a set whose values the schema admits passes
the gate untouched (`AppliedIsKept`, `WithinPasses`); the same set applied twice is the set applied
once (`AgainIsTheSame`). `WireInv` has these for the last reply, and of the loop that a budget which
left from rest is where so many steps at its rate lead, `RampsAre`: rates are whole in a step of
time, so the ramp the node reckons and the one the loop walks do not drift apart, which
`SlewingTells` needs. Assumed (`WireAssumption`): a starting configuration's values are natural
numbers with such rates, and the mark of nothing is no value.

**Only model-checked.** Liveness is out of the provers' reach: `SessionsEnd`, `EveryQueryAnswered`,
`OwnReplyComes`'s second half, `StopReturns`, `EveryCallReturns`, `EndedMotionIsNoticed`,
`NodeGoesOn`, `ClientsGoOn`, `CameraGoesOn`, `LostEndCloses`. Of the safety, the stream's part of
`RobotSafety` is not proved so far.

## 5. Not modelled

- Kinematics, impedance, the dynamic model and rotations: real arithmetic. `TorqueLoop` and
  `PositionStream` have their control on one or two axes.
- Codecs, messages, schemas' texts, the viewer's blueprint, replay, the command line: layouts.
- Realtime scheduling, the robot's log, benches, scripts, the panel's host checks and presets.
- franka-py's gripper, model and state: conversions. The Python client's gripper, and its sessions
  of a whole node: one blocking call each.
- Panics of a mutex's owner: the code recovers poisoned locks.
- In modules: parsing of a URDF; `home`, `recover` and listeners of the Python client; the map from
  robot time to capture time in the recorder; spurious differences of the two clocks; a network
  that delivers a state of an old motion after a new one began (`FciMotion`).

Hazards that no property covers: a gripper width queued before a stop of the same batch is applied
after it (`machine.rs:207`); a batch goes on until the channel is empty (`machine.rs:221`, the
assumption `Drained`); a gripper's stop goes out from a thread of its own and may overtake a newer
move (`hand.rs:285`); `start_motion` judges by the last accepted state (`motion.rs:158`, `188`).

## 6. Where code and documentation disagree

Shown by runs:

- `ArmStopWins`: in a batch of target, stop, enable, the target that was queued before the stop
  is judged by the next session's fresh gate and accepted; the comment on the batch says that a
  stop always wins.
- `FciStaleHandle`: a handle that stays readable after a failed finish may put an older state
  over the newer one of another thread's loop, whose finish then returns `Ok` with its motion
  running; the terminal handler is documented as what makes `Ok` mean success.
- `CamSessionCut`: a session that begins more than `SESSION_GONE_NS` (2 s) after the last in-session
  state of the one before has its file closed while it runs, if the writer ticks between its `start`
  and its own first in-session state: both states that `watch_the_arm` compares are then of before
  it (`live.rs:451-462`), and the sinks stay disarmed. The comment there (`live.rs:457-460`) says
  that a session that is still running is not ended so, and `record.rs:117` calls the 2 s how long an
  open episode survives an arm that reports no session.

Stated in the modules, and violated by what the code does (a cfg that names the property shows
it); no run of the project checks them:

- `GripperHand!StopDropsPending`: `stop` drops the pending width and grasp, not a pending homing,
  which runs after it; the trait's documentation says it drops what is pending.
- `FciMotion!ReadOnceReturns`: a second `read_once` after an aborted motion waits for a terminal
  reply that the first one has claimed, for ever; the documentation promises an error.
- `TargetControl!RunningTells`: a panic of the caller's observer ends the loop's thread before it
  clears the running flag; `is_running` is documented to be false after an end for any reason.
- `FlightLogger!MarkerStays`: a record that is itself above the noise floor may clear the contact
  marker of its joint (`view.rs:82-86`).
- `NodeParams!PairRunsDamped`: while the loop crosses to a new pair, spring and damping in force may
  be one that the pair rule refuses; `bounds.rs` words its floor for what runs.
- `NodeRecording!RowsOfOneCycle`: a status row is read from separate atomics, so that its fields may
  be of two cycles; the comment at `record.rs:531-532` says otherwise.
- `PySession!StopEndsOwn`: session A is lost, the enable of the next is refused, and A's `stop()` then
  sends no verb, against the docstring of `stop`. So does a late state of before an enable: `_start`
  takes the previous session's active state for its own, the next state, of the time between, ends the
  new session in the client, and its `stop()` sends no verb while the node runs it
  (`_targets.py:135-136`, `151-161`, `322`).
- `VrParams!KnobUnderBound`: a pending set that was accepted under a wider budget overrides the
  lowered clamp (`teleop_params.py:104-105`).
- `SimHarness!OneOfAll`: two test binaries can both find no simulator and start one each; `lib.rs` says
  a second container is refused.
- `FciLink!SilenceShuts`: silence on UDP does not shut a gripper's connection, against `tcp.rs:207-210`
  and `network/mod.rs:263-265`.
- `PanelMetrics`: between `SourceRate.update` and the reset of the metrics, cached numbers can be
  served under the new rate's labels, against the comment in `bridge.py` at `_on_rate`.

Behaviour that a reader may not expect, met while modelling:

- *Node*: a signal during start-up, before `ctrlc::set_handler`, kills the process while arms that
  are already served may be in sessions, against `run`'s documentation; after the signal, arms that
  are not yet taken down can still be enabled. An empty node name fails only at the status
  publisher, after arms were attached. A peer with `listen = []` and scouting off is accepted though
  nobody can meet it. A configuration may seed an undamped pair, or springs above their bound. A session's id can repeat a recorded one within a second or after the
  clock stepped back (`record.rs:21-43`). `slewing` is about the newest accepted change only, and
  `base_version` matches across a reseed. State messages may be dropped by a congested transport
  (`transport.rs:118`).
- *Clients*: a lost reply to `enable` leaves an active session without a streamer until the watchdog
  ends it; the stop verb goes by a state that may be stale. `PySilence` gives no grace before the
  first cycle, nor when a process resumes just before the deadline. Teleoperation clamps a step
  after the lead, so that the result may exceed the leash; its bring-up judges the holder by a
  state from before the recovery. The other controller's port counts as seen once it spoke, even if
  it is silent later. A controller that wakes, releases and squeezes while its samples wait is read in
  one go, and proves a hand although the other grip was held (`VrHands`, `MaxDelay` of two).
- *Library*: the first position command of V10 is its own reference, thus unlimited; a pose that is
  no rotation passes with the filter on; after a skipped cycle limits may be exceeded; while an FR3's
  velocity limits move with its joint the limiter may break the acceleration or the jerk limit, since
  the room that the jerk leaves is computed from the limit as it was, and limits that fall may ask
  for more than the acceleration limit of joints 5 and 7 allows; a reply already
  received is lost to a connection error, and a malformed message is reported to whichever
  thread read it. A joint hold is not boxed. A stop that times out holds mid-motion and may jump,
  and lowering a velocity limit costs one cycle's acceleration. `target_control/impedance.rs:118` says that the leash
  bounds the spring; an arm that is pushed past a margin, or faster than the goal may follow, is
  farther from the goal than leash and step. A goal at rest at a wall keeps for one cycle the
  velocity of the step it made in full. `lenient` robots are treated as
  incompatible; `virtual_wall` reads its answer before its status.
- *Cameras*: a wake-up that finds no buffer to take (`CamCapture!WakesForNothing`) is counted as a
  timeout of the camera; a grant with a tight stride for NV12 is refused although its frames could
  be read.
- *Motion*: an error of `start_motion` that leaves the connection up (an unusable datagram, a reply that
  is none; `motion.rs:186-199`) frees the control lock without a cancel, also after the robot took the
  motion; so does an error of a cancel. A handle's finish that fails so gives the lock back and keeps the
  motion too. `NoOrphanMotion` excepts these and no others.
- *Programs*: a second `stop` of franka-py returns while the first still joins. A failed
  `docker run -d` may leave a container it created, and a probe may be answered by another binary's
  simulator.

## 7. Plan

Modelled first was what moves the arm (`ArmMachine`, `TargetControl` refining `TargetRegister`,
`FciMotion`, `GripperHand`), then what stands around it: the node's other threads, the cameras, the
clients, the data path of the library, configuration and harness. Proofs went the same way:
the arm thread and target control, then the node, the clients, the link, the cameras,
what stands alone, the motion with its program and its harness.

Next, in this order:

1. The stream's part of `RobotSafety`, the one safety property that is checked and not proved.
2. The state callback of the camera node with states on their way, as `PySession` has them.
