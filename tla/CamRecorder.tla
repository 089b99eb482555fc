---------------------------- MODULE CamRecorder ----------------------------
(***************************************************************************)
(* The episode recorder of franka-cam (record.rs, record/live.rs) for one  *)
(* arm: the callback of the arm's episode topic, the callback of its state *)
(* topic, the sinks in the capture threads, and the writer thread, which   *)
(* merges boundaries and frames every DRAIN_INTERVAL.                      *)
(*                                                                         *)
(* Stamps.  Boundaries and frames are only compared with each other, so a  *)
(* stamp is the number of boundaries the arm has published by then.  The   *)
(* state topic's times are only compared with two bounds, so they are      *)
(* ages; until one came from a session, `stateT' keeps the stamp of the    *)
(* last state as well.                                                     *)
(* The age of an episode starts when the writer opens its file             *)
(* (same_host allows a second more).                                       *)
(*                                                                         *)
(* External: the arm node, which publishes boundaries that may be lost and *)
(* a state every tick, and may be killed; the cameras' exposures.          *)
(***************************************************************************)
EXTENDS Integers, Sequences, FiniteSets, SequencesExt

CONSTANTS
    Cams,           \* cameras whose record_with names the arm
    QueueFrames,    \* QUEUE_FRAMES
    GoneAfter,      \* SESSION_GONE_NS, in units of age
    SilentAfter,    \* MAX_EXTRAPOLATION_NS
    MaxEpisodes,    \* bound: sessions of the arm
    MaxFrames,      \* bound: exposures
    Budgets,        \* bounds of one behaviour: its sessions and frames, whether time passes
    None            \* no boundary, frame or episode

ASSUME RecorderAssumption ==
    /\ QueueFrames \in Nat /\ MaxEpisodes \in Nat /\ MaxFrames \in Nat
    /\ SilentAfter \in Nat /\ GoneAfter \in Nat
    /\ Budgets \subseteq [episodes : 0..MaxEpisodes, frames : 0..MaxFrames, time : BOOLEAN]
    /\ None \notin [kind : {"start", "end"}, id : Nat, t : Nat]
    /\ None \notin [file : Nat, id : Nat, t : Nat, age : Nat]

VARIABLES
    budget,     \* which of the Budgets this behaviour has
    arm,        \* external: the arm node's session
    wire,       \* external: boundaries on their way
    callback,   \* the Start the episode callback has armed for and not pushed yet
    open,       \* the flag every sink reads
    events,     \* Shared::events
    clock,      \* Shared::clock, as ages
    exposed,    \* external: exposures so far
    sink,       \* per camera: its frame, and where its sink is with it
    queue,      \* the channel of frames
    writer,     \* the writer thread
    files,      \* history: what is in the files, in the order they were opened
    node,       \* the camera node: running, its cameras shut down, stop set, joined
    due         \* history: frames in the queue when the end of the open episode arrived

recorderVars == <<budget, arm, wire, callback, open, events, clock, exposed, sink, queue, writer, files, node, due>>

-----------------------------------------------------------------------------
Never == -1
Oldest == SilentAfter + 1
Ages == Never..Oldest
Stamps == 0..(2 * MaxEpisodes)

Start(id, t) == [kind |-> "start", id |-> id, t |-> t]
End(id, t)   == [kind |-> "end", id |-> id, t |-> t]
Boundaries   == [kind : {"start", "end"}, id : 1..MaxEpisodes, t : Stamps]
Shot(n, t)   == [n |-> n, t |-> t]
Shots        == [n : 1..MaxFrames, t : Stamps]

\* An open .rrd: which of the files it is, its id, its own stamp, and the age of that.
Episodes == [file : Nat \ {0}, id : 1..MaxEpisodes, t : Stamps, age : 0..Oldest]
Files    == [id : 1..MaxEpisodes, t : Stamps, shots : SUBSET (1..MaxFrames),
             closed : {"no", "end", "start", "watch"}]

RecorderTypeOK ==
    /\ budget \in Budgets
    /\ arm \in [phase : {"idle", "starting", "active", "stopping", "dead"},
                id : 0..MaxEpisodes, t : Stamps]
    /\ wire \in Seq(Boundaries) /\ events \in Seq(Boundaries)
    /\ callback \in Boundaries \cup {None}
    /\ open \in BOOLEAN
    /\ clock \in [state : Ages, running : Ages, stateT : Stamps, idle : BOOLEAN]
    /\ exposed \in 0..MaxFrames
    /\ sink \in [Cams -> [at : {"idle", "exposed", "copied", "gone"}, shot : Shots \cup {None}]]
    /\ queue \in Seq(Shots) /\ Len(queue) <= QueueFrames
    /\ writer \in [at : {"asleep", "woken", "applying", "creating", "done"},
                   stopping : BOOLEAN, gone : BOOLEAN, taken : Seq(Boundaries),
                   batch : SUBSET Shots, episode : Episodes \cup {None}]
    /\ files \in Seq(Files)
    /\ node \in {"running", "closing", "stopping", "down"}

RecorderInit ==
    /\ budget \in Budgets
    /\ arm = [phase |-> "idle", id |-> 0, t |-> 0]
    /\ wire = <<>> /\ callback = None /\ open = FALSE /\ events = <<>>
    /\ clock = [state |-> Never, running |-> Never, stateT |-> 0, idle |-> FALSE]
    /\ exposed = 0 /\ sink = [c \in Cams |-> [at |-> "idle", shot |-> None]] /\ queue = <<>>
    /\ writer = [at |-> "asleep", stopping |-> FALSE, gone |-> FALSE, taken |-> <<>>,
                 batch |-> {}, episode |-> None]
    /\ files = <<>> /\ node = "running" /\ due = {}

-----------------------------------------------------------------------------
(* The arm node: begin publishes the start before the phase is Active, stop_to publishes       *)
(* Stopping before the loop ends and the end goes out.  Its publishers drop rather than block. *)

Published(boundary) == wire' \in {wire, Append(wire, boundary)}

ArmStarts ==
    /\ arm.phase = "idle" /\ arm.id < budget.episodes
    /\ arm' = [phase |-> "starting", id |-> arm.id + 1, t |-> arm.t + 1]
    /\ Published(Start(arm.id + 1, arm.t + 1))
    /\ UNCHANGED <<budget, callback, open, events, clock, exposed, sink, queue, writer, files, node, due>>

ArmRuns ==
    /\ \/ arm.phase = "starting" /\ arm' = [arm EXCEPT !.phase = "active"]
       \/ arm.phase = "active" /\ arm' = [arm EXCEPT !.phase = "stopping"]
    /\ UNCHANGED <<budget, wire, callback, open, events, clock, exposed, sink, queue, writer, files, node, due>>

ArmEnds ==
    /\ arm.phase = "stopping"
    /\ arm' = [arm EXCEPT !.phase = "idle", !.t = @ + 1]
    /\ Published(End(arm.id, arm.t + 1))
    /\ UNCHANGED <<budget, callback, open, events, clock, exposed, sink, queue, writer, files, node, due>>

\* Killed in a session: no end, no further state.
ArmDies ==
    /\ arm.phase = "active"
    /\ arm' = [arm EXCEPT !.phase = "dead"]
    /\ UNCHANGED <<budget, wire, callback, open, events, clock, exposed, sink, queue, writer, files, node, due>>

-----------------------------------------------------------------------------
(* The callbacks.                                                          *)

\* A start arms the sinks at once and is pushed after that.
DeliverStart ==
    /\ callback = None /\ wire # <<>> /\ Head(wire).kind = "start"
    /\ wire' = Tail(wire) /\ callback' = Head(wire)
    /\ open' = TRUE
    /\ UNCHANGED <<budget, arm, events, clock, exposed, sink, queue, writer, files, node, due>>

PushStart ==
    /\ callback # None
    /\ events' = Append(events, callback) /\ callback' = None
    /\ UNCHANGED <<budget, arm, wire, open, clock, exposed, sink, queue, writer, files, node, due>>

\* The frames in the queue that are of the open episode e, which the end `event' closes.
OfEpisode(e, event) ==
    IF e = None \/ e.id # event.id THEN {}
    ELSE {[n |-> s.n, file |-> e.file] : s \in {x \in ToSet(queue) : x.t >= e.t /\ x.t < event.t}}

\* An end is pushed and does not disarm.
DeliverEnd ==
    /\ callback = None /\ wire # <<>> /\ Head(wire).kind = "end"
    /\ wire' = Tail(wire) /\ events' = Append(events, Head(wire))
    /\ due' = due \cup OfEpisode(writer.episode, Head(wire))
    /\ UNCHANGED <<budget, arm, callback, open, clock, exposed, sink, queue, writer, files, node>>

\* Clock::observe, the times of the last state and of the last one in a session.
Observed(inSession) ==
    [state |-> 0, idle |-> ~inSession,
     stateT |-> IF clock.running = Never THEN arm.t ELSE 0,
     running |-> IF inSession THEN 0 ELSE clock.running]

DeliverState ==
    /\ budget.time
    /\ arm.phase \notin {"starting", "dead"}
    /\ clock' = Observed(arm.phase = "active")
    /\ UNCHANGED <<budget, arm, wire, callback, open, events, exposed, sink, queue, writer, files, node, due>>

\* Time passes by a unit of age, which is seconds: a session is begun and Active in one handler
\* of the arm's thread, so no unit falls between the two.
Older(age) == IF age \in {Never, Oldest} THEN age ELSE age + 1
TimePasses ==
    /\ budget.time /\ arm.phase # "starting"
    /\ clock' = [clock EXCEPT !.state = Older(@), !.running = Older(@)]
    /\ writer' = IF writer.episode = None THEN writer
                 ELSE [writer EXCEPT !.episode.age = Older(@)]
    /\ <<clock, writer>>' # <<clock, writer>>
    /\ UNCHANGED <<budget, arm, wire, callback, open, events, exposed, sink, queue, files, node, due>>

-----------------------------------------------------------------------------
(* The sinks: the exposure, the sink's look at the flag, its try_send.     *)

Expose(c) ==
    /\ sink[c].at = "idle" /\ exposed < budget.frames
    /\ exposed' = exposed + 1
    /\ sink' = [sink EXCEPT ![c] = [at |-> "exposed", shot |-> Shot(exposed + 1, arm.t)]]
    /\ UNCHANGED <<budget, arm, wire, callback, open, events, clock, queue, writer, files, node, due>>

SinkLooks(c) ==
    /\ sink[c].at = "exposed"
    /\ sink' = [sink EXCEPT ![c] = IF open THEN [@ EXCEPT !.at = "copied"]
                                   ELSE [at |-> "idle", shot |-> None]]
    /\ UNCHANGED <<budget, arm, wire, callback, open, events, clock, exposed, queue, writer, files, node, due>>

\* A full queue, or a writer that is gone, drops the frame and counts it.
SinkSends(c) ==
    /\ sink[c].at = "copied"
    /\ queue' = IF Len(queue) < QueueFrames /\ writer.at # "done"
                THEN Append(queue, sink[c].shot) ELSE queue
    /\ sink' = [sink EXCEPT ![c] = [at |-> "idle", shot |-> None]]
    /\ UNCHANGED <<budget, arm, wire, callback, open, events, clock, exposed, writer, files, node, due>>

-----------------------------------------------------------------------------
(* The writer thread.  A tick is Wake, Drain, one ApplyEvent per event, EndTick; a   *)
(* start whose file is created takes two steps, because sinks and callback see  *)
(* the flag between the end of the old file and the new one.                                   *)

\* The stop flag is read before the drain.
Wake ==
    /\ writer.at = "asleep"
    /\ writer' = [writer EXCEPT !.at = "woken", !.stopping = (node = "stopping"), !.taken = events]
    /\ events' = <<>>
    /\ UNCHANGED <<budget, arm, wire, callback, open, clock, exposed, sink, queue, files, node, due>>

AllSinksGone == \A c \in Cams : sink[c].at = "gone"

\* The batch is sorted by capture time before it is applied, so what precedes a stamp is the
\* frames with a smaller one, and a set of frames says as much.
Drain ==
    /\ writer.at = "woken"
    /\ writer' = [writer EXCEPT !.at = "applying", !.batch = ToSet(queue), !.gone = AllSinksGone]
    /\ queue' = <<>>
    /\ UNCHANGED <<budget, arm, wire, callback, open, events, clock, exposed, sink, files, node, due>>

\* log: outside an episode, or from before its start, a frame is dropped.
Logged(episode, shots) ==
    IF episode = None THEN files
    ELSE [files EXCEPT ![episode.file].shots =
            @ \cup {s.n : s \in {x \in shots : x.t >= episode.t}}]

\* finish, on the files that `log' left: the sinks are disarmed before the flush.
Finish(logged, why) ==
    /\ files' = IF writer.episode = None THEN logged
                ELSE [logged EXCEPT ![writer.episode.file].closed = why]
    /\ open' = IF writer.episode = None THEN open ELSE FALSE

\* What of the batch belongs before the event.
Before(event) == {s \in writer.batch : s.t < event.t}
NotBefore(event) == {s \in writer.batch : s.t >= event.t}

\* A start of another host or with an unusable id: refused, and an open episode goes on.
RefuseStart ==
    LET event == Head(writer.taken) IN
    /\ writer.at = "applying" /\ writer.taken # <<>> /\ event.kind = "start"
    /\ files' = Logged(writer.episode, Before(event))
    /\ open' = IF writer.episode = None THEN FALSE ELSE open
    /\ writer' = [writer EXCEPT !.taken = Tail(@), !.batch = NotBefore(event)]
    /\ UNCHANGED <<budget, arm, wire, callback, events, clock, exposed, sink, queue, node, due>>

\* A good start ends the old episode first.
BeginFinishes ==
    LET event == Head(writer.taken) IN
    /\ writer.at = "applying" /\ writer.taken # <<>> /\ event.kind = "start"
    /\ Finish(Logged(writer.episode, Before(event)), "start")
    /\ writer' = [writer EXCEPT !.at = "creating", !.batch = NotBefore(event), !.episode = None]
    /\ UNCHANGED <<budget, arm, wire, callback, events, clock, exposed, sink, queue, node, due>>

\* Mutant: the sinks are not armed again after the old episode's end disarmed them.
BeginCreates_NotArmed ==
    LET event == Head(writer.taken) IN
    /\ writer.at = "creating"
    /\ files' = Append(files, [id |-> event.id, t |-> event.t, shots |-> {}, closed |-> "no"])
    /\ writer' = [writer EXCEPT !.at = "applying", !.taken = Tail(@),
                                !.episode = [file |-> Len(files) + 1, id |-> event.id,
                                             t |-> event.t, age |-> 0]]
    /\ UNCHANGED <<budget, arm, wire, callback, open, events, clock, exposed, sink, queue, node, due>>

BeginCreates ==
    LET event == Head(writer.taken) IN
    /\ writer.at = "creating"
    /\ files' = Append(files, [id |-> event.id, t |-> event.t, shots |-> {}, closed |-> "no"])
    /\ writer' = [writer EXCEPT !.at = "applying", !.taken = Tail(@),
                                !.episode = [file |-> Len(files) + 1, id |-> event.id,
                                             t |-> event.t, age |-> 0]]
    /\ open' = TRUE
    /\ UNCHANGED <<budget, arm, wire, callback, events, clock, exposed, sink, queue, node, due>>

\* The directory or the file cannot be created.
CreateFails ==
    /\ writer.at = "creating"
    /\ writer' = [writer EXCEPT !.at = "applying", !.taken = Tail(@)]
    /\ open' = FALSE
    /\ UNCHANGED <<budget, arm, wire, callback, events, clock, exposed, sink, queue, files, node, due>>

\* Mutant: the end is honoured before the frames that were captured before it.
ApplyEnd_FramesAfter ==
    LET event == Head(writer.taken) IN
    /\ writer.at = "applying" /\ writer.taken # <<>> /\ event.kind = "end"
    /\ IF writer.episode # None /\ writer.episode.id = event.id
       THEN /\ Finish(files, "end")
            /\ writer' = [writer EXCEPT !.taken = Tail(@), !.episode = None]
       ELSE /\ UNCHANGED <<files, open>>
            /\ writer' = [writer EXCEPT !.taken = Tail(@)]
    /\ UNCHANGED <<budget, arm, wire, callback, events, clock, exposed, sink, queue, node, due>>

\* The end of the open episode closes it; any other is a stray.
ApplyEnd ==
    LET event == Head(writer.taken)
        logged == Logged(writer.episode, Before(event)) IN
    /\ writer.at = "applying" /\ writer.taken # <<>> /\ event.kind = "end"
    /\ IF writer.episode # None /\ writer.episode.id = event.id
       THEN /\ Finish(logged, "end")
            /\ writer' = [writer EXCEPT !.taken = Tail(@), !.batch = NotBefore(event),
                                        !.episode = None]
       ELSE /\ files' = logged /\ open' = open
            /\ writer' = [writer EXCEPT !.taken = Tail(@), !.batch = NotBefore(event)]
    /\ UNCHANGED <<budget, arm, wire, callback, events, clock, exposed, sink, queue, node, due>>

\* Mutant: an arm that says nothing is waited for.
Silent_Never == FALSE

\* The arm's states stopped: the age of the last one, or of the episode without one.
Silent == (IF clock.state = Never THEN writer.episode.age ELSE clock.state) > SilentAfter

\* They came after the last one in a session, which is too long ago.
Over ==
    IF clock.running = Never
    THEN /\ clock.state # Never /\ clock.stateT >= writer.episode.t
         /\ writer.episode.age > GoneAfter
    ELSE clock.idle /\ clock.running > GoneAfter

\* Mutant: the stop flag is read after the drain.
EndTick_StopReadLate ==
    LET last == node = "stopping" \/ writer.gone
        logged == Logged(writer.episode, writer.batch)
        at == IF last THEN "done" ELSE "asleep" IN
    /\ writer.at = "applying" /\ writer.taken = <<>>
    /\ IF writer.episode # None /\ (Silent \/ Over \/ last)
       THEN /\ Finish(logged, "watch")
            /\ writer' = [writer EXCEPT !.at = at, !.batch = {}, !.episode = None]
       ELSE /\ writer' = [writer EXCEPT !.at = at, !.batch = {}]
            /\ files' = logged /\ open' = open
    /\ UNCHANGED <<budget, arm, wire, callback, events, clock, exposed, sink, queue, node, due>>

\* The rest of the batch, watch_the_arm, and the thread's end when it was told to stop or no
\* sink is left.
EndTick ==
    LET last == writer.stopping \/ writer.gone
        logged == Logged(writer.episode, writer.batch)
        at == IF last THEN "done" ELSE "asleep" IN
    /\ writer.at = "applying" /\ writer.taken = <<>>
    /\ IF writer.episode # None /\ (Silent \/ Over \/ last)
       THEN /\ Finish(logged, "watch")
            /\ writer' = [writer EXCEPT !.at = at, !.batch = {}, !.episode = None]
       ELSE /\ writer' = [writer EXCEPT !.at = at, !.batch = {}]
            /\ files' = logged /\ open' = open
    /\ UNCHANGED <<budget, arm, wire, callback, events, clock, exposed, sink, queue, node, due>>

-----------------------------------------------------------------------------
(* The node's end: the cameras are shut down first, then the recorder.     *)

\* The capture threads are ended one after another, and their sinks with them.
CameraEnds(c) ==
    /\ node = "closing" /\ sink[c].at \in {"idle", "exposed"}
    /\ c = CHOOSE x \in Cams : sink[x].at # "gone"
    /\ sink' = [sink EXCEPT ![c] = [at |-> "gone", shot |-> None]]
    /\ UNCHANGED <<budget, arm, wire, callback, open, events, clock, exposed, queue, writer, files, node, due>>

ShutDown ==
    /\ \/ node = "running" /\ node' = "closing"
       \/ node = "closing" /\ AllSinksGone /\ node' = "stopping"
       \/ node = "stopping" /\ writer.at = "done" /\ node' = "down"
    /\ UNCHANGED <<budget, arm, wire, callback, open, events, clock, exposed, sink, queue, writer, files, due>>

-----------------------------------------------------------------------------
ArmSteps == ArmStarts \/ ArmRuns \/ ArmEnds \/ ArmDies
Callbacks == DeliverStart \/ PushStart \/ DeliverEnd \/ DeliverState
SinkSteps == \E c \in Cams : Expose(c) \/ SinkLooks(c) \/ SinkSends(c) \/ CameraEnds(c)
Apply == RefuseStart \/ BeginFinishes \/ BeginCreates \/ CreateFails \/ ApplyEnd
WriterSteps == Wake \/ Drain \/ Apply \/ EndTick

RecorderNext == ArmSteps \/ Callbacks \/ TimePasses \/ SinkSteps \/ WriterSteps \/ ShutDown

\* The writer's thread runs, and time passes.  Nothing is owed by the arm or the network.
RecorderFairness == WF_recorderVars(WriterSteps) /\ WF_recorderVars(TimePasses)

RecorderSpec == RecorderInit /\ [][RecorderNext]_recorderVars
FairRecorderSpec == RecorderSpec /\ RecorderFairness

-----------------------------------------------------------------------------
(* Properties.                                                             *)

\* The flag that the callback sets and the writer clears: while a file is open the sinks are
\* armed, and they are armed for nothing only while a start is on its way to the writer.
SinksFollowEpisode ==
    /\ writer.episode # None => open
    /\ open => \/ writer.episode # None \/ callback # None
               \/ \E event \in ToSet(events) \cup ToSet(writer.taken) : event.kind = "start"

\* A frame that was in the queue when the end of its episode arrived is in the file that this
\* end closes, although boundaries and frames come by different threads.
LastFramesKept ==
    \A d \in due : files[d.file].closed = "end" => d.n \in files[d.file].shots

\* The writer leaves nothing behind when the node stops: cameras first, then the recorder.
StopsEmpty ==
    writer.at = "done" => queue = <<>> /\ \A i \in DOMAIN files : files[i].closed # "no"

\* A file whose end was lost, or whose arm was killed, is closed unless the arm runs again.
LostEndCloses ==
    (budget.time /\ writer.episode # None /\ arm.phase \notin {"starting", "active"})
        ~> (writer.episode = None \/ arm.phase \in {"starting", "active"})

\* The comments' claim (live.rs:457-460, record.rs:117): only states that stopped, or the reports
\* of an arm whose session is over, close a file before its end; never the idle states of
\* before the session it records.
RunningEpisodeGoesOn ==
    [][(EndTick /\ writer.episode # None /\ writer'.episode = None)
          => \/ Silent \/ writer.stopping \/ writer.gone
             \/ arm.id # writer.episode.id \/ arm.phase \notin {"starting", "active"}]_recorderVars

\* The comment's claim (live.rs:300): from the sample of a start on its frames are queued, also
\* before the writer's next tick.
FirstFramesQueued ==
    (\E event \in ToSet(events) \cup ToSet(writer.taken) : event.kind = "start") => open
=============================================================================
