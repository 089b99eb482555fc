---------------------------- MODULE ArmMachine ----------------------------
(***************************************************************************)
(* One arm of franka-node: the thread that owns the arm's state machine    *)
(* (crates/franka-node/src/arm), the channel that feeds it, and the        *)
(* control loop it starts and stops.                                       *)
(*                                                                         *)
(* The handlers of the code are methods of one struct that call each other *)
(* (lease_lost calls end_session, which calls finish_home, which calls     *)
(* stop_to ...).  So the struct is one record, `arm', and every handler is *)
(* an operator from that record to the set of records it may leave: the    *)
(* set has several members where the robot decides the outcome.            *)
(*                                                                         *)
(* What runs beside the arm thread is an action of its own: the senders of *)
(* the transport, the control loop ending, the gripper's homing thread,    *)
(* and time.  The Stopping phase of the code lives inside StopTo: the arm  *)
(* thread leaves it before it looks at its channel again.                  *)
(***************************************************************************)
EXTENDS Integers, Sequences, FiniteSets

CONSTANTS
    Clients,      \* client ids a lease can carry
    NoClient,     \* id 0: never a holder, but a request may carry it
    MaxSeq,       \* targets carry sequence numbers 1..MaxSeq
    Depth,        \* CHANNEL_DEPTH: targets in flight before new ones are dropped
    HoldAfter,    \* hold_after_ms, in units of the model's clock
    StopAfter,    \* stop_after_ms
    HomeSettle,   \* HOME_SETTLE_TICKS
    HomeTimeout,  \* HOME_TIMEOUT
    Alphabet,     \* the events the senders may queue: a subset of Event
    MaxQueue,     \* bound: events in the channel
    MaxOpen       \* bound: unanswered queries per caller

ASSUME ClientsAssumption == NoClient \notin Clients
ASSUME WatchdogAssumption ==
    HoldAfter \in Nat /\ StopAfter \in Nat /\ HoldAfter < StopAfter
ASSUME BoundsAssumption ==
    /\ MaxSeq \in Nat /\ Depth \in Nat /\ HomeSettle \in Nat /\ HomeTimeout \in Nat
    /\ MaxQueue \in Nat /\ MaxOpen \in Nat

-----------------------------------------------------------------------------
(* Events, and the arm's record. *)

Callers == Clients \cup {NoClient}
Kinds   == {"cartesian", "joints"}

\* "refused" stands for every refusal that is still a sign of life of the commander
\* (Reason::from_the_commander: content, step, lead, workspace, rate).
TargetEvent  == [type : {"target"}, client : Callers, seq : 1..MaxSeq,
                 kind : Kinds, content : {"good", "refused"}]
GripperEvent == [type : {"width", "grasp"}, client : Callers, seq : 1..MaxSeq]
\* The verbs answered from params_query are one verb here: they leave the arm's state alone.
Verbs        == {"acquire", "release", "enable", "stop", "recover", "home",
                 "gripper_home", "gripper_stop", "params"}
QueryEvent   == [type : {"cmd"}, verb : Verbs, client : Callers, mode : Kinds]
LeaseEvent   == [type : {"alive", "lost"}, client : Clients]
ShutdownEvent == [type |-> "shutdown"]
Event == TargetEvent \cup GripperEvent \cup QueryEvent \cup LeaseEvent

ASSUME AlphabetAssumption == Alphabet \subseteq Event

Phases    == {"idle", "acquired", "active", "homing", "faulted"}
Loops     == {"none", "running", "ended"}
Goals     == {"start", "ready", "commander", "here"}
NoGuard   == [kind |-> "none", holder |-> NoClient, seq |-> 0]
NoHoming  == [client |-> NoClient, within |-> 0, age |-> 0]
NoTarget  == [type |-> "none"]
Guards    == [kind : Kinds \cup {"none"}, holder : Callers, seq : 0..MaxSeq]
Homings   == [client : Callers, within : 0..HomeSettle, age : 0..HomeTimeout]

Arm == [ phase       : Phases,
         holder      : Callers,
         alive       : SUBSET Clients,
         loop        : Loops,               \* control: the handle, and whether its thread runs
         goal        : Goals,               \* where the loop was last told to go
         guard       : Guards,
         homing      : Homings,             \* the home query that waits for its answer
         recording   : {"closed", "open"},  \* the session's file
         episode     : Nat,                 \* `start' samples without their `end'
         targetAge   : 0..StopAfter,        \* since last_target
         acceptAge   : 0..StopAfter,        \* since last_accept
         holding     : BOOLEAN,
         open        : [Callers -> Int],    \* queries received and not yet answered
         gripLast    : [client : Callers, seq : 0..MaxSeq],
         hand        : {"none", "width", "grasp"},  \* the last order the gripper driver holds
         gripperHome : Callers ]            \* the query the gripper's home thread answers

VARIABLES
    arm,          \* the Machine struct
    queue,        \* the mpsc channel
    inflight,     \* Backlog.inflight
    pc,           \* where the arm thread is: its loop, a batch, the shutdown's drain
    newest,       \* batch: the newest target taken so far
    newestWidth,  \* batch: the newest gripper width taken so far
    outlived      \* history: a session ended after `newest' was taken

vars == <<arm, queue, inflight, pc, newest, newestWidth, outlived>>

-----------------------------------------------------------------------------
(* Answers, the end of a session, faults. *)

Reply(m, c) == [m EXCEPT !.open[c] = @ - 1]

InSession(m) == m.phase \in {"active", "homing"}

\* after_loop: the loop is joined; a home query still waiting is answered.
AfterLoop(m, phase) ==
    LET over == [m EXCEPT !.phase = phase, !.guard = NoGuard, !.holding = FALSE,
                          !.recording = "closed",
                          !.episode = IF @ > 0 THEN @ - 1 ELSE 0,
                          !.targetAge = 0, !.acceptAge = 0, !.homing = NoHoming]
    IN  IF m.homing.client = NoClient THEN over ELSE Reply(over, m.homing.client)

\* hold_in_place: set_target on a loop that already ended is a warning.
HoldInPlace(m) == IF m.loop = "running" THEN [m EXCEPT !.goal = "here"] ELSE m

\* stop_to, with both answers of control.stop().
StopTo(m, landing) ==
    IF m.loop = "none"
    THEN {m}
    ELSE {AfterLoop([m EXCEPT !.loop = "none"], phase) : phase \in {landing, "faulted"}}

Fault(m) == {AfterLoop([m EXCEPT !.loop = "none"], "faulted")}

\* Mutant: a joints session is stopped without being re-targeted.
Stop_NotInPlace(m) == StopTo(m, "idle")

Stop(m) == StopTo(IF m.guard.kind = "joints" THEN HoldInPlace(m) ELSE m, "idle")

\* Mutant: the query stays where after_loop finds it too.
FinishHome_QueryKept(m, arrived) ==
    {Reply(x, m.homing.client) : x \in StopTo(IF arrived THEN m ELSE HoldInPlace(m), "acquired")}

\* finish_home takes the query out before the stop and answers it after.
FinishHome(m, arrived) ==
    LET taken  == [m EXCEPT !.homing = NoHoming]
        halted == IF arrived THEN taken ELSE HoldInPlace(taken)
    IN  {IF m.homing.client = NoClient THEN x ELSE Reply(x, m.homing.client) :
            x \in StopTo(halted, "acquired")}

EndSession(m) ==
    CASE m.phase = "active" -> Stop(m)
      [] m.phase = "homing" -> FinishHome(m, FALSE)
      [] OTHER              -> {m}

-----------------------------------------------------------------------------
(* Leases and commands. *)

Holds(m, c) == c # NoClient /\ m.holder = c

\* The holder is gone: Acquired has nobody to belong to.
ClearHolder(m) == [m EXCEPT !.holder = NoClient,
                            !.phase = IF @ = "acquired" THEN "idle" ELSE @]

LeaseAlive(m, c) == {[m EXCEPT !.alive = @ \cup {c}]}

\* Mutant: the session of a lost lease is ended and its holder left.
LeaseLost_HolderKept(m, c) ==
    LET gone == [m EXCEPT !.alive = @ \ {c}]
    IN  IF c # m.holder THEN {gone} ELSE EndSession(gone)

LeaseLost(m, c) ==
    LET gone == [m EXCEPT !.alive = @ \ {c}]
    IN  IF c # m.holder THEN {gone} ELSE {ClearHolder(x) : x \in EndSession(gone)}

Acquire(m, c) ==
    IF /\ c \in m.alive
       /\ m.holder \in {NoClient, c}
       /\ m.phase \in {"idle", "acquired"}
    THEN {[m EXCEPT !.holder = c, !.phase = "acquired"]}
    ELSE {m}

\* Mutant: released in the middle of a session.
Release_InSession(m, c) == IF Holds(m, c) THEN {ClearHolder(m)} ELSE {m}

Release(m, c) ==
    IF Holds(m, c) /\ ~InSession(m) THEN {ClearHolder(m)} ELSE {m}

\* recording.begin may leave the session unrecorded.
OpenRecording(m) == {[m EXCEPT !.recording = r] : r \in {"open", "closed"}}

Discard(m) == [m EXCEPT !.recording = "closed"]

\* Mutant: the file of a session that did not start is left open.
NotStarted_FileKept(m) == {m} \cup OpenRecording(m)

\* What a session that does not start leaves: a failed read, or a failed start of the loop
\* or of the gate, after which the file is removed.
NotStarted(m) == {m} \cup {Discard(x) : x \in OpenRecording(m)}

\* begin, with the loop of start_session running.
Begin(m, c, kind, phase, goal) ==
    [m EXCEPT !.loop = "running", !.goal = goal, !.phase = phase,
              !.guard = [kind |-> kind, holder |-> c, seq |-> 0],
              !.episode = @ + 1,
              !.targetAge = 0, !.acceptAge = 0, !.holding = FALSE]

\* Mutant: enable in any phase.
Enable_AnyPhase(m, c, mode) ==
    IF Holds(m, c)
    THEN {Begin(x, c, mode, "active", "start") : x \in OpenRecording(m)} \cup NotStarted(m)
    ELSE {m}

Enable(m, c, mode) ==
    IF Holds(m, c) /\ m.phase \in {"idle", "acquired"}
    THEN {Begin(x, c, mode, "active", "start") : x \in OpenRecording(m)} \cup NotStarted(m)
    ELSE {m}

\* A home that starts keeps its query; every other outcome answers it.
Home(m, c) ==
    LET refused == {Reply(x, c) : x \in NotStarted(m)}
    IN  IF Holds(m, c) /\ m.phase = "acquired"
        THEN {[Begin(x, c, "joints", "homing", "ready") EXCEPT !.homing.client = c] :
                  x \in OpenRecording(m)} \cup refused
        ELSE {Reply(m, c)}

Recover(m) ==
    IF InSession(m) THEN {m} ELSE {m, [m EXCEPT !.phase = "idle"]}

\* Mutant: a second homing takes the place of the first.
GripperHome_Replaces(m, c) ==
    IF Holds(m, c) THEN [m EXCEPT !.gripperHome = c] ELSE Reply(m, c)

\* GripperSide::home: one at a time, answered by its own thread.
GripperHome(m, c) ==
    IF Holds(m, c) /\ m.gripperHome = NoClient
    THEN [m EXCEPT !.gripperHome = c]
    ELSE Reply(m, c)

Command(m, e) ==
    LET answered(S) == {Reply(x, e.client) : x \in S}
    IN  CASE e.verb = "acquire"      -> answered(Acquire(m, e.client))
          [] e.verb = "release"      -> answered(Release(m, e.client))
          [] e.verb = "enable"       -> answered(Enable(m, e.client, e.mode))
          [] e.verb = "stop"         -> answered(EndSession(m))
          [] e.verb = "recover"      -> answered(Recover(m))
          [] e.verb = "home"         -> Home(m, e.client)
          [] e.verb = "gripper_home" -> {GripperHome(m, e.client)}
          [] e.verb = "gripper_stop" -> answered({[m EXCEPT !.hand = "none"]})
          [] e.verb = "params"       -> answered({m})

-----------------------------------------------------------------------------
(* Targets, the watchdog and the state tick. *)

\* Guard::judge up to the content rules: kind, holder, sequence.
FromCommander(m, t) ==
    /\ t.kind = m.guard.kind
    /\ t.client # NoClient
    /\ t.client = m.guard.holder
    /\ t.seq > m.guard.seq

Target(m, t) ==
    IF m.phase # "active" \/ ~FromCommander(m, t) THEN {m}
    ELSE IF t.content = "refused" THEN {[m EXCEPT !.targetAge = 0]}
    ELSE LET accepted == [m EXCEPT !.guard.seq = t.seq]
         IN  IF m.loop = "running"
             THEN {[accepted EXCEPT !.goal = "commander", !.targetAge = 0,
                                    !.acceptAge = 0, !.holding = FALSE]}
             ELSE Fault(accepted)

\* GripperSide::target; the sequence is remembered for the last client only, across sessions.
GripperTarget(m, g) ==
    IF /\ Holds(m, g.client)
       /\ ~(m.gripLast.client = g.client /\ g.seq <= m.gripLast.seq)
    THEN [m EXCEPT !.hand = g.type, !.gripLast = [client |-> g.client, seq |-> g.seq]]
    ELSE m

StopDue(m) == m.targetAge >= StopAfter
HoldDue(m) == ~m.holding /\ m.acceptAge >= HoldAfter
WatchdogDue(m) == m.phase = "active" /\ (StopDue(m) \/ HoldDue(m))

\* Mutant: a session that holds is not stopped any more.
Watchdog_HoldsForEver(m) ==
    IF m.holding THEN {m}
    ELSE IF HoldDue(m) THEN {[m EXCEPT !.holding = TRUE]}
    ELSE {m}

Watchdog(m) ==
    IF StopDue(m) THEN Stop(m)
    ELSE IF HoldDue(m) THEN {[m EXCEPT !.holding = TRUE]}
    ELSE {m}

\* Mutant: no settling, only rest counts as arrival.
TickHoming_RestOnly(m, near, atRest) ==
    IF near /\ atRest THEN FinishHome(m, TRUE)
    ELSE IF m.homing.age >= HomeTimeout THEN FinishHome(m, FALSE)
    ELSE {[m EXCEPT !.homing.within = IF near THEN @ + 1 ELSE 0]}

\* Mutant: a home that does not arrive is waited for without end.
TickHoming_NoTimeout(m, near, atRest) ==
    LET within == IF near THEN m.homing.within + 1 ELSE 0
    IN  IF near /\ (atRest \/ within >= HomeSettle)
        THEN FinishHome(m, TRUE)
        ELSE {[m EXCEPT !.homing.within = within]}

\* tick_homing for one reading of the arm: near READY or not, at rest or not.
TickHoming(m, near, atRest) ==
    LET within == IF near THEN m.homing.within + 1 ELSE 0
    IN  IF near /\ (atRest \/ within >= HomeSettle)
        THEN FinishHome(m, TRUE)
        ELSE IF m.homing.age >= HomeTimeout THEN FinishHome(m, FALSE)
        ELSE {[m EXCEPT !.homing.within = within]}

\* Mutant: the tick does not look whether the loop still runs.
TickOf_LoopUnchecked(m) ==
    IF ~InSession(m) THEN {m}
    ELSE IF m.phase = "active" THEN Watchdog(m)
    ELSE UNION {TickHoming(m, near, atRest) : near, atRest \in BOOLEAN}

TickOf(m) ==
    IF ~InSession(m) THEN {m}
    ELSE IF m.loop # "running" THEN Fault(m)
    ELSE IF m.phase = "active" THEN Watchdog(m)
    ELSE UNION {TickHoming(m, near, atRest) : near, atRest \in BOOLEAN}

-----------------------------------------------------------------------------
(* The arm thread: its loop, a batch, the drain after a shutdown. *)

IsTarget(e) == e.type = "target"
IsQuery(e)  == e.type = "cmd"

Init ==
    /\ arm = [ phase |-> "idle", holder |-> NoClient, alive |-> {}, loop |-> "none",
               goal |-> "start", guard |-> NoGuard, homing |-> NoHoming,
               recording |-> "closed", episode |-> 0, targetAge |-> 0, acceptAge |-> 0,
               holding |-> FALSE, open |-> [c \in Callers |-> 0],
               gripLast |-> [client |-> NoClient, seq |-> 0],
               hand |-> "none", gripperHome |-> NoClient ]
    /\ queue = <<>>
    /\ inflight = 0
    /\ pc = "loop"
    /\ newest = NoTarget
    /\ newestWidth = NoTarget
    /\ outlived = FALSE

\* A state tick is due.
Tick ==
    /\ pc = "loop"
    /\ arm' \in TickOf(arm)
    /\ UNCHANGED <<queue, inflight, pc, newest, newestWidth, outlived>>

WatchdogFires ==
    /\ pc = "loop"
    /\ WatchdogDue(arm)
    /\ arm' \in Watchdog(arm)
    /\ UNCHANGED <<queue, inflight, pc, newest, newestWidth, outlived>>

\* The next event of a batch; the first one only when no deadline has passed.
Take ==
    /\ queue # <<>>
    /\ pc = "batch" \/ (pc = "loop" /\ ~WatchdogDue(arm))
    /\ queue' = Tail(queue)

TakeTarget ==
    /\ Take
    /\ IsTarget(Head(queue))
    /\ pc' = "batch"
    /\ newest' = Head(queue)
    /\ inflight' = inflight - 1
    /\ outlived' = FALSE
    /\ UNCHANGED <<arm, newestWidth>>

TakeWidth ==
    /\ Take
    /\ Head(queue).type = "width"
    /\ pc' = "batch"
    /\ newestWidth' = Head(queue)
    /\ UNCHANGED <<arm, inflight, newest, outlived>>

\* A grasp flushes the width before it.
TakeGrasp ==
    /\ Take
    /\ Head(queue).type = "grasp"
    /\ pc' = "batch"
    /\ LET flushed == IF newestWidth = NoTarget THEN arm ELSE GripperTarget(arm, newestWidth)
       IN  arm' = GripperTarget(flushed, Head(queue))
    /\ newestWidth' = NoTarget
    /\ UNCHANGED <<inflight, newest, outlived>>

TakeQuery ==
    /\ Take
    /\ IsQuery(Head(queue))
    /\ pc' = "batch"
    /\ arm' \in Command(arm, Head(queue))
    /\ outlived' = (outlived \/ (newest # NoTarget /\ InSession(arm) /\ ~InSession(arm')))
    /\ UNCHANGED <<inflight, newest, newestWidth>>

TakeLease ==
    /\ Take
    /\ Head(queue).type \in {"alive", "lost"}
    /\ pc' = "batch"
    /\ \/ Head(queue).type = "alive" /\ arm' \in LeaseAlive(arm, Head(queue).client)
       \/ Head(queue).type = "lost"  /\ arm' \in LeaseLost(arm, Head(queue).client)
    /\ outlived' = (outlived \/ (newest # NoTarget /\ InSession(arm) /\ ~InSession(arm')))
    /\ UNCHANGED <<inflight, newest, newestWidth>>

\* The shutdown leaves the batch where it is: what it had taken is dropped.
TakeShutdown ==
    /\ Take
    /\ Head(queue) = ShutdownEvent
    /\ pc' = "drain"
    /\ arm' \in EndSession(arm)
    /\ newest' = NoTarget
    /\ newestWidth' = NoTarget
    /\ outlived' = FALSE
    /\ UNCHANGED inflight

\* The channel is empty: the newest width, then the newest target.
EndBatch ==
    /\ pc = "batch"
    /\ queue = <<>>
    /\ LET moved == IF newestWidth = NoTarget THEN arm ELSE GripperTarget(arm, newestWidth)
       IN  arm' \in (IF newest = NoTarget THEN {moved} ELSE Target(moved, newest))
    /\ pc' = "loop"
    /\ newest' = NoTarget
    /\ newestWidth' = NoTarget
    /\ outlived' = FALSE
    /\ UNCHANGED <<queue, inflight>>

\* Mutant: the drain does not release the targets it drops.
Drain_NoRelease ==
    /\ pc = "drain"
    /\ queue # <<>>
    /\ queue' = Tail(queue)
    /\ arm' = IF IsQuery(Head(queue)) THEN Reply(arm, Head(queue).client) ELSE arm
    /\ UNCHANGED <<inflight, pc, newest, newestWidth, outlived>>

Drain ==
    /\ pc = "drain"
    /\ queue # <<>>
    /\ queue' = Tail(queue)
    /\ inflight' = IF IsTarget(Head(queue)) THEN inflight - 1 ELSE inflight
    /\ arm' = IF IsQuery(Head(queue)) THEN Reply(arm, Head(queue).client) ELSE arm
    /\ UNCHANGED <<pc, newest, newestWidth, outlived>>

\* The drain's last look at the channel, the last state and the drop of the channel are one step
\* here: what is sent in between is dropped unanswered (machine.rs:179-187, where NodeLife has it).
Finish ==
    /\ pc = "drain"
    /\ queue = <<>>
    /\ pc' = "finished"
    /\ UNCHANGED <<arm, queue, inflight, newest, newestWidth, outlived>>

ArmThread ==
    \/ Tick \/ WatchdogFires \/ TakeTarget \/ TakeWidth \/ TakeGrasp \/ TakeQuery
    \/ TakeLease \/ TakeShutdown \/ EndBatch \/ Drain \/ Finish

-----------------------------------------------------------------------------
(* What runs beside the arm thread. *)

\* The transport undeclares its callbacks before it sends the shutdown: no new one starts, but
\* one that is under way may still send until the thread is finished.
ShuttingDown ==
    pc \in {"drain", "finished"} \/ \E i \in DOMAIN queue : queue[i] = ShutdownEvent

\* Backlog::reserve: a target beyond Depth is dropped, nothing else ever is.
Reserved(e) == ~IsTarget(e) \/ inflight < Depth

Send(e) ==
    /\ pc # "finished"
    /\ Len(queue) < MaxQueue
    /\ Reserved(e)
    /\ IsQuery(e) => arm.open[e.client] < MaxOpen
    /\ queue' = Append(queue, e)
    /\ inflight' = IF IsTarget(e) THEN inflight + 1 ELSE inflight
    /\ arm' = IF IsQuery(e) THEN [arm EXCEPT !.open[e.client] = @ + 1] ELSE arm
    /\ UNCHANGED <<pc, newest, newestWidth, outlived>>

Shutdown ==
    /\ ~ShuttingDown
    /\ queue' = Append(queue, ShutdownEvent)
    /\ UNCHANGED <<arm, inflight, pc, newest, newestWidth, outlived>>

\* The loop's thread returns on its own: a reflex, a deviation, a lost connection.
LoopEnds ==
    /\ arm.loop = "running"
    /\ arm' = [arm EXCEPT !.loop = "ended"]
    /\ UNCHANGED <<queue, inflight, pc, newest, newestWidth, outlived>>

GripperHomed ==
    /\ arm.gripperHome # NoClient
    /\ arm' = [Reply(arm, arm.gripperHome) EXCEPT !.gripperHome = NoClient]
    /\ UNCHANGED <<queue, inflight, pc, newest, newestWidth, outlived>>

\* The clock matters while a session runs (AfterLoop puts the ages back to 0: begin does so
\* before they are read again); ages saturate where nothing tells them apart.
TimePasses ==
    /\ InSession(arm)
    /\ LET older(age, cap) == IF age < cap THEN age + 1 ELSE cap
       IN  arm' = IF arm.phase = "active"
                  THEN [arm EXCEPT !.targetAge = older(@, StopAfter),
                                   !.acceptAge = older(@, StopAfter)]
                  ELSE [arm EXCEPT !.homing.age = older(@, HomeTimeout)]
    /\ UNCHANGED <<queue, inflight, pc, newest, newestWidth, outlived>>

Environment ==
    \/ \E e \in Alphabet : Send(e)
    \/ Shutdown \/ LoopEnds \/ GripperHomed \/ TimePasses

Next == ArmThread \/ Environment

Spec == Init /\ [][Next]_vars

-----------------------------------------------------------------------------
(* Fairness.  The loop looks at its tick and at the watchdog's deadline before every event, so
   both happen however often events arrive; a batch goes on while there are events. *)

Batch == TakeTarget \/ TakeWidth \/ TakeGrasp \/ TakeQuery \/ TakeLease \/ TakeShutdown
         \/ EndBatch

FairSpec ==
    /\ Spec
    /\ SF_vars(Tick) /\ SF_vars(WatchdogFires)
    /\ WF_vars(Batch) /\ WF_vars(Drain \/ Finish)
    /\ WF_vars(GripperHomed) /\ WF_vars(TimePasses)

-----------------------------------------------------------------------------
(* Properties. *)

(* Every variable has its type; the ages and counters stay in their bounds. *)
TypeOK ==
    /\ arm \in Arm
    /\ queue \in Seq(Event \cup {ShutdownEvent})
    /\ inflight \in Int
    /\ pc \in {"loop", "batch", "drain", "finished"}
    /\ newest \in TargetEvent \cup {NoTarget}
    /\ newestWidth \in GripperEvent \cup {NoTarget}
    /\ outlived \in BOOLEAN

(* Whoever holds the arm has a live lease: a lost lease leaves no holder behind, whatever
   phase it is lost in and however its session's stop ends (lease_lost, acquire). *)
HolderHasLease == arm.holder # NoClient => arm.holder \in arm.alive

(* A control loop, a gate and a holder come and go together: a loop is never left without
   somebody who commands it, and its gate takes targets from the holder alone (begin,
   after_loop, release and lease_lost touch the three in different places). *)
SessionHasOwner ==
    /\ InSession(arm) <=> arm.loop # "none"
    /\ InSession(arm) <=> arm.guard # NoGuard
    /\ InSession(arm) => arm.holder # NoClient /\ arm.guard.holder = arm.holder
    /\ arm.phase = "acquired" => arm.holder # NoClient

(* Every `start' sample gets one `end', no recording outlives its session and none is opened
   over another (begin_episode, end_episode, recording.begin, finish and discard). *)
SessionIsBracketed ==
    /\ arm.episode = (IF InSession(arm) THEN 1 ELSE 0)
    /\ arm.recording = "open" => InSession(arm)

(* A session belongs to one client with a live lease, from the sample that opens it to the one
   that closes it. *)
SessionsAreOwned == HolderHasLease /\ SessionHasOwner /\ SessionIsBracketed

(* Every query has exactly one place it will be answered from: the channel, the home in
   progress, the gripper's home thread.  None is answered twice, none forgotten. *)
Queued(c) == Cardinality({i \in DOMAIN queue : IsQuery(queue[i]) /\ queue[i].client = c})
QueriesAnsweredOnce ==
    \A c \in Callers :
        arm.open[c] = Queued(c) + (IF c # NoClient /\ arm.homing.client = c THEN 1 ELSE 0)
                                + (IF c # NoClient /\ arm.gripperHome = c THEN 1 ELSE 0)

(* The backlog's counter is the number of targets in the channel, so a full channel always
   empties again (reserve in the sender, release in batch and in the shutdown's drain). *)
BacklogIsExact == inflight = Cardinality({i \in DOMAIN queue : IsTarget(queue[i])})

(* Nothing that was sent is lost or counted twice: queries and targets alike. *)
NothingIsLost == QueriesAnsweredOnce /\ BacklogIsExact

(* A joints loop that runs is re-targeted to where the arm is before a command, a lost lease,
   a shutdown or the watchdog stops it: it never decelerates on towards READY or a far target.
   Only the tick that finds a home arrived stops the loop where it was going. *)
HomeTick == arm.phase = "homing" /\ pc = "loop"
StopsInPlace ==
    [][ (arm.loop = "running" /\ arm'.loop = "none" /\ arm.guard.kind = "joints" /\ ~HomeTick)
            => arm'.goal = "here" ]_vars

(* While a session goes on, its owner is the same client and its gate only moves forward. *)
SessionIsNotTakenOver ==
    [][ (InSession(arm) /\ InSession(arm')) =>
            /\ arm'.holder = arm.holder
            /\ arm'.guard.kind = arm.guard.kind
            /\ arm'.guard.seq >= arm.guard.seq ]_vars

(* What a step of a session may never do. *)
SessionSteps == StopsInPlace /\ SessionIsNotTakenOver

(* A stop or a lost lease always wins over the targets that were queued before it
   (machine.rs, the comment on batch): such a target is not accepted any more. *)
StopAlwaysWins ==
    [][ (outlived /\ pc = "batch" /\ pc' = "loop") => arm'.guard = arm.guard ]_vars

(* The channel is drained again and again: the senders do not outrun the arm thread. *)
Drained == []<>(queue = <<>> /\ pc \in {"loop", "finished"})

(* A session whose commander has gone silent does not stay active. *)
SilentSessionEnds == Drained => []<>(arm.phase # "active" \/ arm.targetAge = 0)

(* A control loop that ended on its own is noticed: no session goes on over a dead loop. *)
DeadLoopIsNoticed == Drained => []<>(arm.loop # "ended")

(* No session outlives its commander or its loop. *)
SessionsEnd == SilentSessionEnds /\ DeadLoopIsNoticed

(* Every query is answered, also the home's that waits for an arrival that may never come and
   those in the channel when the node shuts down. *)
EveryQueryAnswered == Drained => \A c \in Callers : []<>(arm.open[c] = 0)

=============================================================================
