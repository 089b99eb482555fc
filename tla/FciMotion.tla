----------------------------- MODULE FciMotion -----------------------------
(***************************************************************************)
(* The motion protocol of the FCI client (franka-rs, robot_impl/motion.rs, *)
(* robot/commands.rs, control_loop/runner.rs, active_control.rs) over its  *)
(* two channels: commands and replies on TCP, demultiplexed by command id  *)
(* (network/tcp.rs), and robot states on UDP, kept in one shared record of *)
(* the newest accepted state.                                              *)
(*                                                                         *)
(* Users run control processes, either a `Robot::control_*' loop or an     *)
(* ActiveControl handle; callers are other threads in Robot::stop or       *)
(* Robot::automatic_error_recovery.  A motion's mode is its kind: "motion" *)
(* has a motion generator and a built-in controller, "torque" an external  *)
(* controller only, "idle" neither.  The robot is external.                *)
(*                                                                         *)
(* States are numbered by the changes of their content; a newer state with *)
(* the same content has the same number, so accepting number n again is    *)
(* accepting a newer message_id.  Any state not older than what the        *)
(* receiver started from may be the newest it finds: datagrams are lost,   *)
(* late, out of order or repeated.  One assumption bounds how late: what   *)
(* the robot showed before a Move does not arrive after it took that Move. *)
(* Without it start_motion takes a late state of the previous motion for   *)
(* its own, which the code cannot tell apart.                              *)
(***************************************************************************)
EXTENDS Naturals, Sequences, FiniteSets

CONSTANTS
    Users,      \* threads that run control processes
    Apis,       \* what they run them with: a Robot::control_* loop, a handle
    NoUser,
    Callers,    \* threads in stop and automatic_error_recovery
    Kinds,      \* the kinds of motion asked for
    MaxMoves,   \* bound: Move requests
    MaxCalls,   \* bound: stop and recovery requests
    MaxTroubles \* bound: reflexes of the robot, and errors that leave the connection up

ASSUME UsersAssumption == NoUser \notin Users
ASSUME ApisAssumption == Apis \subseteq {"loop", "handle"}
ASSUME KindsAssumption == Kinds \subseteq {"motion", "torque"}
ASSUME BoundsAssumption == MaxMoves \in Nat /\ MaxCalls \in Nat /\ MaxTroubles \in Nat

VARIABLES
    lock,       \* the control lock
    seen,       \* the newest accepted state
    wanted,     \* current_move_*: the mode the running Move asked for
    user,       \* each user's control process
    caller,     \* each caller's request, 0 without one
    next,       \* next_command_id
    moves, calls, troubles,     \* counters of the bounds
    up,         \* the connection
    requests, replies,          \* TCP, in order
    received,   \* Demux.received
    robot,      \* external: the robot
    states,     \* external: the states it published
    outcome,    \* history: how the robot ended each motion
    abandoned   \* history: the motions a call gave up on, with an error and without a cancel

client == <<lock, seen, wanted, user, caller>>
bounds == <<moves, calls, troubles>>
tcp == <<next, requests, replies, received>>
world == <<robot, states, outcome, abandoned>>
vars == <<client, bounds, up, tcp, world>>

-----------------------------------------------------------------------------
NoId == 0
Ids == 1..(2 * MaxMoves + MaxCalls)
Ends == {"success", "preempted", "reflex", "rejected"}
Statuses == Ends \cup {"started"}
RobotModes == {"idle", "move", "reflex"}

GeneratorRunning(kind) == kind = "motion"
ControllerRunning(kind) == kind = "torque"
Running(kind) == GeneratorRunning(kind) \/ ControllerRunning(kind)

Now == states[seen]
MoveActive == Now.kind = wanted

\* Where a user is: blocked in a receive of TCP or UDP, or between two calls.
AwaitsReply == {"starting", "aborted", "claiming", "stopping"}
AwaitsState == {"entering", "reading", "ending", "draining"}
Between == {"out", "polling", "started", "running", "finishing", "failed", "released", "cancelling", "drained"}
Places == AwaitsReply \cup AwaitsState \cup Between

NoProcess == [at |-> "out", api |-> "none", id |-> NoId, kind |-> "idle", from |-> 1, stop |-> NoId, result |-> "none"]
Processes == [at: Places, api: {"none"} \cup Apis, id: {NoId} \cup Ids, kind: {"idle"} \cup Kinds, from: Nat \ {0},
              stop: {NoId} \cup Ids, result: {"none", "ok", "error"}]

Idle == [mode |-> "idle", kind |-> "idle"]
RobotStates == [mode: RobotModes, kind: {"idle"} \cup Kinds]

Init ==
    /\ lock = NoUser /\ seen = 1 /\ wanted = "idle"
    /\ user = [u \in Users |-> NoProcess]
    /\ caller = [c \in Callers |-> NoId]
    /\ next = 1 /\ moves = 0 /\ calls = 0 /\ troubles = 0
    /\ up = TRUE
    /\ requests = <<>> /\ replies = <<>> /\ received = {}
    /\ robot = [move |-> NoId, mode |-> "idle", kind |-> "idle", finish |-> FALSE, owed |-> {},
                since |-> 1]
    /\ states = <<Idle>>
    /\ outcome = [i \in Ids |-> "none"]
    /\ abandoned = {}

-----------------------------------------------------------------------------
(* TCP: requests go out with the next id; a reader moves one message at a time into `received',
   where a later reply with the same id takes the place of an earlier one. *)

Request(what, kind) ==
    /\ requests' = Append(requests, [what |-> what, id |-> next, kind |-> kind])
    /\ next' = next + 1

Put(message) == {m \in received : m.id # message.id} \cup {message}

Inbox == IF replies = <<>> THEN received ELSE Put(Head(replies))

ReplyTo(id, status) == [id |-> id, status |-> status] \in Inbox

Unread == replies' = IF replies = <<>> THEN replies ELSE Tail(replies)

\* Mutant: a claim empties the mailbox.
Claim_DropsOthers(id) == received' = {} /\ Unread

Claim(id) == received' = {m \in Inbox : m.id # id} /\ Unread

Answered(id) == \E s \in Statuses : ReplyTo(id, s)

\* A pass of blocking_receive_response that finds a message of someone else.
ReadsOn(id) ==
    /\ up
    /\ replies # <<>> /\ ~Answered(id)
    /\ received' = Inbox /\ Unread
    /\ UNCHANGED <<client, bounds, up, next, requests, world>>

-----------------------------------------------------------------------------
(* The user's control process. *)

At(u, place) == user[u].at = place
Loop(u) == user[u].api = "loop"
Handle(u) == user[u].api = "handle"
InMotion(u) == user[u].at \in {"started", "running"}
Goes(u, place) == user' = [user EXCEPT ![u].at = place]
Receives(u, place) == user' = [user EXCEPT ![u].at = place, ![u].from = seen]

\* The call is over; a guard of the control lock that is still there goes with it.
Returns(u, result) ==
    /\ user' = [user EXCEPT ![u].at = "out", ![u].result = result]
    /\ lock' = IF lock = u THEN NoUser ELSE lock

\* An error in the loop cancels the motion; a handle goes back to its caller with the error.
Fails(u) == Goes(u, IF Loop(u) THEN "cancelling" ELSE "failed")

\* start_motion up to the request.
Start(u) ==
    /\ At(u, "out") /\ lock = NoUser
    /\ ~Running(Now.kind)
    /\ moves < MaxMoves /\ up
    /\ moves' = moves + 1
    /\ \E kind \in Kinds, api \in Apis :
           /\ wanted' = kind
           /\ user' = [user EXCEPT ![u] = [NoProcess EXCEPT !.at = "starting", !.api = api,
                                                            !.kind = kind, !.id = next]]
           /\ Request("move", kind)
    /\ lock' = u
    /\ UNCHANGED <<seen, caller, calls, troubles, up, replies, received, world>>

\* "Attempted to start multiple motions!"
StartRefused(u) ==
    /\ At(u, "out") /\ lock = NoUser
    /\ Running(Now.kind)
    /\ user' = [user EXCEPT ![u] = [NoProcess EXCEPT !.result = "error"]]
    /\ UNCHANGED <<lock, seen, wanted, caller, bounds, up, tcp, world>>

\* handle_move_response accepts a start while no generator runs, and a success at any time.
MoveAccepted(status) == status = "success" \/ (status = "started" /\ ~GeneratorRunning(Now.kind))

StartReplied(u) ==
    /\ At(u, "starting") /\ up
    /\ \E status \in Statuses :
           /\ ReplyTo(user[u].id, status)
           /\ IF MoveAccepted(status) THEN Goes(u, "polling") /\ UNCHANGED lock
                                      ELSE Returns(u, "error")
    /\ Claim(user[u].id)
    /\ UNCHANGED <<seen, wanted, caller, bounds, up, next, requests, world>>

\* The loop of start_motion: done once the state shows the mode, ...
StartDone(u) ==
    /\ At(u, "polling")
    /\ MoveActive
    /\ Goes(u, "started")
    /\ UNCHANGED <<lock, seen, wanted, caller, bounds, up, tcp, world>>

\* ... or once the reply is there already, ...
PollReply(u) ==
    /\ At(u, "polling") /\ up
    /\ ~MoveActive
    /\ \E status \in Statuses :
           /\ ReplyTo(user[u].id, status)
           /\ IF MoveAccepted(status) THEN Goes(u, "started") /\ UNCHANGED lock
                                      ELSE Returns(u, "error")
    /\ Claim(user[u].id)
    /\ UNCHANGED <<seen, wanted, caller, bounds, up, next, requests, world>>

\* ... which try_receive may miss, its lock being held; then a state is waited for.
PollState(u) ==
    /\ At(u, "polling") /\ up
    /\ ~MoveActive
    /\ Receives(u, "entering")
    /\ \/ UNCHANGED <<replies, received>>
       \/ ~Answered(user[u].id) /\ received' = Inbox /\ Unread
    /\ UNCHANGED <<lock, seen, wanted, caller, bounds, up, next, requests, world>>

\* One cycle: but for the first, a loop's command goes out, unless it does not fit the mode
\* that was asked for. A handle's caller may read on after an error, as after a success.
Cycle(u) ==
    /\ InMotion(u) \/ (Handle(u) /\ user[u].at \in {"failed", "released"})
    /\ up
    /\ IF Loop(u) /\ At(u, "running") /\ wanted # user[u].kind
       THEN Fails(u) ELSE Receives(u, "reading")
    /\ UNCHANGED <<lock, seen, wanted, caller, bounds, up, tcp, world>>

\* A callback may panic or return a value that is refused.
CallbackFails(u) ==
    /\ At(u, "running") /\ Loop(u)
    /\ Fails(u)
    /\ UNCHANGED <<lock, seen, wanted, caller, bounds, up, tcp, world>>

\* Mutant: the newest datagram is taken whatever its message_id is.
Newest_AnyId(u, n) == n \in robot.since..Len(states)

\* receive_robot_state: what it finds is not older than what it started from.
Newest(u, n) == n \in user[u].from..Len(states) /\ n >= robot.since

\* Mutant: only a reflex ends a motion, not a stop.
Received_ReflexOnly(u) ==
    /\ user[u].at \in AwaitsState /\ up
    /\ \E n \in 1..Len(states) :
           /\ Newest(u, n)
           /\ seen' = n
           /\ LET aborted == states[n].mode = "reflex"
              IN  user' = [user EXCEPT
                      ![u].from = n,
                      ![u].at = CASE @ = "entering" -> "polling"
                                  [] @ = "reading"  -> IF aborted THEN "aborted" ELSE "running"
                                  [] @ = "ending"   -> "finishing"
                                  [] @ = "draining" -> IF Running(states[n].kind) THEN @ ELSE "drained"]
    /\ UNCHANGED <<lock, wanted, caller, bounds, up, tcp, world>>

\* The state is accepted; throw_on_motion_error looks at it and at the mode asked for.
Received(u) ==
    /\ user[u].at \in AwaitsState /\ up
    /\ \E n \in 1..Len(states) :
           /\ Newest(u, n)
           /\ seen' = n
           /\ LET aborted == states[n].mode # "move" \/ states[n].kind # wanted
              IN  user' = [user EXCEPT
                      ![u].from = n,
                      ![u].at = CASE @ = "entering" -> "polling"
                                  [] @ = "reading"  -> IF aborted THEN "aborted" ELSE "running"
                                  [] @ = "ending"   -> "finishing"
                                  [] @ = "draining" -> IF Running(states[n].kind) THEN @ ELSE "drained"]
    /\ UNCHANGED <<lock, wanted, caller, bounds, up, tcp, world>>

\* The terminal reply of a motion that ended by itself: always an error.
AbortReplied(u) ==
    /\ At(u, "aborted") /\ up
    /\ Answered(user[u].id)
    /\ Fails(u)
    /\ Claim(user[u].id)
    /\ UNCHANGED <<lock, seen, wanted, caller, bounds, up, next, requests, world>>

-----------------------------------------------------------------------------
(* finish_motion. *)

\* Mutant: the reply is not waited for once the state shows the end.
Finishing_NoClaim(u) ==
    /\ At(u, "finishing") /\ up
    /\ IF Running(Now.kind)
       THEN IF wanted # user[u].kind
            THEN Fails(u) /\ UNCHANGED <<lock, wanted, robot>>
            ELSE /\ Receives(u, "ending")
                 /\ robot' = [robot EXCEPT !.finish = robot.move # NoId]
                 /\ UNCHANGED <<lock, wanted>>
       ELSE /\ Returns(u, "ok")
            /\ wanted' = "idle"
            /\ UNCHANGED robot
    /\ UNCHANGED <<seen, caller, bounds, up, tcp, states, outcome, abandoned>>

\* Nothing runs as far as the states say: the motion counts as finished.
Finish(u) ==
    /\ At(u, "running") \/ (Handle(u) /\ user[u].at \in {"started", "failed", "released"})
    /\ IF Running(Now.kind)
       THEN Goes(u, "finishing") /\ UNCHANGED <<lock, wanted>>
       ELSE Returns(u, "ok") /\ wanted' = "idle"
    /\ UNCHANGED <<seen, caller, bounds, up, tcp, world>>

\* A handle whose finish failed keeps its motion for Drop to cancel, but not the control lock.
FinishFails(u) ==
    IF Loop(u)
    THEN Goes(u, "cancelling") /\ UNCHANGED lock
    ELSE Goes(u, "released") /\ lock' = IF lock = u THEN NoUser ELSE lock

\* The last command goes out again, flagged, until the states show the end.
Finishing(u) ==
    /\ At(u, "finishing") /\ up
    /\ IF Running(Now.kind)
       THEN IF wanted # user[u].kind
            THEN FinishFails(u) /\ UNCHANGED robot
            ELSE /\ Receives(u, "ending")
                 /\ robot' = [robot EXCEPT !.finish = robot.move # NoId]
                 /\ UNCHANGED lock
       ELSE Goes(u, "claiming") /\ UNCHANGED <<lock, robot>>
    /\ UNCHANGED <<seen, wanted, caller, bounds, up, tcp, states, outcome, abandoned>>

FinishReplied(u) ==
    /\ At(u, "claiming") /\ up
    /\ \E status \in Statuses :
           /\ ReplyTo(user[u].id, status)
           /\ IF status = "success" THEN Returns(u, "ok") /\ wanted' = "idle"
                                    ELSE FinishFails(u) /\ UNCHANGED wanted
    /\ Claim(user[u].id)
    /\ UNCHANGED <<seen, caller, bounds, up, next, requests, world>>

-----------------------------------------------------------------------------
(* cancel_motion, from the Drop of the loop or of the handle. *)

\* Mutant: an error in the loop returns without a cancel.
Cancel_NotSent(u) ==
    /\ At(u, "cancelling") \/ (Handle(u) /\ user[u].at \in {"started", "running", "failed", "released"})
    /\ Returns(u, "error")
    /\ UNCHANGED <<seen, wanted, caller, bounds, up, tcp, world>>

Cancel(u) ==
    /\ At(u, "cancelling") \/ (Handle(u) /\ user[u].at \in {"started", "running", "failed", "released"})
    /\ IF up
       THEN /\ user' = [user EXCEPT ![u].at = "stopping", ![u].stop = next]
            /\ Request("stop", "idle")
            /\ UNCHANGED lock
       ELSE Returns(u, "error") /\ UNCHANGED <<next, requests>>
    /\ UNCHANGED <<seen, wanted, caller, bounds, up, replies, received, world>>

\* A stop that is refused ends the cancel there, the modes as they are.
StopReplied(u) ==
    /\ At(u, "stopping") /\ up
    /\ \E status \in Statuses :
           /\ ReplyTo(user[u].stop, status)
           /\ IF status = "success" THEN Receives(u, "draining") /\ UNCHANGED lock
                                    ELSE Returns(u, "error")
    /\ Claim(user[u].stop)
    /\ UNCHANGED <<seen, wanted, caller, bounds, up, next, requests, world>>

\* The Move's reply is dropped if it is there and the demultiplexer is free.
Drained(u) ==
    /\ At(u, "drained")
    /\ Returns(u, "error")
    /\ wanted' = "idle"
    /\ UNCHANGED <<replies, received>> \/ (up /\ Claim(user[u].id))
    /\ UNCHANGED <<seen, caller, bounds, up, next, requests, world>>

-----------------------------------------------------------------------------
(* Errors.  Whatever a call was at, it ends there: a start or a cancel returns, a loop cancels, a
   handle keeps its motion. *)

Errs(u) ==
    CASE user[u].at \in {"starting", "polling", "entering", "stopping", "draining", "drained"} ->
                Returns(u, "error")
      [] user[u].at \in {"started", "running", "reading", "aborted"} -> Fails(u) /\ UNCHANGED lock
      [] user[u].at \in {"finishing", "ending", "claiming"} -> FinishFails(u)
      [] OTHER -> FALSE

\* Without the connection every call ends in an error.
Broken(u) ==
    /\ ~up
    /\ Errs(u)
    /\ UNCHANGED <<seen, wanted, caller, bounds, up, tcp, world>>

\* What makes a receive of TCP fail and leaves the connection up: a header of a wrong size, which
\* is dropped, or a reply whose status is none, which is claimed.
Unusable(id) == UNCHANGED <<replies, received>> \/ (Answered(id) /\ Claim(id))

Awaited(u) == IF At(u, "stopping") THEN user[u].stop ELSE user[u].id

\* A Protocol error: such a message, or a datagram that is no state; or a command is not sent.
Garbled(u) ==
    /\ up
    /\ troubles < MaxTroubles /\ troubles' = troubles + 1
    /\ \/ user[u].at \in AwaitsState \cup {"finishing"} /\ UNCHANGED <<replies, received>>
       \/ user[u].at \in AwaitsReply \cup {"polling", "drained"} /\ Unusable(Awaited(u))
    /\ Errs(u)
    /\ abandoned' = IF lock = u /\ lock' = NoUser THEN abandoned \cup {user[u].id} ELSE abandoned
    /\ UNCHANGED <<seen, wanted, caller, moves, calls, up, next, requests, robot, states, outcome>>

\* Network shuts TCP down when a state does not come in time.
StateTimesOut(u) ==
    /\ user[u].at \in AwaitsState /\ up
    /\ up' = FALSE
    /\ UNCHANGED <<client, bounds, tcp, world>>

-----------------------------------------------------------------------------
(* Other threads. *)

\* Mutant: the id is read after it was incremented.
Call_NextId(c) ==
    /\ caller[c] = NoId
    /\ calls < MaxCalls /\ up
    /\ calls' = calls + 1
    /\ caller' = [caller EXCEPT ![c] = next + 1]
    /\ \E what \in {"stop", "recover"} : Request(what, "idle")
    /\ UNCHANGED <<lock, seen, wanted, user, moves, troubles, up, replies, received, world>>

Call(c) ==
    /\ caller[c] = NoId
    /\ calls < MaxCalls /\ up
    /\ calls' = calls + 1
    /\ caller' = [caller EXCEPT ![c] = next]
    /\ \E what \in {"stop", "recover"} : Request(what, "idle")
    /\ UNCHANGED <<lock, seen, wanted, user, moves, troubles, up, replies, received, world>>

CallReplied(c) ==
    /\ caller[c] # NoId
    /\ IF up THEN Answered(caller[c]) /\ Claim(caller[c])
             ELSE UNCHANGED <<replies, received>>
    /\ caller' = [caller EXCEPT ![c] = NoId]
    /\ UNCHANGED <<lock, seen, wanted, user, bounds, up, next, requests, world>>

CallGarbled(c) ==
    /\ caller[c] # NoId /\ up
    /\ troubles < MaxTroubles /\ troubles' = troubles + 1
    /\ Unusable(caller[c])
    /\ caller' = [caller EXCEPT ![c] = NoId]
    /\ UNCHANGED <<lock, seen, wanted, user, moves, calls, up, next, requests, world>>

\* Robot::read_once, which is for when nothing else runs.
ReadOnce ==
    /\ \A u \in Users : At(u, "out")
    /\ up
    /\ \E n \in seen..Len(states) : seen' = n
    /\ UNCHANGED <<lock, wanted, user, caller, bounds, up, tcp, world>>

-----------------------------------------------------------------------------
(* The robot.  What it replies and what it shows of a request come in any order, but before it
   looks at the next one. *)

Truth == [mode |-> robot.mode, kind |-> robot.kind]
Shown == states[Len(states)] = Truth

Message(id, status) == [id |-> id, status |-> status]

Ended(mode, messages) ==
    [robot EXCEPT !.move = NoId, !.mode = mode, !.kind = "idle", !.finish = FALSE, !.owed = messages]

TakesMove(r) ==
    \/ /\ robot.move = NoId /\ robot.mode = "idle"
       /\ robot' = [move |-> r.id, mode |-> "move", kind |-> r.kind, finish |-> FALSE,
                    owed |-> {Message(r.id, "started")}, since |-> Len(states)]
       /\ UNCHANGED outcome
    \/ /\ robot' = [robot EXCEPT !.owed = {Message(r.id, "rejected")}]
       /\ outcome' = [outcome EXCEPT ![r.id] = "rejected"]

TakesStop(r) ==
    \/ /\ robot.move # NoId
       /\ robot' = Ended("idle", {Message(r.id, "success"), Message(robot.move, "preempted")})
       /\ outcome' = [outcome EXCEPT ![robot.move] = "preempted"]
    \/ /\ robot.move = NoId
       /\ robot' = [robot EXCEPT !.owed =
                        {Message(r.id, IF robot.mode = "idle" THEN "success" ELSE "rejected")}]
       /\ UNCHANGED outcome

TakesRecovery(r) ==
    /\ robot' = IF robot.move # NoId
                THEN [robot EXCEPT !.owed = {Message(r.id, "rejected")}]
                ELSE [robot EXCEPT !.owed = {Message(r.id, "success")}, !.mode = "idle"]
    /\ UNCHANGED outcome

RobotTakes ==
    /\ requests # <<>> /\ robot.owed = {} /\ Shown
    /\ LET r == Head(requests) IN
           CASE r.what = "move"    -> TakesMove(r)
             [] r.what = "stop"    -> TakesStop(r)
             [] r.what = "recover" -> TakesRecovery(r)
    /\ requests' = Tail(requests)
    /\ UNCHANGED <<client, bounds, up, next, replies, received, states, abandoned>>

RobotReplies ==
    /\ \E m \in robot.owed :
           /\ replies' = Append(replies, m)
           /\ robot' = [robot EXCEPT !.owed = @ \ {m}]
    /\ UNCHANGED <<client, bounds, up, next, requests, received, states, outcome, abandoned>>

RobotFinishes ==
    /\ robot.finish /\ robot.owed = {}
    /\ robot' = Ended("idle", {Message(robot.move, "success")})
    /\ outcome' = [outcome EXCEPT ![robot.move] = "success"]
    /\ UNCHANGED <<client, bounds, up, tcp, states, abandoned>>

RobotReflexes ==
    /\ troubles < MaxTroubles /\ robot.owed = {}
    /\ troubles' = troubles + 1
    /\ IF robot.move # NoId
       THEN /\ robot' = Ended("reflex", {Message(robot.move, "reflex")})
            /\ outcome' = [outcome EXCEPT ![robot.move] = "reflex"]
       ELSE robot' = [robot EXCEPT !.mode = "reflex"] /\ UNCHANGED outcome
    /\ UNCHANGED <<client, moves, calls, up, tcp, states, abandoned>>

RobotShows ==
    /\ ~Shown
    /\ states' = Append(states, Truth)
    /\ UNCHANGED <<client, bounds, up, tcp, robot, outcome, abandoned>>

ConnectionLost ==
    /\ up /\ up' = FALSE
    /\ UNCHANGED <<client, bounds, tcp, world>>

-----------------------------------------------------------------------------
Reads ==
    \/ \E u \in Users : \/ At(u, "stopping") /\ ReadsOn(user[u].stop)
                        \/ user[u].at \in AwaitsReply \ {"stopping"} /\ ReadsOn(user[u].id)
    \/ \E c \in Callers : caller[c] # NoId /\ ReadsOn(caller[c])

\* What a user's thread does by itself once it is in a call.
Progress(u) ==
    \/ StartReplied(u) \/ StartDone(u) \/ PollState(u)
    \/ AbortReplied(u) \/ Finishing(u) \/ FinishReplied(u)
    \/ StopReplied(u) \/ Drained(u) \/ Broken(u)

\* What it may do between two calls.
Choice(u) ==
    Start(u) \/ StartRefused(u) \/ Cycle(u) \/ CallbackFails(u) \/ Finish(u)

Robot == RobotTakes \/ RobotReplies \/ RobotFinishes \/ RobotReflexes \/ RobotShows

Next ==
    \/ \E u \in Users :
         \/ Progress(u) \/ Choice(u) \/ Cancel(u) \/ PollReply(u) \/ Received(u)
         \/ Garbled(u) \/ StateTimesOut(u)
    \/ \E c \in Callers : Call(c) \/ CallReplied(c) \/ CallGarbled(c)
    \/ Reads \/ ReadOnce \/ Robot \/ ConnectionLost

Spec == Init /\ [][Next]_vars

\* The newest state gets through again and again, try_receive's lock is free again and again, and
\* the robot answers.
FairSpec ==
    /\ Spec
    /\ \A u \in Users :
           /\ WF_vars(Progress(u) \/ (At(u, "cancelling") /\ Cancel(u)))
           /\ SF_vars(PollReply(u)) /\ SF_vars(PollState(u) /\ replies' # replies)
           /\ SF_vars(Received(u) /\ seen' = Len(states))
           /\ WF_vars(InMotion(u) /\ Cycle(u))
    /\ \A c \in Callers : WF_vars(CallReplied(c))
    /\ WF_vars(Reads)
    /\ WF_vars(RobotTakes) /\ WF_vars(RobotReplies) /\ WF_vars(RobotShows) /\ SF_vars(RobotFinishes)

-----------------------------------------------------------------------------
(* Properties. *)

(* Every variable has its type. *)
TypeOK ==
    /\ lock \in Users \cup {NoUser}
    /\ seen \in 1..Len(states)
    /\ wanted \in {"idle"} \cup Kinds
    /\ user \in [Users -> Processes]
    /\ caller \in [Callers -> {NoId} \cup Ids]
    /\ next \in Nat \ {0}
    /\ moves \in 0..MaxMoves /\ calls \in 0..MaxCalls /\ troubles \in 0..MaxTroubles
    /\ up \in BOOLEAN
    /\ requests \in Seq([what: {"move", "stop", "recover"}, id: Ids, kind: {"idle"} \cup Kinds])
    /\ replies \in Seq([id: Ids, status: Statuses])
    /\ received \subseteq [id: Ids, status: Statuses]
    /\ robot \in [move: {NoId} \cup Ids, mode: RobotModes, kind: {"idle"} \cup Kinds,
                  finish: BOOLEAN, owed: SUBSET [id: Ids, status: Statuses], since: Nat]
    /\ states \in Seq(RobotStates)
    /\ outcome \in [Ids -> Ends \cup {"none"}]
    /\ abandoned \subseteq Ids

(* Ok(()) out of Robot::control_* means that the motion ended with success
   (handle_terminal_move_response, commands.rs). *)
OkMeansSuccess ==
    \A u \in Users : Loop(u) /\ user[u].result = "ok" => outcome[user[u].id] = "success"

(* Once the control lock is free the robot runs no motion of this client, whatever ended the
   control process: a rejected start, an error in the loop, a panic, a stop, a reflex. Only an
   error of a start, of a cancel, or of a handle's finish, that leaves the connection up lets go
   of a motion that may run: nobody cancels it (start_motion, motion.rs). *)
NoOrphanMotion == (lock = NoUser /\ up) => robot.move \in {NoId} \cup abandoned

(* What a control process reports and what it leaves on the robot agree. *)
MotionIsSettled == OkMeansSuccess /\ NoOrphanMotion

(* The accepted state is never followed by an older one (receive_robot_state). *)
StatesNeverGoBack == [][seen' >= seen]_vars

(* A call that waits on the robot returns, with the robot's answer or with the connection's end. *)
EveryCallReturns ==
    /\ \A u \in Users : (Loop(u) /\ user[u].at \notin {"out", "running"}) ~> user[u].at \in {"out", "running"}
    /\ \A c \in Callers : caller[c] # NoId ~> caller[c] = NoId

(* A loop whose motion ended under it, by a stop or a reflex, notices and returns. *)
EndedMotionIsNoticed ==
    \A u \in Users : (Loop(u) /\ At(u, "running") /\ robot.move = NoId) ~> At(u, "out")

(* read_once of a handle returns, with FrankaError::Control if the motion was aborted
   (active_control.rs), however often it is called. *)
ReadOnceReturns ==
    \A u \in Users : (Handle(u) /\ user[u].at \in {"reading", "aborted"}) ~> user[u].at \notin {"reading", "aborted"}
=============================================================================
