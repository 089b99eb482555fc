---------------------------- MODULE RobotClient ----------------------------
(***************************************************************************)
(* The opening of a robot and the calls on it (franka-rs, robot/mod.rs,    *)
(* robot_impl/mod.rs, commands.rs, wire/robot/, model/): which protocol    *)
(* version is spoken, what the numbers on the wire mean in it, and the     *)
(* model library that an FER serves, from the wire to its file.            *)
(*                                                                         *)
(* A message is its number or its status; arguments and texts are left     *)
(* out, and so are the motions (FciMotion) and the bytes (FciLink).  The   *)
(* robot is external and speaks one version; one of a version this client  *)
(* has not speaks "other".                                                 *)
(***************************************************************************)
EXTENDS Integers, Sequences

CONSTANTS
    Loaders,    \* threads that load the model from the robot
    MaxLoads,   \* bound: loads
    NoValue

Versions == {"V5", "V10"}

VARIABLES
    robot,      \* external: what it speaks, whether it takes any Connect, and its sessions
    opening,    \* RobotImpl::new_with_policy: where it is, its options, the version it tries
    call,       \* one call: its name, its result, and what the robot understood and meant
    load,       \* each loader: where it is, and the file it has
    files,      \* external: libfcimodels-*.so in the temporary directory
    naming      \* external: the nanoseconds of a file's name, and the counter's next value

clientVars == <<robot, opening, call, load, files, naming>>

-----------------------------------------------------------------------------
(* The numbers of service_types.rs and error.rs, from zero.                                        *)
RequestIds == [
    V5 |-> <<"Connect", "Move", "StopMove", "GetCartesianLimit", "SetCollisionBehavior",
             "SetJointImpedance", "SetCartesianImpedance", "SetGuidingMode", "SetEEToK", "SetNEToEE",
             "SetLoad", "SetFilters", "AutomaticErrorRecovery", "LoadModelLibrary">>,
    V10 |-> <<"Connect", "Move", "StopMove", "SetCollisionBehavior", "SetJointImpedance",
              "SetCartesianImpedance", "SetGuidingMode", "SetEEToK", "SetNEToEE", "SetLoad",
              "AutomaticErrorRecovery", "GetRobotModel">>]

Rejected == <<"Success", "NotPossible">>

MoveStatuses == [
    V5 |-> <<"Success", "Started", "Preempted", "NotPossible", "Singular", "InvalidArgument",
             "Reflex", "Emergency", "InputError", "Aborted">>,
    V10 |-> <<"Success", "Started", "Preempted", "PreemptedBySafety", "SafetyFunctions",
              "NotPossible", "Singular", "InvalidArgument", "Reflex", "Emergency", "InputError",
              "Aborted">>]

StopStatuses == [
    V5 |-> Rejected \o <<"Emergency", "Reflex", "Aborted">>,
    V10 |-> Rejected \o <<"SafetyFunctions", "Emergency", "Reflex", "Aborted">>]

RecoveryStatuses == [
    V5 |-> Rejected \o <<"ManualRecovery", "Reflex", "Emergency", "Aborted">>,
    V10 |-> Rejected \o <<"SafetyFunctions", "ManualRecovery", "Reflex", "Emergency", "Aborted">>]

SetterStatuses == [
    V5 |-> Rejected \o <<"InvalidArgument">>,
    V10 |-> Rejected \o <<"InvalidArgument", "SafetyFunctions">>]

CommandStatuses == [V5 |-> Rejected, V10 |-> Rejected \o <<"SafetyFunctions">>]

\* The family of statuses that answers a command.
Family(name) ==
    CASE name = "Move" -> MoveStatuses
      [] name = "StopMove" -> StopStatuses
      [] name = "AutomaticErrorRecovery" -> RecoveryStatuses
      [] name = "GetRobotModel" -> CommandStatuses
      [] OTHER -> SetterStatuses

Calls == {RequestIds[v][i] : v \in Versions, i \in 2..12} \ {"LoadModelLibrary"}

\* command_id: what goes on the wire, or nothing.
CommandId_OfV10(version, name) ==
    LET at == {i \in DOMAIN RequestIds["V10"] : RequestIds["V10"][i] = name}
    IN  IF at = {} THEN NoValue ELSE (CHOOSE i \in at : TRUE) - 1
CommandId(version, name) ==
    LET at == {i \in DOMAIN RequestIds[version] : RequestIds[version][i] = name}
    IN  IF at = {} THEN NoValue ELSE (CHOOSE i \in at : TRUE) - 1

\* parse_move_status and its like: a status of the v10 name set, or an error.
Status_OfV10(version, name, byte) ==
    IF byte + 1 \in DOMAIN Family(name)["V10"] THEN Family(name)["V10"][byte + 1] ELSE "Protocol"
Status(version, name, byte) ==
    IF byte + 1 \in DOMAIN Family(name)[version] THEN Family(name)[version][byte + 1] ELSE "Protocol"

\* torque_only_motion_mode: torques alone move at no velocity on FCI v5, and with no generator on v10.
TorqueOnlyMode(version) == IF version = "V5" THEN "JointVelocity" ELSE "None"

\* move_request: FCI v5 has no mode None.
MoveTakes(version, mode) == version = "V10" \/ mode # "None"

-----------------------------------------------------------------------------
ClientTypeOK ==
    /\ robot.sessions \in 0..2 /\ robot.speaks \in Versions \cup {"other"}
    /\ opening.at \in {"begin", "connected", "accepted", "asking", "open", "failed"}
    /\ opening.version \in Versions /\ call.name \in Calls \cup {NoValue}
    /\ \A l \in Loaders : load[l].at \in {"idle", "asked", "naming", "written", "loaded"}

NoCall == [name |-> NoValue, did |-> NoValue, meant |-> NoValue, result |-> NoValue]
NotLoading == [at |-> "idle", file |-> NoValue, collided |-> FALSE]

ClientInit ==
    /\ robot \in [speaks : Versions \cup {"other"}, lenient : BOOLEAN, sessions : {0}]
    /\ opening \in [at : {"begin"}, policy : {"Auto"} \cup Versions, version : {"V10"},
                    enforce : BOOLEAN]
    /\ call = NoCall /\ load = [l \in Loaders |-> NotLoading]
    /\ files = {} /\ naming = [now |-> 0, next |-> 0, loads |-> 0]

\* The drop of a RobotImpl, or of a failed session: both sockets close.
Closed == [robot EXCEPT !.sessions = @ - 1]

OpeningFails ==
    /\ opening' = [opening EXCEPT !.at = "failed"]
    /\ UNCHANGED <<call, load, files, naming>>

\* The thread's priority and the kernel, which only matter if they are enforced.
NotRealtime ==
    /\ opening.at = "begin" /\ opening.enforce /\ OpeningFails /\ UNCHANGED robot

\* connect_as, up to its request.
ConnectAs(version) ==
    /\ robot' = [robot EXCEPT !.sessions = @ + 1]
    /\ opening' = [opening EXCEPT !.at = "connected", !.version = version]
    /\ UNCHANGED <<call, load, files, naming>>

FirstConnect ==
    /\ opening.at = "begin" /\ ConnectAs(IF opening.policy = "Auto" THEN "V10" ELSE opening.policy)

\* The robot's answer to Connect: it takes its own version, or any.
Incompatible == robot.speaks # opening.version

\* Auto: once more as an FER, if the robot says that it is one; the failed session is dropped.
FallsBack == opening.policy = "Auto" /\ opening.version = "V10" /\ robot.speaks = "V5"

Reconnected_BeforeDrop == robot.sessions + 1
Reconnected == robot.sessions

Fallback ==
    /\ opening.at = "connected" /\ FallsBack
    /\ robot' = [robot EXCEPT !.sessions = Reconnected]
    /\ opening' = [opening EXCEPT !.version = "V5"] /\ UNCHANGED <<call, load, files, naming>>

Mismatched ==
    /\ opening.at = "connected" /\ Incompatible /\ ~FallsBack
    /\ robot' = Closed /\ OpeningFails

\* connect_as: a Success of another version is incompatible all the same.
Accepts_Lenient == ~Incompatible \/ robot.lenient
Accepts == ~Incompatible

Accepted ==
    /\ opening.at = "connected" /\ Accepts
    /\ opening' = [opening EXCEPT !.at = "accepted"] /\ UNCHANGED <<robot, call, load, files, naming>>

\* The first state; an FER is open with it, an FR3 is asked for its model and so for its limits.
FirstState ==
    /\ opening.at = "accepted"
    /\ opening' = [opening EXCEPT !.at = IF opening.version = "V5" THEN "open" ELSE "asking"]
    /\ UNCHANGED <<robot, call, load, files, naming>>

NoState == opening.at = "accepted" /\ robot' = Closed /\ OpeningFails

ModelRead ==
    /\ opening.at = "asking"
    /\ opening' = [opening EXCEPT !.at = "open"] /\ UNCHANGED <<robot, call, load, files, naming>>

\* A rejection, or a URDF without the limits.
NoModel == opening.at = "asking" /\ robot' = Closed /\ OpeningFails

-----------------------------------------------------------------------------
(* The calls of an open robot: execute and execute_setter, with the robot's side of them.          *)

\* What the version has not is refused before anything goes out, and so is a Move of a mode it
\* has not; torque_only_motion_mode never asks for that.
CallRefused(name) ==
    \/ CommandId(opening.version, name) = NoValue
    \/ name = "Move" /\ ~MoveTakes(opening.version, TorqueOnlyMode(opening.version))

CallOn(name) ==
    /\ opening.at = "open" /\ call = NoCall
    /\ LET id == CommandId(opening.version, name)
       IN  IF CallRefused(name)
           THEN call' = [NoCall EXCEPT !.name = name, !.result = "InvalidOperation"]
           ELSE LET did == RequestIds[robot.speaks][id + 1]
                IN  \E byte \in 0..(Len(Family(did)[robot.speaks]) - 1) :
                      call' = [name |-> name, did |-> did,
                               meant |-> Family(did)[robot.speaks][byte + 1],
                               result |-> Status(opening.version, name, byte)]
    /\ UNCHANGED <<robot, opening, load, files, naming>>

CallReturns ==
    /\ call # NoCall /\ call' = NoCall /\ UNCHANGED <<robot, opening, load, files, naming>>

-----------------------------------------------------------------------------
(* The model library of an FER: asked for, written to a file of its own, opened, and dropped with  *)
(* the model.                                                                                      *)
LoadModel(l) ==
    /\ opening.at = "open" /\ load[l].at = "idle" /\ naming.loads < MaxLoads
    /\ CommandId(opening.version, "LoadModelLibrary") # NoValue
    /\ load' = [load EXCEPT ![l] = [NotLoading EXCEPT !.at = "asked"]]
    /\ naming' = [naming EXCEPT !.loads = @ + 1] /\ UNCHANGED <<robot, opening, call, files>>

\* Its answer is bytes, or an error.
LibraryReplied(l) ==
    /\ load[l].at = "asked" /\ load' = [load EXCEPT ![l].at = "naming"]
    /\ UNCHANGED <<robot, opening, call, files, naming>>

LibraryRefused(l) ==
    /\ load[l].at = "asked" /\ load' = [load EXCEPT ![l] = NotLoading]
    /\ UNCHANGED <<robot, opening, call, files, naming>>

\* write_temp_library: the name is of this nanosecond and this call; only a new file is opened.
TempName_OfTime == <<naming.now, 0>>
TempName == <<naming.now, naming.next>>

CreateFile(l) ==
    /\ load[l].at = "naming"
    /\ files' = files \cup {TempName}
    /\ load' = [load EXCEPT ![l] = IF TempName \in files THEN [NotLoading EXCEPT !.collided = TRUE]
                                   ELSE [@ EXCEPT !.at = "written", !.file = TempName]]
    /\ \E tick \in {naming.now, 1} : naming' = [naming EXCEPT !.now = tick, !.next = @ + 1]
    /\ UNCHANGED <<robot, opening, call>>

\* The bytes are written and synced and the library opened with its symbols; on an error before
\* the model has the file, the guard removes it.
OpenLibrary(l) ==
    /\ load[l].at = "written" /\ load' = [load EXCEPT ![l].at = "loaded"]
    /\ UNCHANGED <<robot, opening, call, files, naming>>

Removed_Kept(l) == files
Removed(l) == files \ {load[l].file}

\* The library closes before its file goes, as the fields are declared.
LibraryGone(l) ==
    /\ load[l].at \in {"written", "loaded"}
    /\ load' = [load EXCEPT ![l] = NotLoading] /\ files' = Removed(l)
    /\ UNCHANGED <<robot, opening, call, naming>>

\* The robot is dropped, unless a call or a load borrows it; the models outlive it.
DropRobot ==
    /\ opening.at = "open" /\ call = NoCall /\ \A l \in Loaders : load[l].at # "asked"
    /\ robot' = Closed /\ OpeningFails

ClientNext ==
    \/ NotRealtime \/ FirstConnect \/ Fallback \/ Mismatched \/ Accepted \/ FirstState \/ NoState
    \/ ModelRead \/ NoModel \/ CallReturns \/ DropRobot
    \/ \E name \in Calls : CallOn(name)
    \/ \E l \in Loaders :
         \/ LoadModel(l) \/ LibraryReplied(l) \/ LibraryRefused(l) \/ CreateFile(l)
         \/ OpenLibrary(l) \/ LibraryGone(l)

ClientSpec == ClientInit /\ [][ClientNext]_clientVars

-----------------------------------------------------------------------------
(* The robot does what was asked and the caller is told what it meant, in whichever version they    *)
(* settled on, although half of the numbers mean something else in the other; a call that the       *)
(* version has not never reaches the robot (codec/, commands.rs).                                   *)
MeaningIsKept ==
    /\ opening.at = "open" => opening.version = robot.speaks
    /\ call.did # NoValue => call.did = call.name /\ call.result = call.meant

(* The robot has one session at most, also between the two attempts, and none of a client that      *)
(* failed to open it, wherever it failed (connect_as owns its session).                             *)
OneSession == robot.sessions = IF opening.at \in {"begin", "failed"} THEN 0 ELSE 1

(* A file of a model library lives exactly as long as the load or the model it belongs to, failed   *)
(* loads included, and two loads at once do not take the same (temp_file.rs).                       *)
LibrariesAreTheirOwn ==
    /\ files = {load[l].file : l \in {k \in Loaders : load[k].at \in {"written", "loaded"}}}
    /\ \A l \in Loaders : ~load[l].collided
=============================================================================
