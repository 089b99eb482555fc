----------------------------- MODULE MCLibrary -----------------------------
(* Parts that stand alone: the opening of a robot, a control loop near the end of an axis, a      *)
(* torque loop near a limit, a generator's stream of positions, how a client tells silence from   *)
(* a stall, which controller drives which arm, teleoperation's knobs, and the panel's numbers.    *)
(* One part moves in a behaviour, and what is said of the others is said of where they stand.     *)
EXTENDS RobotClient, FciLoop, TorqueLoop, PositionStream, PySilence, VrHands, VrParams,
        PanelMetrics

VARIABLE part

libraryVars ==
    <<part, clientVars, loopVars, torqueVars, streamVars, silenceVars, handsVars, vrParamsVars,
      panelMetricsVars>>

\* An FR3's velocity limit falls to where the axis ends; a float32 hides a part of a large torque.
TestUpper(at) == IF at < 7 THEN 8 ELSE IF at < 12 THEN 5 ELSE IF at < 16 THEN 2 ELSE 0
TestHalfUlp(tau) == IF Size(tau) > 3 THEN 1 ELSE 0
\* A joint's robot is slower toward the end of its axis; targets are two places apart or more.
TestRobotLimit(at) == IF at < 2 THEN 3 ELSE IF at < 4 THEN 2 ELSE 1
TestStreamTargets == {[x |-> 9, y |-> 2], [x |-> -3, y |-> 4]}
TestMaxBudget == [v |-> 3, a |-> 1]
TestAsked == {-9, 9}
TestSpeed(d) == IF d >= 2 THEN 2 ELSE IF d >= 1 THEN 1 ELSE 0
TestBraking(x) == IF x >= 4 THEN 2 ELSE IF x >= 1 THEN 1 ELSE 0

\* A part that stands still has one initial state.
LibraryInit ==
    /\ part \in {"client", "loop", "torque", "stream", "silence", "hands", "knobs", "numbers"}
    /\ ClientInit
    /\ (part = "client" \/ (robot.speaks = "V5" /\ robot.lenient /\ opening.policy = "Auto"
                               /\ opening.enforce))
    /\ LoopInit
    /\ (part = "loop" \/ (fci = "V10" /\ motion = "none" /\ ~options.limit
                             /\ options.cutoff = "none"))
    /\ TorqueInit /\ (part = "torque" \/ interface = "joint")
    /\ StreamInit /\ (part = "stream" \/ session = "pose")
    /\ SilenceInit /\ PanelMetricsInit
    /\ HandsInit /\ (part = "hands" \/ (port = "left" /\ ~oneController))
    /\ VrParamsInit /\ (part = "knobs" \/ (nodeLimits = 0 /\ args = [clamp |-> 1, scale |-> 1]))

LibraryNext ==
    \/ part = "client" /\ ClientNext
         /\ UNCHANGED <<part, loopVars, torqueVars, streamVars, silenceVars, handsVars,
                         vrParamsVars, panelMetricsVars>>
    \/ part = "loop" /\ LoopNext
         /\ UNCHANGED <<part, clientVars, torqueVars, streamVars, silenceVars, handsVars,
                         vrParamsVars, panelMetricsVars>>
    \/ part = "torque" /\ TorqueNext
         /\ UNCHANGED <<part, clientVars, loopVars, streamVars, silenceVars, handsVars,
                         vrParamsVars, panelMetricsVars>>
    \/ part = "stream" /\ StreamNext
         /\ UNCHANGED <<part, clientVars, loopVars, torqueVars, silenceVars, handsVars,
                         vrParamsVars, panelMetricsVars>>
    \/ part = "silence" /\ SilenceNext
         /\ UNCHANGED <<part, clientVars, loopVars, torqueVars, streamVars, handsVars,
                         vrParamsVars, panelMetricsVars>>
    \/ part = "hands" /\ HandsNext
         /\ UNCHANGED <<part, clientVars, loopVars, torqueVars, streamVars, silenceVars,
                         vrParamsVars, panelMetricsVars>>
    \/ part = "knobs" /\ VrParamsNext
         /\ UNCHANGED <<part, clientVars, loopVars, torqueVars, streamVars, silenceVars, handsVars,
                         panelMetricsVars>>
    \/ part = "numbers" /\ PanelMetricsNext
         /\ UNCHANGED <<part, clientVars, loopVars, torqueVars, streamVars, silenceVars, handsVars,
                         vrParamsVars>>

LibrarySpec == LibraryInit /\ [][LibraryNext]_libraryVars

-----------------------------------------------------------------------------
LibraryTypeOK ==
    /\ part = "client" => ClientTypeOK
    /\ part = "loop" => LoopTypeOK
    /\ part = "torque" => TorqueTypeOK
    /\ part = "stream" => StreamTypeOK
    /\ part = "silence" => SilenceTypeOK
    /\ part = "hands" => HandsTypeOK
    /\ part = "knobs" => VrParamsTypeOK
    /\ part = "numbers" => PanelMetricsTypeOK

(* A robot is opened once, in its version and understood; its model's library is its own.         *)
ClientSafety == MeaningIsKept /\ OneSession /\ LibrariesAreTheirOwn

(* What goes to a robot from a control loop is within what it takes, with a legal elbow.         *)
LoopSafety == LimiterPreventsReflex /\ OnlyChecked

(* A target's goal stays near the arm, off its limits, and never drives it further out.          *)
TorqueSafety ==
    /\ SpringIsBounded /\ GoalKeepsTheMargin /\ GoalCanBrake /\ NothingWindsUp /\ HoldComesBack
    /\ NothingPushesOut

(* A stream of positions is as smooth as its limits, on time, together, never ahead of itself.    *)
StreamSafety == OnTime /\ NoOvershoot /\ AxesArriveTogether /\ StreamIsSmooth /\ NoLag

(* A robot is understood before it is driven, and nothing that drives it asks for a jump.        *)
RobotSafety ==
    /\ part = "client" => ClientSafety
    /\ part = "loop" => LoopSafety
    /\ part = "torque" => TorqueSafety
    /\ part = "stream" => StreamSafety

(* Who drives an arm is right about it: a stall of its own process is not taken for a silent     *)
(* node, nor a silent node for a stall; the grip that proves a hand is the only one held.        *)
DriverSafety ==
    /\ part = "silence" => StallsAreForgiven /\ SilenceIsBounded
    /\ part = "hands" => OneGripProves

(* What a panel shows is of now: knobs that were accepted are driven with and published under    *)
(* their version, numbers are of the stream that runs.                                           *)
PanelSafety ==
    /\ part = "knobs" => PublishedIsCurrent /\ AcceptedIsApplied
    /\ part = "numbers" => NumbersOfThisStream
=============================================================================
