------------------------------- MODULE MCNode -------------------------------
(* The parts of the arm's node beside its state machine: the gate of the targets, the recording   *)
(* of sessions and the flight logger behind it, live tuning, the gripper's driver, and the life   *)
(* of the whole. None moves another's state; one part moves in a behaviour.                       *)
EXTENDS NodeGate, FlightLogger, NodeRecording, NodeParams, GripperHand, NodeLife

VARIABLE part
nodeVars == <<part, gateVars, flightVars, recordingVars, paramsVars, vars, lifeVars>>

TestPlaces == 0..4
TestBox == 0..3
TestStart == 0

\* What the counts and the markers depend on, and the orientations of quiet records.
TestRecords ==
    [time : 0..1, errors : {FALSE}, mode : {FALSE}, contact : BOOLEAN, loud : BOOLEAN, turn : {0}]
    \cup [time : {1}, errors : {TRUE}, mode : {TRUE}, contact : BOOLEAN, loud : {TRUE}, turn : {0}]
    \cup [time : {1}, errors : {FALSE}, mode : {FALSE}, contact : {FALSE}, loud : {FALSE},
          turn : 0..(Turn - 1) \cup {NoTurn}]

TestTunables == {"spring", "damping", "feedforward", "velocity", "acceleration"}
TestBound == [spring |-> 4, damping |-> 4, feedforward |-> 1, velocity |-> 4, acceleration |-> 2]
TestLeast == [spring |-> 0, damping |-> 0, feedforward |-> 0, velocity |-> 1, acceleration |-> 1]
TestConfirm == [feedforward |-> 0, velocity |-> 2]
\* A pair the config may ask for although it is not damped.
TestSeeds == {[spring |-> 3, damping |-> 0, feedforward |-> 0, velocity |-> 4, acceleration |-> 1]}

\* A value past its bound, the halves of a pair, fields that need a confirmation.
TestUpdates == {[spring |-> 9], [damping |-> 0], [feedforward |-> 1, velocity |-> 4],
                [velocity |-> 0]}

NodeInit ==
    /\ part \in {"gate", "flight", "recording", "params", "gripper", "life"}
    /\ GateInit /\ place = TestStart /\ (kind = "joints" => gate.other)
    /\ part = "gate" \/ kind = "joints"
    /\ pushes.left = IF part = "gate" /\ kind = "cartesian" /\ gate.other THEN MaxPushes ELSE 0
    /\ FlightInit /\ RecordingInit /\ ParamsInit /\ Init /\ LifeInit

NodeNext ==
    \/ part = "gate" /\ GateNext
         /\ UNCHANGED <<part, flightVars, recordingVars, paramsVars, vars, lifeVars>>
    \/ part = "flight" /\ FlightNext
         /\ UNCHANGED <<part, gateVars, recordingVars, paramsVars, vars, lifeVars>>
    \/ part = "recording" /\ RecordingNext
         /\ UNCHANGED <<part, gateVars, flightVars, paramsVars, vars, lifeVars>>
    \/ part = "params" /\ ParamsNext
         /\ UNCHANGED <<part, gateVars, flightVars, recordingVars, vars, lifeVars>>
    \/ part = "gripper" /\ Next
         /\ UNCHANGED <<part, gateVars, flightVars, recordingVars, paramsVars, lifeVars>>
    \/ part = "life" /\ LifeNext
         /\ UNCHANGED <<part, gateVars, flightVars, recordingVars, paramsVars, vars>>

\* The fairness of the part that moves: RecordingFairness, ParamsFairness, FairSpec's, LifeFairness.
NodeSpec ==
    /\ NodeInit /\ [][NodeNext]_nodeVars
    /\ WF_recordingVars(part = "recording" /\ RecorderThread)
    /\ WF_recordingVars(part = "recording" /\ (LogRow \/ FinishDrops \/ SessionIsOver))
    /\ WF_paramsVars(part = "params" /\ AcceptSet)
    /\ WF_paramsVars(part = "params" /\ (ReadSequence \/ Cross))
    /\ WF_vars(part = "gripper" /\ Worker) /\ WF_vars(part = "gripper" /\ DropNotifies)
    /\ WF_vars(part = "gripper" /\ HandAnswers) /\ WF_vars(part = "gripper" /\ StopSpawns)
    /\ WF_vars(part = "gripper" /\ HandStops) /\ WF_vars(part = "gripper" /\ HomeTimesOut)
    /\ WF_lifeVars(part = "life" /\ MainThread)
    /\ \A a \in ArmsOfNode : WF_lifeVars(part = "life" /\ ArmRuns(a))

NodeTypeOK ==
    /\ part = "gate" => GateTypeOK
    /\ part = "flight" => FlightTypeOK
    /\ part = "recording" => RecordingTypeOK
    /\ part = "params" => ParamsTypeOK
    /\ part = "gripper" => TypeOK
    /\ part = "life" => LifeTypeOK

(* The gate lets targets of the holder through in their order, at its rate and within what the    *)
(* arm may coast, and never for ever refuses one that is near the arm.                            *)
GateSafety ==
    part = "gate" => AcceptedInOrder /\ RateBounded /\ RateIsFair /\ CoastBounded /\ AnchorGetsIn

(* What a recording holds is what happened, however its thread cut it into batches, and no record *)
(* is lost without being counted.                                                                 *)
RecordingSafety ==
    /\ part = "flight" => EventsMatchLog /\ TimelineForward /\ OrientationContinues
    /\ part = "recording" => RecordsAccounted

(* Clients that tune one loop do not undo each other, and its dampings stay with its springs.     *)
TuningSafety == part = "params" => NoLostUpdate /\ PairStaysDamped

(* The gripper's worker does the newest order and sleeps only when there is none. A node that is  *)
(* gone has left no arm in a session and no query that reached it in time unanswered.             *)
ThreadSafety ==
    /\ part = "gripper" => NeverSleepsOnWork /\ LatestWins
    /\ part = "life" => NothingRunsOn /\ ServedIsAnswered /\ StatusOfWholeNode

(* What was promised is not taken back: a file that was announced, a bound that asks for a        *)
(* confirmation, a stop of the gripper.                                                           *)
NothingTakenBack == AnnouncedFilesStay /\ ConfirmedOnly /\ StoppedStaysStopped

(* A recording closes, a change of the tuning arrives, and a node that ends gets to its end.      *)
NodeGoesOn == ClosingReturns /\ SlewArrives /\ NodeReturns
=============================================================================
