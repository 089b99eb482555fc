----------------------------- MODULE MCMotions -----------------------------
(* What a motion needs to be right, on both sides of a session: a motion of the robot and who     *)
(* shares it, a node's configuration and the start of a loop, a program's threads and its feeder, *)
(* what a client of the parameters is told, the simulator a test drives.                          *)
(* One part moves in a behaviour; a part that stands still is empty.                              *)
EXTENDS FciMotion, NodeConfig, PyArm, ParamsWire, SimHarness

VARIABLE part

motionsVars == <<part, vars, configVars, pyArmVars, wireVars, simVars>>

\* The fields that are checked, or used, together with another.
TestRelated ==
    {"lead", "leash", "barrier", "margin", "stop", "connect", "recordDir", "stiffness", "posture"}
\* The feeder catches up within a chunk, and one has a row the loop refuses.
TestPyChunks ==
    {[rows |-> <<"good", "good">>, dt |-> 2], [rows |-> <<"good", "bad", "good">>, dt |-> 1]}
PyThreadsAreAlike == Permutations(PyThreads)

\* A configuration's values at rest, and one that is near its bounds.
TestOptions ==
    [springs |-> <<40000, 30000, 50000, 25000, 35000, 25000, 10000>>,
     dampers |-> <<4000, 6000, 5000, 5000, 3000, 2000, 1000>>,
     stiffness |-> 750000, ikDamping |-> 50, nullspace |-> 1000, feedforward |-> FALSE,
     gain |-> 1000, cutoff |-> 1000000, budget |-> <<300, 500, 20000>>,
     rotationBudget |-> <<500, 1000, 20000>>]
TestWireSeeds ==
    {SeedOf(TestOptions),
     SeedOf([TestOptions EXCEPT !.springs[1] = 6000000, !.dampers[1] = 70000, !.feedforward = TRUE,
                                !.budget = <<1000, 500, 20000>>])}

\* Two tests of one binary, one of another; the settings of a binary's environment.
TestSims == {"a1", "a2", "b1"}
TestBinaryOf == [t \in TestSims |-> IF t = "b1" THEN "b" ELSE "a"]
TestConfigOf ==
    [t \in TestSims |-> CASE t = "a1" -> WithMotionLimits(WithCommConstraints(Nominal))
                          [] t = "a2" -> FerV5
                          [] t = "b1" -> WithGripperObject(Nominal)]
Unset == [address |-> FALSE, keep |-> FALSE, image |-> "unset", ferImage |-> "unset"]
TestEnvironments ==
    {Unset, [Unset EXCEPT !.keep = TRUE], [Unset EXCEPT !.address = TRUE],
     [Unset EXCEPT !.image = "fer", !.ferImage = "fr3"]}

ConfigStill ==
    /\ starter = "node" /\ conf = <<>> /\ edits = 0 /\ verdict = "none" /\ StartInit(<<>>)

MotionsInit ==
    /\ part \in {"motion", "config", "program", "wire", "harness"}
    /\ Init /\ PyArmInit
    /\ IF part = "config" THEN ConfigInit ELSE ConfigStill
    /\ IF part = "wire" THEN WireInit ELSE WireStill
    /\ IF part = "harness" THEN SimInit ELSE SimStill

MotionsNext ==
    \/ part = "motion" /\ Next /\ UNCHANGED <<part, configVars, pyArmVars, wireVars, simVars>>
    \/ part = "config" /\ ConfigNext /\ UNCHANGED <<part, vars, pyArmVars, wireVars, simVars>>
    \/ part = "program" /\ PyArmNext /\ UNCHANGED <<part, vars, configVars, wireVars, simVars>>
    \/ part = "wire" /\ WireNext /\ UNCHANGED <<part, vars, configVars, pyArmVars, simVars>>
    \/ part = "harness" /\ SimNext /\ UNCHANGED <<part, vars, configVars, pyArmVars, wireVars>>

MotionsSpec == MotionsInit /\ [][MotionsNext]_motionsVars

-----------------------------------------------------------------------------
MotionsTypeOK ==
    /\ part = "motion" => TypeOK
    /\ part = "config" => ConfigTypeOK
    /\ part = "program" => PyArmTypeOK
    /\ part = "wire" => WireTypeOK
    /\ part = "harness" => SimTypeOK

(* A node's configuration holds: what is accepted starts every session of it, in agreement with   *)
(* the gate and with what the node says of itself; a start is whole or nothing.                   *)
ConfigSafety ==
    /\ AcceptedStarts /\ GateMatchesLoop /\ LeadBeyondLeash /\ FreshIsClean /\ CanBeMet
    /\ StartIsWhole /\ TuneKeepsTheRest /\ PostureIsReachable

(* A program's threads and the feeder: no row is slept through, a stop is final, nobody waits in  *)
(* a ring.                                                                                        *)
ProgramSafety == NeverSleepsPastARow /\ StopIsFinal /\ NoRingOfLocks

(* A client of the parameters is told what the gate does: the schema, the words that moved, what  *)
(* is still on its way.                                                                           *)
WireSafety == SchemaIsTheGate /\ OnlyAskedMoves /\ RetryIsHarmless /\ SlewingTells

(* A test drives its own simulator, one at a time, and leaves none behind.                        *)
HarnessSafety == OneOfABinary /\ TestsItsOwn /\ NothingLeftRunning

(* Who drives a motion can rely on what it was told: a motion's end is settled with the robot, a  *)
(* configuration that was accepted starts, a call that returned is not undone, a parameter is     *)
(* what its schema and its reply say, a test's robot is its own.                                  *)
DrivingIsSafe ==
    /\ part = "motion" => MotionIsSettled
    /\ part = "config" => ConfigSafety
    /\ part = "program" => ProgramSafety
    /\ part = "wire" => WireSafety
    /\ part = "harness" => HarnessSafety

(* Nothing goes back: a robot's accepted states, and a program's targets.                         *)
NothingGoesBack == StatesNeverGoBack /\ AimNeverGoesBack
=============================================================================
