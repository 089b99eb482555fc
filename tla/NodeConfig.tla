----------------------------- MODULE NodeConfig -----------------------------
(***************************************************************************)
(* A node's configuration (franka-node config.rs): what is written is      *)
(* checked once, when the node starts, and every session an arm starts is  *)
(* made of it: the options of both loops, the gate's, the live tuning.     *)
(* Beside the node a program starts a loop with options of its own.        *)
(*                                                                         *)
(* The configuration is the default one with a few fields changed, of the  *)
(* second of two arms; the first is plain. Units are TargetOptions'.       *)
(***************************************************************************)
EXTENDS TargetOptions

CONSTANTS
    MaxEdits,       \* bound: fields changed
    WithRecord,     \* whether the node is built with the record feature
    FirstArm,       \* the first arm's name
    Related         \* bound: the fields the second change is among

ASSUME ConfigAssumption == MaxEdits \in Nat

VARIABLES
    starter,     \* who starts a loop: the node or a program
    conf,       \* what is written
    edits,      \* bound: fields changed so far
    verdict     \* what the node made of it

configVars == <<startVars, starter, conf, edits, verdict>>

ReservedArmNames == {"node", "cam"}
KeySafe(name) == name \notin {"", "a/b"}

DefaultConfig ==
    LET cartesian == DefaultOptions("cartesian")
    IN  [name |-> "right", host |-> TRUE, stateHz |-> 100, hold |-> 200, stop |-> 2000,
         collisionForce |-> 40, collisionTorque |-> 40, budget |-> 300, rotationBudget |-> 500,
         stiffness |-> CartesianPreset, deviation |-> cartesian.deviation,
         angularDeviation |-> cartesian.angularDeviation, leash |-> 25, leashRotation |-> 150,
         step |-> 50, stepRotation |-> 260, stepJoint |-> 200, lead |-> 50, leadRotation |-> 260,
         budgetFraction |-> 10, jointDeviation |-> DefaultOptions("joint").deviation,
         cap |-> cartesian.cap, barrier |-> cartesian.barrier, margin |-> cartesian.margin,
         ikDamping |-> cartesian.ikDamping, nullspace |-> cartesian.nullspace,
         feedforward |-> FALSE, gain |-> cartesian.gain, gainCutoff |-> cartesian.gainCutoff,
         cutoff |-> cartesian.cutoff, springs |-> NotSet, dampers |-> NotSet, workspace |-> "unset",
         rate |-> 250, priority |-> NotSet, cpu |-> NotSet, recordDir |-> FALSE, meshes |-> FALSE,
         gripper |-> "unset", gripperSpeed |-> 100,
         mode |-> "peer", listen |-> TRUE, connect |-> FALSE, scouting |-> "unset", lease |-> 1000]

\* What a field may be changed to: what is no number, and both sides of its bounds.
Odd == {NotANumber, Endless, -1, 0}
Positives == {"collisionForce", "collisionTorque", "stiffness", "deviation", "angularDeviation",
              "leash", "leashRotation", "step", "stepRotation", "stepJoint", "jointDeviation",
              "rate", "gripperSpeed", "ikDamping", "cutoff", "gainCutoff"}
Alternatives(f) ==
    CASE f = "name" -> {"", "a/b", "cam", "left", "other"}
      [] f \in {"host", "listen"} -> {FALSE}
      [] f \in {"connect", "recordDir", "meshes", "feedforward"} -> {TRUE}
      [] f = "mode" -> {"client"}
      [] f = "scouting" -> {"on", "off"}
      [] f = "gripper" -> {"", "hand"}
      [] f = "workspace" -> {"box", "empty"}
      [] f \in {"stateHz", "lease"} -> {0, 1, 1001}
      [] f \in {"hold", "stop"} -> {0, 200, 2000}
      [] f = "priority" -> {0, 1, 99, 100}
      [] f = "cpu" -> {0, CpuSetSize}
      [] f = "stiffness" -> Odd \cup {9}
      [] f \in {"springs", "dampers"} -> Odd \cup {7}
      [] f \in {"leash", "lead"} -> Odd \cup {24, 51}
      [] f \in {"cap", "barrier", "gain", "budgetFraction"} -> Odd \cup {80, OneWhole, OneWhole + 1}
      [] f = "margin" -> Odd \cup {LeastMargin, MostMargin, MostMargin + 1}
      [] OTHER -> Odd \cup {1}

-----------------------------------------------------------------------------
(* What is made of it. *)

Scaled(o, c) == ScaledCartesian(c.stiffness) ++ o

\* Both loops share what limits the joints.
Envelopes_Cartesian(o, c) == o
Envelopes(o, c) ==
    [o EXCEPT !.springs = IF c.springs = NotSet THEN @ ELSE c.springs,
              !.dampers = IF c.dampers = NotSet THEN @ ELSE c.dampers,
              !.cap = c.cap, !.barrier = c.barrier, !.margin = c.margin, !.cutoff = c.cutoff,
              !.feedforward = c.feedforward, !.gain = c.gain, !.gainCutoff = c.gainCutoff,
              !.ikDamping = c.ikDamping, !.nullspace = c.nullspace]

CartesianImpedance(c) ==
    Envelopes([Scaled(DefaultOptions("cartesian"), c)
                 EXCEPT !.leash = c.leash, !.leashRotation = c.leashRotation], c)

CartesianOptions(c) ==
    [CartesianImpedance(c)
       EXCEPT !.limits = c.budget, !.rotationLimits = c.rotationBudget, !.deviation = c.deviation,
              !.angularDeviation = c.angularDeviation, !.priority = c.priority, !.cpu = c.cpu]

\* A home gets room for its way.
HomeMargin == 100
JointOptions(c, limits, travel) ==
    [Envelopes(DefaultOptions("joint"), c)
       EXCEPT !.limits = limits, !.priority = c.priority, !.cpu = c.cpu,
              !.deviation = IF travel = 0 THEN c.jointDeviation
                            ELSE Larger(c.jointDeviation, travel + HomeMargin)]

ConfigTuning(c) ==
    TuningOf([CartesianImpedance(c) EXCEPT !.limits = c.budget, !.rotationLimits = c.rotationBudget])

\* The gate's own inset and its leads.
GateInset_Plain(c) == JointLimitInset
GateInset(c) == Larger(JointLimitInset, c.margin)

GatePassesJoints(c, x) == KeepsFromLimits(x, GateInset(c))
GatePassesLead(lead, x) == lead = 0 \/ x =< lead

\* Where the node can be met.
Listens(c) == c.mode = "peer" /\ c.listen
Scouts(c) == IF c.scouting = "unset" THEN Listens(c) \/ ~c.connect ELSE c.scouting = "on"

-----------------------------------------------------------------------------
(* The checks. *)

LeadExceeds_OrEqual(lead, leash) == lead = 0 \/ lead >= leash
LeadExceeds(lead, leash) == lead = 0 \/ lead > leash

LibraryAgrees_Assumed(c) == TRUE
LibraryAgrees(c) == ValidOptions(CartesianOptions(c))

ValidArm(c) ==
    /\ KeySafe(c.name) /\ c.name \notin ReservedArmNames /\ c.host
    /\ c.stateHz \in 1..1000 /\ c.hold < c.stop
    /\ \A f \in Positives : IsPositive(c[f])
    /\ \A f \in {"springs", "dampers"} : c[f] = NotSet \/ NotNegative(c[f])
    /\ IsWithin(c.gain, 0, OneWhole) /\ c.gainCutoff >= MinFeedforwardCutoff
    /\ NotNegative(c.nullspace)
    /\ NotNegative(c.lead) /\ LeadExceeds(c.lead, c.leash)
    /\ NotNegative(c.leadRotation) /\ LeadExceeds(c.leadRotation, c.leashRotation)
    /\ IsWithin(c.budgetFraction, 1, OneWhole)
    /\ IsPositive(c.budget) /\ IsPositive(c.rotationBudget)
    /\ c.workspace # "empty"
    /\ WithRecord \/ ~(c.recordDir \/ c.meshes)
    /\ c.meshes => c.recordDir
    /\ c.gripper # ""
    /\ LibraryAgrees(c)

ValidConfig(c) ==
    /\ c.lease > 0 /\ (c.mode = "client" => c.connect)
    /\ ValidArm(c) /\ c.name # FirstArm

-----------------------------------------------------------------------------
ConfigInit ==
    /\ starter \in {"node", "cartesian", "joint"} /\ conf = DefaultConfig /\ edits = 0
    /\ verdict = "none"
    /\ LET kind == IF starter = "joint" THEN "joint" ELSE "cartesian"
       IN  StartInit(DefaultOptions(kind) ++ [enforce |-> TRUE])

MayEdit(f) == edits < MaxEdits /\ (edits = 0 \/ f \in Related)

WriteConfig ==
    /\ starter = "node" /\ verdict = "none"
    /\ \E f \in DOMAIN conf :
         MayEdit(f) /\ \E x \in Alternatives(f) : conf' = [conf EXCEPT ![f] = x]
    /\ edits' = edits + 1 /\ UNCHANGED <<startVars, starter, verdict>>

LoadConfig ==
    /\ starter = "node" /\ verdict = "none"
    /\ verdict' = IF ValidConfig(conf) THEN "accepted" ELSE "refused"
    /\ UNCHANGED <<startVars, starter, conf, edits>>

\* A session starts with the configuration's options, a home with room for its way.
NodeAsks ==
    /\ verdict = "accepted" /\ starting.at = "writing"
    /\ \E enforce \in BOOLEAN, travel \in {0, 2000} :
         asking' \in {CartesianOptions(conf) ++ [enforce |-> enforce],
                      JointOptions(conf, conf.budgetFraction, travel) ++ [enforce |-> enforce]}
    /\ starting' = [starting EXCEPT !.at = "checking"]
    /\ UNCHANGED <<loopThread, slot, law, starter, conf, edits, verdict>>

\* A program writes options of its own.
OptionAlternatives(f) ==
    CASE f = "backend" -> {"robot"}
      [] f \in {"enforce", "feedforward"} -> {TRUE}
      [] f = "stiffness" -> {-1, 9, Endless}
      [] f = "damping" -> {-1, 25, Endless}
      [] f = "posture" -> Odd \cup {30, 60}
      [] f \in {"priority", "cpu"} -> Alternatives(f)
      [] f \in {"quiet", "iterations"} -> {0}
      [] f \in {"torque", "rotationWeight"} -> Odd \cup {RatedTorque, OneWhole + 1}
      [] OTHER -> Odd

ImpedanceFields == DOMAIN DefaultImpedance("joint")

Sets(fields) ==
    /\ starter # "node" /\ starting.at = "writing"
    /\ \E f \in fields :
         MayEdit(f) /\ \E x \in OptionAlternatives(f) : asking' = [asking EXCEPT ![f] = x]
    /\ edits' = edits + 1
    /\ UNCHANGED <<starting, loopThread, slot, law, starter, conf, verdict>>
SetsImpedance == Sets(ImpedanceFields)
SetsOption == Sets(DOMAIN asking \ (ImpedanceFields \cup {"kind"}))

ProgramAsks ==
    /\ starter # "node" /\ starting.at = "writing"
    /\ starting' = [starting EXCEPT !.at = "checking"]
    /\ UNCHANGED <<asking, loopThread, slot, law, starter, conf, edits, verdict>>

ConfigNext ==
    \/ WriteConfig \/ LoadConfig \/ NodeAsks \/ SetsImpedance \/ SetsOption \/ ProgramAsks
    \/ StartNext /\ UNCHANGED <<starter, conf, edits, verdict>>

ConfigSpec == ConfigInit /\ [][ConfigNext]_configVars

-----------------------------------------------------------------------------
ConfigTypeOK ==
    /\ verdict \in {"none", "accepted", "refused"} /\ edits \in 0..MaxEdits
    /\ starting.at \in {"writing", "checking", "model", "spawn", "waiting", "returned"}
    /\ starting.returned \in {"none", "handle", "invalid", "failed"}
    /\ loopThread \in {"none", "scheduling", "unscheduled", "body", "cycling", "ending", "gone"}

(* A configuration that is accepted when the node starts is not found      *)
(* invalid when an arm is activated, days later: the node checks the       *)
(* Cartesian loop's options alone, and a home and a joint session have     *)
(* others (ArmConfig::validate, joint_control_options).                    *)
AcceptedStarts == starter = "node" => starting.returned # "invalid"

(* What the gate lets through, the loop takes: both keep a joint target    *)
(* the same distance from the end of the range (guard_options).            *)
GateMatchesLoop ==
    verdict = "accepted" =>
        \A x \in {19, 20, 34, 35, 49, 50, 499, 500, 501} :
            GatePassesJoints(conf, x) => TakesJoints(JointOptions(conf, conf.budgetFraction, 0), x)

(* A target just ahead of the loop's own desired state passes the gate,    *)
(* however far the leash lets that state be from the arm.                  *)
LeadBeyondLeash ==
    verdict = "accepted" =>
        /\ GatePassesLead(conf.lead, conf.leash + 1)
        /\ GatePassesLead(conf.leadRotation, conf.leashRotation + 1)

(* A Cartesian session of the node can be tuned, and until it is, what it  *)
(* runs with is what the node says of its configuration (params_msg: it is *)
(* not dirty).                                                             *)
FreshIsClean ==
    starter = "node" /\ asking.kind = "cartesian" /\ starting.returned = "handle" =>
        slot.seeded /\ TuningOf(asking) = ConfigTuning(conf)

(* A node that was not told to stay silent can be met.                     *)
CanBeMet ==
    verdict = "accepted" /\ conf.scouting # "off" => Listens(conf) \/ conf.connect \/ Scouts(conf)
=============================================================================
