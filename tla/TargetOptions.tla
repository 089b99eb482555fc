--------------------------- MODULE TargetOptions ---------------------------
(***************************************************************************)
(* The start of a target control (franka-rs target_control: options.rs,    *)
(* impedance.rs, ik, validate_common and spawn in mod.rs, start in         *)
(* cartesian.rs and joint.rs): the options are checked, the session's live *)
(* tuning is seeded, a thread is spawned and scheduled, and the caller     *)
(* waits for its first cycle.                                              *)
(*                                                                         *)
(* A number is an integer of its field's own unit, or NotANumber or        *)
(* Endless; an array is the worst of its elements. A stiffness is a square *)
(* number, so that its damping, which goes with its root, is one too.      *)
(*                                                                         *)
(* External: the model's library, the scheduler, the robot's loop.         *)
(***************************************************************************)
EXTENDS Integers, FiniteSets, TLC

CONSTANTS
    MaxRetuned,     \* bound: fields tuned after the start
    NoLaw

VARIABLES
    asking,     \* what the caller starts: the options, and whether it enforces realtime
    starting,   \* where the start is, and what it returned
    loopThread, \* where the loop's thread is
    slot,       \* the tuning slot: published, and by how many later tunes
    law         \* the gains the loop runs with

startVars == <<asking, starting, loopThread, slot, law>>

NotANumber == -9999
Endless == 9999
NotSet == -8888

\* The fields of two records; the first one's where both have it.
f ++ g == [x \in DOMAIN f \cup DOMAIN g |-> IF x \in DOMAIN f THEN f[x] ELSE g[x]]

IsFinite(x) == x \notin {NotANumber, Endless}
IsPositive(x) == IsFinite(x) /\ x > 0
NotNegative(x) == IsFinite(x) /\ x >= 0
IsWithin(x, low, high) == NotANumber \notin {x, low, high} /\ low =< x /\ x =< high

\* Thousandths of a radian, hundredths of one, Hz.
JointLimitInset == 20
LeastMargin == 35
MostMargin == 500
OneWhole == 100
MinFeedforwardCutoff == 1
CpuSetSize == 1024

-----------------------------------------------------------------------------
(* The options. *)

\* Every gain of the law; the twelve Cartesian ones come from one stiffness.
RootOf(k) == CHOOSE r \in 0..k : r * r = k
DampingOf(k) ==
    IF k = Endless THEN Endless ELSE IF NotNegative(k) THEN 10 * RootOf(k) ELSE NotANumber
CartesianPreset == 4
ScaledCartesian(k) == [stiffness |-> k, damping |-> DampingOf(k)]
PresetGains(kind) ==
    IF kind = "cartesian" THEN ScaledCartesian(CartesianPreset) ++ [springs |-> 4, dampers |-> 2]
    ELSE [stiffness |-> 0, damping |-> 0, springs |-> 50, dampers |-> 15]

DefaultIk == [ikDamping |-> 5, nullspace |-> 1, iterations |-> 3, ikTolerance |-> 1,
              rotationWeight |-> 10]
DefaultLeash == [leash |-> 25, leashRotation |-> 150, leashJoint |-> 100]
DefaultImpedance(kind) ==
    PresetGains(kind) ++ DefaultIk ++ DefaultLeash ++
    [torque |-> 11, cutoff |-> 100, posture |-> NotSet, feedforward |-> FALSE, gain |-> OneWhole,
     gainCutoff |-> 1000, cap |-> 70, barrier |-> 85, margin |-> 50]

DefaultSettle == [tolerance |-> 1, quiet |-> 250]
DefaultCommon == DefaultSettle ++ [backend |-> "impedance", priority |-> NotSet, cpu |-> NotSet]
CartesianDefaults ==
    [kind |-> "cartesian", limits |-> 300, rotationLimits |-> 500, deviation |-> 300,
     angularDeviation |-> 500]
JointDefaults ==
    [kind |-> "joint", limits |-> NotSet, rotationLimits |-> 500, deviation |-> 1000,
     angularDeviation |-> 500]
DefaultOptions(kind) ==
    DefaultImpedance(kind) ++ DefaultCommon
    ++ (IF kind = "cartesian" THEN CartesianDefaults ELSE JointDefaults)

RatedTorque == 12

ValidGains(o) == \A f \in {"stiffness", "damping", "springs", "dampers"} : NotNegative(o[f])

ValidIk(o) ==
    /\ IsPositive(o.ikDamping) /\ NotNegative(o.nullspace) /\ NotNegative(o.ikTolerance)
    /\ o.rotationWeight > 0 /\ IsWithin(o.rotationWeight, 0, OneWhole) /\ o.iterations > 0

ValidImpedance(o) ==
    /\ ValidGains(o)
    /\ IsPositive(o.torque) /\ o.torque =< RatedTorque
    /\ IsPositive(o.cutoff) /\ IsPositive(o.gainCutoff) /\ o.gainCutoff >= MinFeedforwardCutoff
    /\ IsWithin(o.gain, 0, OneWhole)
    /\ IsPositive(o.leash) /\ IsPositive(o.leashRotation) /\ IsPositive(o.leashJoint)
    /\ o.posture = NotSet \/ IsFinite(o.posture)
    /\ IsWithin(o.cap, 1, OneWhole) /\ IsWithin(o.barrier, o.cap, OneWhole)
    /\ IsWithin(o.margin, LeastMargin, MostMargin)
    /\ ValidIk(o)

ValidCommon(o) ==
    /\ o.backend = "impedance" => ValidImpedance(o)
    /\ IsPositive(o.deviation) /\ IsPositive(o.tolerance) /\ o.quiet > 0
    /\ o.priority = NotSet \/ o.priority \in 1..99
    /\ o.cpu = NotSet \/ o.cpu < CpuSetSize

ValidCartesian(o) ==
    IsPositive(o.limits) /\ IsPositive(o.rotationLimits) /\ IsPositive(o.angularDeviation)
ValidJoint(o) == o.limits = NotSet \/ IsPositive(o.limits)
ValidOptions(o) ==
    /\ IF o.kind = "cartesian" THEN ValidCartesian(o) ELSE ValidJoint(o)
    /\ ValidCommon(o)

\* Where a joint may be, as the distance from the end of its range.
Larger(a, b) == IF a < b THEN b ELSE a
InsetOf(o) == IF o.backend = "impedance" THEN Larger(JointLimitInset, o.margin) ELSE JointLimitInset
KeepsFromLimits(x, inset) == IsWithin(x, inset, Endless)
ValidPosture(o) ==
    o.backend = "impedance" /\ o.posture # NotSet => KeepsFromLimits(o.posture, InsetOf(o))

\* What set_joints takes.
TakesJoints(o, x) == IsFinite(x) /\ KeepsFromLimits(x, InsetOf(o))

-----------------------------------------------------------------------------
(* The live tuning of a session. *)

TuningOf(o) ==
    [stiffness |-> o.stiffness, springs |-> o.springs, dampers |-> o.dampers,
     ikDamping |-> o.ikDamping, nullspace |-> o.nullspace,
     gain |-> IF o.feedforward THEN o.gain ELSE 0, gainCutoff |-> o.gainCutoff,
     limits |-> o.limits, rotationLimits |-> o.rotationLimits]

GainsOf(t) == ScaledCartesian(t.stiffness) ++ [springs |-> t.springs, dampers |-> t.dampers]
GainsAsked(o) == [f \in {"stiffness", "damping", "springs", "dampers"} |-> o[f]]

\* A tuning that would not rebuild the gains is none; the joint interface has none.
Tunable_Any(o) == o.kind = "cartesian" /\ o.backend = "impedance"
Tunable(o) ==
    o.kind = "cartesian" /\ o.backend = "impedance" /\ GainsOf(TuningOf(o)) = GainsAsked(o)

-----------------------------------------------------------------------------
(* The start. *)

Unstarted == [at |-> "writing", returned |-> "none"]

StartInit(options) ==
    /\ asking = options /\ starting = Unstarted
    /\ loopThread = "none" /\ slot = [seeded |-> FALSE, tunes |-> 0] /\ law = NoLaw

\* The options and the posture are checked before anything is touched.
Check ==
    /\ starting.at = "checking"
    /\ starting' = IF ValidOptions(asking) /\ ValidPosture(asking)
                   THEN [starting EXCEPT !.at = IF asking.backend = "impedance" THEN "model"
                                                ELSE "spawn"]
                   ELSE [at |-> "returned", returned |-> "invalid"]
    /\ UNCHANGED <<asking, loopThread, slot, law>>

\* The model is loaded and the slot seeded before there is a thread.
LoadLoopModel ==
    /\ starting.at = "model"
    /\ \/ /\ starting' = [at |-> "returned", returned |-> "failed"] /\ UNCHANGED slot
       \/ /\ starting' = [starting EXCEPT !.at = "spawn"]
          /\ slot' = [slot EXCEPT !.seeded = Tunable(asking)]
    /\ UNCHANGED <<asking, loopThread, law>>

SpawnLoop ==
    /\ starting.at = "spawn"
    /\ \/ /\ starting' = [at |-> "returned", returned |-> "failed"] /\ UNCHANGED loopThread
       \/ /\ starting' = [starting EXCEPT !.at = "waiting"] /\ loopThread' = "scheduling"
    /\ UNCHANGED <<asking, slot, law>>

\* The priority and the pin are both tried; only an enforcing robot minds.
ScheduleLoop(raised, pinned) ==
    /\ loopThread = "scheduling"
    /\ loopThread' = IF asking.enforce /\ ~(raised /\ pinned) THEN "unscheduled" ELSE "body"
    /\ UNCHANGED <<asking, starting, slot, law>>

\* Until its first cycle a loop that ends, or panics, has started nothing.
FirstCycle ==
    /\ loopThread = "body" /\ loopThread' = "cycling" /\ law' = GainsAsked(asking)
    /\ UNCHANGED <<asking, starting, slot>>

BodyEnds ==
    /\ loopThread \in {"body", "cycling"} /\ loopThread' = "ending"
    /\ UNCHANGED <<asking, starting, slot, law>>

\* It stores that it no longer runs, and is gone.
ThreadGoes ==
    /\ loopThread \in {"unscheduled", "ending"} /\ loopThread' = "gone"
    /\ UNCHANGED <<asking, starting, slot, law>>

\* The first cycle was announced, or the announcement can no longer come: the thread is joined.
Joins_Not == loopThread \in {"unscheduled", "ending", "gone"}
Joins == loopThread = "gone"

StartReturns ==
    /\ starting.at = "waiting" /\ (law # NoLaw \/ Joins)
    /\ starting' = [at |-> "returned", returned |-> IF law # NoLaw THEN "handle" ELSE "failed"]
    /\ UNCHANGED <<asking, loopThread, slot, law>>

\* A set of any field rebuilds the law's gains from the tuning.
RetuneIk ==
    /\ starting.returned = "handle" /\ starting.at = "returned" /\ loopThread = "cycling"
    /\ Tunable(asking) /\ slot.tunes < MaxRetuned
    /\ slot' = [slot EXCEPT !.tunes = @ + 1] /\ law' = GainsOf(TuningOf(asking))
    /\ UNCHANGED <<asking, starting, loopThread>>

StartNext ==
    \/ Check \/ LoadLoopModel \/ SpawnLoop \/ FirstCycle \/ BodyEnds \/ ThreadGoes \/ StartReturns
    \/ RetuneIk \/ \E raised, pinned \in BOOLEAN : ScheduleLoop(raised, pinned)

-----------------------------------------------------------------------------
(* A start is whole or nothing: with a handle the loop has run a cycle,    *)
(* and without one there is no loop, not even one that is still ending     *)
(* (spawn waits for the first cycle, and joins what did not get there).    *)
StartIsWhole ==
    starting.at = "returned" =>
        IF starting.returned = "handle" THEN law # NoLaw
        ELSE loopThread \in {"none", "gone"} /\ law = NoLaw

(* A tune of one field changes no other: the law keeps the gains the       *)
(* session was started with, whatever they were, until one of them is      *)
(* tuned (seed in cartesian.rs: a gains set that cannot be rebuilt has no  *)
(* live tuning).                                                           *)
TuneKeepsTheRest == law # NoLaw => law = GainsAsked(asking)

(* A posture that is accepted is one the loop may go to.                   *)
PostureIsReachable ==
    loopThread # "none" /\ asking.backend = "impedance" /\ asking.posture # NotSet =>
        TakesJoints(asking, asking.posture)
=============================================================================
