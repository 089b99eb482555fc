---------------------------- MODULE TorqueLoop ----------------------------
(***************************************************************************)
(* The torque backend of target control (franka-rs, target_control/torque, *)
(* position.rs, velocity.rs, runner.rs): the trackers that tie a generator *)
(* to an arm that may lag, be held or be moved by hand, and the envelope   *)
(* of the torques.                                                         *)
(*                                                                         *)
(* There is one axis, its limits are 0 and Top, and a cycle is one unit of *)
(* time; a quotient is rounded to zero.  On one axis the pose is the joint *)
(* and the IK's step is as long as the box allows: what it withholds it    *)
(* withholds by a pin.  External are the generator, which may plan any     *)
(* step its acceleration allows, and the arm, which goes anywhere.  Left   *)
(* out: the feedforward's filter and the live tuning.                      *)
(***************************************************************************)
EXTENDS Integers

CONSTANTS
    Top, LimitMargin, FadeBand,  \* the joint's limits, and inside its margin the barrier's onset
    SpeedAt(_),             \* VelocityLimit::at: by the distance to a limit
    Braking(_),             \* VelocityLimit::braking: by the distance to a margin
    RestBand, Leash, MaxDeviation,
    QuietCycles,            \* STALL_QUIET_CYCLES
    Dwell,                  \* landing_dwell
    SettleCycles, StopTimeout,
    Stiffness, Damping, TauMax, BarrierGain, SpringStiffness, RampCycles,
    Starts, Goals,          \* where the arm is found, and what a commander publishes
    MaxPlan, MaxTurn,       \* the generator's velocity and acceleration
    Drag,                   \* how far the arm goes in a cycle
    None

(* Each velocity limit falls toward the end it is measured from, none asks *)
(* for a step past it, and both are asked within a cycle's drag of an axis *)
(* that is wider than its margins.                                         *)
ASSUME TorqueAssumption ==
    /\ LimitMargin \in Nat /\ FadeBand \in 1..LimitMargin /\ Top \in Nat /\ 2 * LimitMargin < Top
    /\ Leash \in Nat /\ QuietCycles \in Nat /\ Dwell \in Nat /\ SettleCycles \in Nat
    /\ StopTimeout \in Nat \ {0} /\ Stiffness \in Nat /\ Damping \in Nat /\ TauMax \in Nat
    /\ BarrierGain \in Nat /\ SpringStiffness \in Nat /\ RampCycles \in Nat \ {0}
    /\ MaxPlan \in Nat /\ MaxTurn \in Nat /\ Drag \in Nat
    /\ Starts \subseteq 0..Top /\ None \notin Int
    /\ \A x \in -(LimitMargin + Drag)..Top :
         /\ SpeedAt(x) \in Nat /\ Braking(x) \in Nat
         /\ x >= 0 => SpeedAt(x) <= x /\ Braking(x) <= x
         /\ \A y \in -(LimitMargin + Drag)..x : SpeedAt(y) <= SpeedAt(x) /\ Braking(y) <= Braking(x)

VARIABLES
    interface,  \* "joint" or "pose"
    arm,        \* external: the measured position and velocity
    tracker,    \* JointAnchor, PoseAnchor
    runner,     \* Runner, with its generator
    torque      \* the loop's cycles and waited, the torque that went out, and for the properties
                \* where the goal was before

torqueVars == <<interface, arm, tracker, runner, torque>>

Axis == 0..Top
Abs(x) == IF x < 0 THEN -x ELSE x
Side(x) == IF x < 0 THEN -1 ELSE IF x = 0 THEN 0 ELSE 1
Lower(a, b) == IF b < a THEN b ELSE a
Higher(a, b) == IF a < b THEN b ELSE a
Between(x, low, high) == Higher(low, Lower(x, high))
NoWall == [side |-> 0, off |-> 0]

TorqueTypeOK ==
    /\ interface \in {"joint", "pose"} /\ arm.q \in Axis
    /\ tracker.anchored =>
         /\ {tracker.start, tracker.goal} \subseteq Axis /\ tracker.frozen \in Int \cup {None}
         /\ tracker.wall \in [side : -1..1, off : 0..QuietCycles] /\ tracker.still \in 0..Dwell
    /\ runner.v \in -MaxPlan..MaxPlan /\ runner.a \in -MaxTurn..MaxTurn
    /\ runner.cycles \in 0..StopTimeout /\ torque.tau \in -TauMax..TauMax

TorqueInit ==
    /\ interface \in {"joint", "pose"} /\ arm \in [q : Starts, dq : {0}]
    /\ tracker = [anchored |-> FALSE]
    /\ runner = [v |-> 0, a |-> 0, target |-> None, slot |-> None, stop |-> FALSE,
                 deviated |-> FALSE, cycles |-> 0, hold |-> FALSE, sent |-> 0]
    /\ torque = [cycles |-> 0, waited |-> 0, tau |-> 0, finished |-> FALSE, from |-> 0]

-----------------------------------------------------------------------------
(* Around the margins: the box of a goal's step and the envelope of the torques.                   *)
Distance(q, side) == IF side < 0 THEN q ELSE Top - q

\* cycle_box: how far a goal goes to a side, and whether position is what bounds it.
CycleBound_BrakesLate(from, side) ==
    LET x == Distance(from, side) - LimitMargin
        speed == SpeedAt(Distance(from, side))
    IN  [most |-> Lower(speed, Higher(0, x)), position |-> Braking(x) < speed]
CycleBound(from, side) ==
    LET x == Distance(from, side) - LimitMargin
        start == SpeedAt(Distance(from, side))
        speed == SpeedAt(Distance(from + side * start, side))
        braking == Braking(x - Braking(x))
    IN  [most |-> Lower(speed, Higher(0, Lower(x, braking))), position |-> braking < speed]

Boxed(from, step) == Between(step, -CycleBound(from, -1).most, CycleBound(from, 1).most)

\* The bound that cut a step: 0 none, 1 position, 2 velocity, with the side it is on.
Pin(from, step) ==
    IF Boxed(from, step) = step THEN 0
    ELSE Side(step) * IF CycleBound(from, Side(step)).position THEN 1 ELSE 2

\* JointLimits::rest
Rests(q, side) == Distance(q, side) - LimitMargin <= RestBand

Onset == LimitMargin - FadeBand

\* envelope_at, and envelope: where the velocity barrier starts, now and a cycle on.
OnsetAt(q, dq) ==
    LET s == Distance(q, IF dq < 0 THEN -1 ELSE 1)
    IN  Lower(SpeedAt(s), Braking(s - Onset))
StartAt(q, dq) ==
    LET s == Distance(q, IF dq < 0 THEN -1 ELSE 1)
    IN  Higher(0, Lower(Lower(SpeedAt(s), Braking(s - LimitMargin)), OnsetAt(q, dq) - 1))
OnsetNow(q, dq) == Lower(OnsetAt(q, dq), OnsetAt(q + dq, dq))
StartNow(q, dq) == Lower(StartAt(q, dq), StartAt(q + dq, dq))

\* fade_push, fade_toward, velocity_barrier, spring
FadePush(law, q, dq) ==
    LET start == StartNow(q, dq)
        onset == OnsetNow(q, dq)
    IN  IF law * dq <= 0 \/ Abs(dq) <= start THEN law
        ELSE IF Abs(dq) >= onset THEN 0
        ELSE Side(law) * ((Abs(law) * (onset - Abs(dq))) \div (onset - start))
FadeToward(x, q) ==
    LET s == Distance(q, IF x < 0 THEN -1 ELSE 1)
    IN  Side(x) * ((Abs(x) * Between(s - Onset, 0, FadeBand)) \div FadeBand)
Barrier(q, dq) ==
    LET excess == Abs(dq) - OnsetNow(q, dq)
    IN  IF excess > 0 THEN -Side(dq) * Lower(BarrierGain * excess, TauMax) ELSE 0
SpringPush(s, ramp) ==
    Lower((ramp * SpringStiffness * Higher(0, Onset - s)) \div RampCycles, TauMax)
Spring_Outward(q, ramp) == SpringPush(Distance(q, 1), ramp) - SpringPush(Distance(q, -1), ramp)
Spring(q, ramp) == SpringPush(Distance(q, -1), ramp) - SpringPush(Distance(q, 1), ramp)

\* impedance_torques, and the envelope around them.
Law(goal, dqGoal, m) ==
    Between(Stiffness * (goal - m.q) + Damping * (dqGoal - m.dq), -TauMax, TauMax)
Enveloped_Unbounded(law, m, ramp) ==
    FadeToward(FadePush(law, m.q, m.dq), m.q) + Barrier(m.q, m.dq) + Spring(m.q, ramp)
Enveloped(law, m, ramp) ==
    Between(FadeToward(FadePush(law, m.q, m.dq), m.q) + Barrier(m.q, m.dq) + Spring(m.q, ramp),
           -TauMax, TauMax)

-----------------------------------------------------------------------------
(* The anchor, and the runner's cycle from it.                                                     *)

\* The first call anchors the tracker on the measured state.
AnchoredAt(q) ==
    [anchored |-> TRUE, start |-> q, goal |-> q, desired |-> q, frozen |-> None, wall |-> NoWall,
     still |-> 0, closest |-> None, target |-> None, restart |-> None, blocked |-> FALSE]

\* A tool set during the session (set_frames): the desired is where the IK's goal is.
Refitted(t) ==
    [t EXCEPT !.desired = t.goal, !.wall = NoWall,
              !.frozen = IF t.frozen = None THEN None ELSE t.goal]

\* The reference pulled to within the leash of the arm; in a hold that is the frozen goal.
Reference_Goal(t) == IF interface = "joint" THEN t.goal ELSE t.desired
Reference(t) == IF t.frozen # None THEN t.frozen ELSE Reference_Goal(t)

Leashed_Never(t, q) == Reference(t)
Leashed(t, q) == Between(Reference(t), q - Leash, q + Leash)

\* The generator plans from an anchor at a velocity and an acceleration.
Plans(v, a) ==
    {p \in [v : -MaxPlan..MaxPlan, a : -MaxTurn..MaxTurn] : p.v = v + p.a /\ Abs(p.a - a) <= 1}

\* Runner::cycle
Landed(position, p, target) == position = target /\ p.v = 0 /\ p.a = 0
Steps(t, anchor, strayed) ==
    LET from == IF t.restart # None THEN t.restart ELSE [v |-> runner.v, a |-> runner.a]
        first == runner.target = None
        deviated == runner.deviated \/ strayed
        target == IF first THEN anchor
                  ELSE IF runner.deviated THEN runner.target
                  ELSE IF strayed THEN anchor ELSE runner.slot
        stopping == runner.stop \/ deviated
        Held(r) == [runner |-> r, position |-> anchor, v |-> 0, a |-> 0, hold |-> TRUE]
    IN  IF runner.hold
        THEN {Held([runner EXCEPT !.sent = Lower(@ + 1, SettleCycles + 1)])}
        ELSE {LET r == [runner EXCEPT !.v = p.v, !.a = p.a, !.target = target,
                            !.slot = IF first THEN anchor ELSE @, !.deviated = deviated,
                            !.cycles = IF stopping THEN @ + 1 ELSE @]
                  lands == \/ t.blocked /\ target = runner.target
                           \/ Landed(anchor + p.v, p, target)
              IN  IF stopping /\ (lands \/ r.cycles = StopTimeout)
                  THEN Held([r EXCEPT !.hold = TRUE, !.sent = 1])
                  ELSE [runner |-> r, position |-> anchor + p.v, v |-> p.v, a |-> p.a,
                        hold |-> FALSE]
              : p \in Plans(IF first THEN 0 ELSE from.v, IF first THEN 0 ELSE from.a)}

-----------------------------------------------------------------------------
(* The goals.  braking keeps an acceleration that does not drive v, strictly_braking one that      *)
(* stops it.                                                                                       *)
Brakes(v, a) == IF a * v > 0 THEN 0 ELSE a
StrictlyBrakes(v, a) == IF a * v < 0 THEN a ELSE 0
Share(x, part, whole) == Side(x) * Side(part) * Side(whole) * ((Abs(x) * Abs(part)) \div Abs(whole))

\* JointTracker::goal
JointGoal(t, anchor, step) ==
    IF step.hold
    THEN [t EXCEPT !.goal = anchor, !.frozen = IF @ = None THEN anchor ELSE @, !.restart = None]
    ELSE LET planned == step.position - t.goal
             went == Boxed(t.goal, planned)
             v == Share(step.v, went, planned)
         IN  [t EXCEPT
                !.goal = t.goal + went,
                !.restart = IF went = planned THEN None
                            ELSE [v |-> v, a |-> IF Abs(Pin(t.goal, planned)) = 1
                                                 THEN StrictlyBrakes(v, step.a)
                                                 ELSE Brakes(v, step.a)]]

\* Walls::update: the wall goes QuietCycles after the last push.
WallAfter(wall, pin) ==
    IF Abs(pin) = 1 THEN [side |-> pin, off |-> 0]
    ELSE IF wall.side # 0 /\ wall.off < QuietCycles THEN [wall EXCEPT !.off = @ + 1]
    ELSE NoWall

\* went_out: no faster than the step, but for a cycle of the acceleration.
WentOut(v, a, went) ==
    IF went = 0 THEN Between(v, -Abs(a), Abs(a))
    ELSE Side(went) * Lower(v * Side(went), Abs(went) + Abs(a))

\* restart_block: against a wall, after a velocity pin.
Restarted(step, plan, went, wall, out) ==
    LET n == wall.side
        v == step.v
        Into(x) == IF x * n <= 0 THEN x
                   ELSE IF plan * n > 0 /\ ~Rests(out, n) THEN Share(x, Between(went * n, 0, Abs(plan)), Abs(plan))
                   ELSE 0
    IN  IF n # 0
        THEN IF plan = went THEN [v |-> v, a |-> step.a]
             ELSE [v |-> WentOut(Into(v), Into(step.a), went), a |-> Into(step.a)]
        ELSE LET phi == IF plan = 0 THEN v ELSE Share(v, Between(went * Side(plan), 0, Abs(plan)), Abs(plan))
             IN  [v |-> phi, a |-> Brakes(phi, step.a)]

\* ahead: the anchor advanced by the goal's step, less the lead into a wall.
Ahead_WithLead(step, anchor, from, out, wall) ==
    anchor + Between(out - from, -Abs(step.position - anchor), Abs(step.position - anchor))
Ahead(step, anchor, from, out, wall) ==
    LET lead == Ahead_WithLead(step, anchor, from, out, wall) - out
    IN  out + IF lead * wall.side > 0 THEN 0 ELSE lead

\* landed, on one axis: within the tolerance of the target, or slow and beyond the wall; at a wall.
LandsAtWall(target, out, wall, v) ==
    wall.side # 0 /\ v = 0 /\ (target = out \/ (target - out) * wall.side > 0)

\* The landing's count: of cycles that came no closer to the same target.
Closer(t, target, left) == target # t.target \/ t.closest = None \/ left < t.closest

\* PoseTracker::goal
PoseGoal(t, anchor, step) ==
    LET desired == IF step.hold THEN anchor ELSE step.position
        planned == desired - t.goal
        out == t.goal + Boxed(t.goal, planned)
        pin == Pin(t.goal, planned)
        wall == WallAfter(t.wall, Side(pin) * IF Abs(pin) = 1 THEN 1 ELSE 0)
        restart == Restarted(step, step.position - anchor, out - t.goal, wall, out)
        left == Abs(step.runner.target - out)
        still == IF Closer(t, step.runner.target, left) THEN 0 ELSE Lower(t.still + 1, Dwell)
        next == [t EXCEPT !.goal = out, !.desired = desired, !.wall = wall, !.restart = None,
                          !.blocked = FALSE]
    IN  IF step.hold THEN [next EXCEPT !.frozen = IF @ = None THEN anchor ELSE @]
        ELSE IF wall.side # 0 \/ Abs(pin) = 2
        THEN [next EXCEPT
                !.desired = Ahead(step, anchor, t.goal, out, wall), !.restart = restart,
                !.target = step.runner.target, !.still = still,
                !.closest = IF still = 0 THEN left ELSE @,
                !.blocked = still >= Dwell /\ LandsAtWall(step.runner.target, out, wall, restart.v)]
        ELSE [next EXCEPT !.still = 0, !.closest = None]

-----------------------------------------------------------------------------
PublishGoal ==
    /\ runner.target # None /\ ~runner.stop
    /\ \E g \in Goals : runner' = [runner EXCEPT !.slot = g]
    /\ UNCHANGED <<interface, arm, tracker, torque>>

StopTorque ==
    /\ runner.target # None /\ ~runner.stop /\ runner' = [runner EXCEPT !.stop = TRUE]
    /\ UNCHANGED <<interface, arm, tracker, torque>>

\* TorqueLoop::cycle on a measured state; a tool may be set before it.
TorqueCycle ==
    /\ ~torque.finished
    /\ \E q \in Axis, refit \in BOOLEAN :
         LET m == [q |-> q, dq |-> q - arm.q]
             known == IF tracker.anchored THEN tracker ELSE AnchoredAt(q)
             t == IF refit THEN Refitted(known) ELSE known
             anchor == Leashed(t, q)
         IN  /\ Abs(m.dq) <= Drag /\ (refit => interface = "pose" /\ tracker.anchored)
             /\ arm' = m
             /\ \E step \in Steps(t, anchor, Abs(q - t.start) > MaxDeviation) :
                  LET next == IF interface = "joint" THEN JointGoal(t, anchor, step)
                              ELSE PoseGoal(t, anchor, step)
                      dqGoal == IF step.hold THEN 0 ELSE next.goal - t.goal
                      rests == m.dq = 0 \/ torque.waited >= StopTimeout
                      finishes == step.hold /\ step.runner.sent > SettleCycles
                  IN  /\ tracker' = next /\ runner' = step.runner
                      /\ torque' = [cycles |-> Lower(torque.cycles + 1, RampCycles),
                                    waited |-> IF finishes THEN Lower(torque.waited + 1, StopTimeout)
                                               ELSE torque.waited,
                                    tau |-> Enveloped(Law(next.goal, dqGoal, m), m, torque.cycles),
                                    finished |-> finishes /\ rests, from |-> t.goal]
    /\ UNCHANGED interface

TorqueNext == PublishGoal \/ StopTorque \/ TorqueCycle

TorqueSpec == TorqueInit /\ [][TorqueNext]_torqueVars

-----------------------------------------------------------------------------
(* However far the arm is held from where it was going, its goal is not moved away from it beyond *)
(* the leash and a cycle's step (JointTracker, PoseTracker): the stiffness has a bound.  A goal is *)
(* farther only from an arm that was taken past its margin, or faster than the goal may follow.    *)
SpringIsBounded ==
    tracker.anchored =>
      Abs(tracker.goal - arm.q) <= Higher(Leash + MaxPlan, Abs(torque.from - arm.q))

(* A goal keeps a margin from the limits; one that began inside it never goes further out, until a *)
(* hold of a joint target takes the arm where it stands (cycle_box).                               *)
GoalKeepsTheMargin ==
    tracker.anchored =>
      \/ LimitMargin <= tracker.goal /\ tracker.goal <= Top - LimitMargin
      \/ tracker.goal < LimitMargin /\ tracker.goal >= tracker.start
      \/ tracker.goal > Top - LimitMargin /\ tracker.goal <= tracker.start
      \/ interface = "joint" /\ runner.hold

(* Where a goal's step ends, the speed it had is one the robot allows there, and one it can brake *)
(* from before the margin (cycle_box), whichever way the arm, the leash and the target turn.       *)
GoalCanBrake ==
    tracker.anchored /\ ~(interface = "joint" /\ runner.hold) /\ tracker.goal # torque.from =>
      LET ahead == Distance(tracker.goal, Side(tracker.goal - torque.from))
      IN  Abs(tracker.goal - torque.from) <= Lower(SpeedAt(ahead), Braking(ahead - LimitMargin))

(* A goal that rests at a wall keeps no lead into it, however long the target pushes, and no       *)
(* velocity but that of the step it has just made: once the target turns, the goal turns at once   *)
(* (ahead, restart_block).                                                                         *)
NothingWindsUp ==
    tracker.anchored /\ tracker.wall.side # 0 /\ tracker.wall.off = 0
      /\ tracker.restart # None /\ Rests(tracker.goal, tracker.wall.side) =>
        /\ (tracker.desired - tracker.goal) * tracker.wall.side <= 0
        /\ \/ tracker.restart.v * tracker.wall.side <= 0
           \/ tracker.restart.v = tracker.goal - torque.from

(* A hold that a hand moved aside comes back to where it was taken, not to where the hand left it: *)
(* within the leash the reference is the frozen one again.                                         *)
HoldComesBack ==
    runner.hold /\ Abs(tracker.frozen - arm.q) <= Leash =>
      (IF interface = "joint" THEN tracker.goal ELSE tracker.desired) = tracker.frozen

(* Past the barrier's onset an arm that does not already turn back is never pushed outward,        *)
(* whatever the spring, the impedance and the barrier add up to (envelope.rs).                     *)
NothingPushesOut ==
    /\ Top - arm.q <= Onset /\ arm.dq >= 0 => torque.tau <= 0
    /\ arm.q <= Onset /\ arm.dq <= 0 => torque.tau >= 0
=============================================================================
