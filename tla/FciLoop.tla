------------------------------ MODULE FciLoop ------------------------------
(***************************************************************************)
(* What a control loop does with its callbacks' outputs (franka-rs,        *)
(* control_loop/, rate_limiting/, lowpass_filter.rs, control_types.rs):    *)
(* the order of the callbacks, the conversions with their filter and rate  *)
(* limiter, the command they write, and the end of the loop.               *)
(*                                                                         *)
(* A command has one axis and a cycle is one unit of time, so that a       *)
(* velocity is a difference of positions; a quotient is rounded to zero.   *)
(* An elbow is whether its sign and its value are legal.  The robot is     *)
(* external: it takes a command for its desired state unless that jumps,   *)
(* and goes on with a constant acceleration in a cycle without one.        *)
(***************************************************************************)
EXTENDS Integers

CONSTANTS
    MaxVelocity, MaxAcceleration, MaxJerk,  \* rate_limits, on one axis
    MaxTorqueRate,
    UpperAt(_),     \* JointVelocityLimitsConfig::upper_limits: at a position
    HalfUlp(_),     \* what the float32 the robot publishes may hide of a torque
    Asked,          \* the velocities callbacks ask for
    AskedTorques,
    MaxCycles,      \* bound: cycles
    MaxSkips,       \* bound: cycles without a command
    NaN

\* How far a motion gets within the bounds, and how large a torque.
Reach ==
    -MaxCycles * (2 * MaxVelocity + MaxAcceleration)..MaxCycles * (2 * MaxVelocity + MaxAcceleration)
ReachOfTorques == -MaxCycles * MaxTorqueRate - 1..MaxCycles * MaxTorqueRate + 1

(* What limit_rate_joint_velocity divides by, and takes a part of; a lower *)
(* limit is below the upper one, both are within max_velocity, and a       *)
(* motion starts where an arm may stand still; torque_rate_margin leaves   *)
(* a rate, and a float32 hides nothing of a torque of zero.                *)
ASSUME LoopAssumption ==
    /\ MaxJerk \in Nat \ {0} /\ MaxAcceleration \in Nat \ {0} /\ MaxAcceleration % MaxJerk = 0
    /\ MaxVelocity \in Nat /\ MaxTorqueRate \in Nat /\ MaxCycles \in Nat /\ MaxSkips \in Nat
    /\ Asked \subseteq Reach /\ AskedTorques \subseteq Int /\ NaN \notin Int
    /\ UpperAt(0) >= 0
    /\ \A at \in Reach :
         /\ UpperAt(at) \in Int /\ UpperAt(at) <= MaxVelocity /\ -UpperAt(-at) <= UpperAt(at)
    /\ HalfUlp(0) = 0 /\ \A tau \in ReachOfTorques : HalfUlp(tau) \in 0..MaxTorqueRate

VARIABLES
    fci,        \* the negotiated version
    motion,     \* what the motion callback gives, or "none"
    options,    \* whether there is a control callback; the zero motion; limit_rate; cutoff_frequency
    loop,       \* "start", "spinning", "ok", "error" or, by the robot, "reflex"
    initialized,    \* initialized_filter
    command,    \* motion_command and control_command
    desired,    \* external: q_d, dq_d, ddq_d (or O_T_EE_c, ...) and tau_J_d
    cycle,      \* bound: cycles, and those without a command
    sent        \* history: the elbow the robot was sent last, and whether the last cycle failed

loopVars == <<fci, motion, options, loop, initialized, command, desired, cycle, sent>>

\* What control_joint_positions, _joint_velocities, _cartesian_pose and _cartesian_velocities give.
Motions == {"JointPosition", "JointVelocity", "CartesianPosition", "CartesianVelocity"}
IsPosition == motion \in {"JointPosition", "CartesianPosition"}
IsCartesian == motion \in {"CartesianPosition", "CartesianVelocity"}

LoopTypeOK ==
    /\ fci \in {"V5", "V10"} /\ loop \in {"start", "spinning", "ok", "error", "reflex"}
    /\ motion \in Motions \cup {"none"}
    /\ command.motion \in Int /\ command.tau \in Int
    /\ {desired.at, desired.v, desired.a, desired.tau} \subseteq Int

\* control_*: a motion, or torques, or both; torques alone move a zero velocity on FCI v5.
LoopInit ==
    /\ fci \in {"V5", "V10"} /\ loop = "start" /\ initialized = FALSE
    /\ \E torques, limit \in BOOLEAN, cutoff \in {"none", "some", "illegal"} :
         \/ /\ motion \in Motions
            /\ options = [torques |-> torques, zero |-> FALSE, limit |-> limit, cutoff |-> cutoff]
         \/ /\ torques /\ motion = IF fci = "V5" THEN "JointVelocity" ELSE "none"
            /\ options = [torques |-> TRUE, zero |-> TRUE, limit |-> limit, cutoff |-> cutoff]
    /\ command = [motion |-> 0, elbow |-> "none", tau |-> 0]
    /\ desired = [at |-> 0, v |-> 0, a |-> 0, tau |-> 0]
    /\ cycle = [done |-> 0, skipped |-> 0] /\ sent = [elbow |-> "none", failed |-> FALSE]

-----------------------------------------------------------------------------
(* The filter and the rate limiter.                                                                *)
Least(a, b) == IF b < a THEN b ELSE a
Most(a, b) == IF a < b THEN b ELSE a
Clamp(x, low, high) == Most(Least(x, high), low)
Size(x) == IF x < 0 THEN -x ELSE x
Sign(x) == IF x < 0 THEN -1 ELSE 1

\* low_pass_filter, at half the gain.
FilterFails(x) == options.cutoff = "illegal" \/ (options.cutoff = "some" /\ x = NaN)
Filtered(x, last) ==
    IF options.cutoff = "some" THEN last + Sign(x - last) * (Size(x - last) \div 2) ELSE x

\* upper_limits and lower_limits of an FR3; an FER's are flat.
Upper(at) == IF fci = "V10" THEN UpperAt(at) ELSE MaxVelocity
LowerAt(at) == IF fci = "V10" THEN -UpperAt(-at) ELSE -MaxVelocity

\* The acceleration after the jerk, and what a distance to a limit leaves of the acceleration.
Jerked(v) == desired.a + Clamp(v - desired.v - desired.a, -MaxJerk, MaxJerk)
Safe(distance) == Sign(distance) * (Size(distance) \div (MaxAcceleration \div MaxJerk))

\* limit_rate_joint_velocity
LimitJoint_Abruptly(v, at) ==
    Clamp(desired.v + Clamp(Jerked(v), -MaxAcceleration, MaxAcceleration), LowerAt(at), Upper(at))
LimitJoint(v, at) ==
    desired.v + Most(Least(Jerked(v), Least(Safe(Upper(at) - desired.v), MaxAcceleration)),
                     Most(Safe(LowerAt(at) - desired.v), -MaxAcceleration))

\* limit_rate_vector3: the distance is to the limit it accelerates to.
LimitVector(v) ==
    LET a == Jerked(v)
    IN  desired.v + Sign(a) * Least(Size(a), Least(Safe(MaxVelocity - Sign(a) * desired.v),
                                                   MaxAcceleration))

Limited(v, at) == IF IsCartesian THEN LimitVector(v) ELSE LimitJoint(v, at)

\* limit_rate_torques, at what torque_rate_margin leaves of the rate.
Margin_None(tau) == 0
Margin(tau) == IF fci = "V10" /\ tau # 0 THEN HalfUlp(tau) ELSE 0

LimitTorque(x, published) ==
    LET rate == MaxTorqueRate - Margin(published)
    IN  published + Clamp(x - published, -rate, rate)

-----------------------------------------------------------------------------
(* The conversions: whether one fails, and what it writes.                                         *)

\* The first position of an FR3's motion is its own reference.
LastReference(x) == IF ~IsPosition THEN desired.v
                ELSE IF fci = "V10" /\ ~initialized THEN x ELSE desired.at
Converted(x) ==
    LET last == LastReference(x)
        value == Filtered(x, last)
    IN  IF ~options.limit THEN value
        ELSE IF IsPosition THEN last + Limited(value - last, last) ELSE Limited(value, desired.at)

\* check_finite by the filter, the limiter or validate; convert_elbow, after the motion is written.
NotAccepted(x) == FilterFails(x) \/ x = NaN
ElbowFails_NoSign(elbow) == elbow = "NaN"
ElbowFails(elbow) == elbow \in {"NaN", "sign"}

\* spin_motion and spin_control on command c; what does not return "goes" ends the loop.
Ends(out) == IF out.last THEN "last" ELSE "goes"
SpinMotion(c, out) ==
    IF motion = "none" THEN [command |-> c, ends |-> "goes"]
    ELSE IF NotAccepted(out.x) THEN [command |-> c, ends |-> "error"]
    ELSE IF ElbowFails(out.elbow) THEN [command |-> [c EXCEPT !.motion = Converted(out.x)], ends |-> "error"]
    ELSE [command |-> [c EXCEPT !.motion = Converted(out.x), !.elbow = out.elbow], ends |-> Ends(out)]
SpinControl(c, out, published) ==
    IF ~options.torques THEN [command |-> c, ends |-> "goes"]
    ELSE IF NotAccepted(out.x) THEN [command |-> c, ends |-> "error"]
    ELSE LET x == Filtered(out.x, published)
         IN  [command |-> [c EXCEPT !.tau = IF options.limit THEN LimitTorque(x, published) ELSE x],
              ends |-> Ends(out)]

\* The second callback is called only if the first goes on.
MotionFirst == fci = "V5"
Spun(out, torque, published) ==
    LET first == IF MotionFirst THEN SpinMotion(command, out)
                 ELSE SpinControl(command, torque, published)
    IN  IF first.ends # "goes" THEN first
        ELSE IF MotionFirst THEN SpinControl(first.command, torque, published)
        ELSE SpinMotion(first.command, out)

-----------------------------------------------------------------------------
\* The callbacks' outputs: near the robot's position, or a velocity.
MotionOutputs ==
    [x : IF options.zero THEN {0}
         ELSE {NaN} \cup {(IF IsPosition THEN desired.at ELSE 0) + v : v \in Asked},
     elbow : IF IsCartesian THEN {"none", "legal", "sign", "NaN"} ELSE {"none"},
     last : IF options.zero THEN {FALSE} ELSE BOOLEAN]
TorqueOutputs ==
    IF options.torques THEN [x : AskedTorques \cup {NaN}, last : BOOLEAN] ELSE {[x |-> 0, last |-> FALSE]}

\* External: tau_J_d as it is published; the desired state of a command, and what jumps; a cycle
\* without a command.
Published ==
    IF fci = "V5" THEN {desired.tau}
    ELSE {p \in (desired.tau - 1)..(desired.tau + 1) : Size(p - desired.tau) <= HalfUlp(p)}
Taken(c) ==
    LET v == IF motion = "none" THEN 0 ELSE IF IsPosition THEN c.motion - desired.at ELSE c.motion
    IN  [at |-> desired.at + v, v |-> v, a |-> v - desired.v, tau |-> c.tau]
TooFast(d) ==
    \/ Size(d.v) > MaxVelocity
    \/ ~IsCartesian /\ d.v > Most(desired.v, Upper(desired.at))
    \/ ~IsCartesian /\ d.v < Least(desired.v, LowerAt(desired.at))
Jolts(d) == Size(d.a) > MaxAcceleration \/ Size(d.a - desired.a) > MaxJerk
TorqueJumps(d) == Size(d.tau - desired.tau) > MaxTorqueRate
Jumps(d) == TooFast(d) \/ Jolts(d) \/ TorqueJumps(d)
Coasts(d) == [d EXCEPT !.at = @ + d.v + d.a, !.v = @ + d.a]

\* run_inner up to the first state, with no command; it may be an error of the motion.
StartLoop ==
    /\ loop = "start" /\ loop' \in {"spinning", "error"}
    /\ UNCHANGED <<fci, motion, options, initialized, command, desired, cycle, sent>>

Cycle ==
    /\ loop = "spinning" /\ cycle.done < MaxCycles
    /\ \E out \in MotionOutputs, torque \in TorqueOutputs, published \in Published :
         LET spun == Spun(out, torque, published)
             taken == Taken(spun.command)
         IN  /\ command' = spun.command
             /\ initialized' = TRUE
             /\ loop' = IF spun.ends = "error" THEN "error" ELSE IF spun.ends = "last" THEN "ok"
                        ELSE IF Jumps(taken) THEN "reflex" ELSE "spinning"
             /\ sent' = [elbow |-> IF spun.ends = "error" THEN sent.elbow ELSE spun.command.elbow,
                         failed |-> spun.ends = "error"]
             /\ \E skipped \in 0..(IF loop' = "spinning" THEN MaxSkips - cycle.skipped ELSE 0) :
                  /\ cycle' = [done |-> cycle.done + 1, skipped |-> cycle.skipped + skipped]
                  /\ desired' = IF loop' # "spinning" THEN desired
                                ELSE IF skipped = 0 THEN taken ELSE Coasts(taken)
    /\ UNCHANGED <<fci, motion, options>>

LoopNext == StartLoop \/ Cycle

LoopSpec == LoopInit /\ [][LoopNext]_loopVars

-----------------------------------------------------------------------------
\* The limits where an FR3's joint is are others than those of the cycle before.
LimitsMoved ==
    LET before == desired.at - desired.v
    IN  ~IsCartesian /\ (Upper(desired.at) # Upper(before) \/ LowerAt(desired.at) # LowerAt(before))

(* With limit_rate the robot finds no jump in what it is sent, from any    *)
(* callback and through the filter, in velocity, acceleration, jerk or     *)
(* torque, also where a float32 hides what the last torque was; but in the *)
(* first position of an FR3's motion, which is its own reference, and      *)
(* after a cycle without a command.  While an FR3's limits move with its   *)
(* joint the acceleration may jump, since the room that the jerk leaves is *)
(* that of the limit as it was; what is sent is not too fast even then.    *)
LimiterPreventsReflex ==
    loop = "reflex" /\ options.limit =>
      \/ cycle.skipped > 0
      \/ fci = "V10" /\ IsPosition /\ cycle.done = 1
      \/ LET d == Taken(command)
         IN  LimitsMoved /\ ~TooFast(d) /\ ~TorqueJumps(d)

(* No motion goes out with an elbow that is none, although the pose of the *)
(* failed cycle was written to the command before its elbow was looked at. *)
OnlyChecked == sent.elbow \in {"none", "legal"} /\ (sent.failed => loop = "error")
=============================================================================
