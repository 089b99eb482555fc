--------------------------- MODULE PositionStream ---------------------------
(* The generator of otg.rs and the loops of target_control that stream what it plans: every cycle  *)
(* re-anchors it on the robot's echo, plans anew to the latest target at rest, and follows the     *)
(* plan for one cycle; the rate limiter stands behind it, a stop lands it and holds the echo.      *)
(* Places, velocities and accelerations are whole; a cycle is the unit of time and of jerk.        *)
EXTENDS Integers, FiniteSets, Sequences, SequencesExt, TLC

CONSTANTS
    StreamAxes,       \* the axes of a MultiOtg, synchronised
    Far,              \* bound: no place and no distance is further
    MaxBudget,        \* bound: the largest limits, of the velocity and of the acceleration
    LongestPlan,      \* bound: the cycles of a plan
    StreamTargets,    \* bound: the targets a handle is given, each a place per axis
    MaxTargetsSet,    \* bound: how many
    MaxRetunes,       \* bound: budgets tuned into a session
    RobotLimit(_),    \* external: the robot's own velocity limit at a place of a joint
    HoldCycles,       \* Settle::cycles
    Patience          \* STOP_TIMEOUT_CYCLES

\* A bound below a place's and a least limit's is none.
ASSUME StreamAssumption == Far \in Nat /\ MaxBudget \in [v : Nat \ {0}, a : Nat \ {0}]

VARIABLES
    session,    \* the loop: pose_loop, position_loop, or a torque loop whose goal always follows
    gens,       \* MultiOtg: the state of each axis
    budget,     \* OtgLimits in force, and the ones tuned
    aim,        \* Runner::target, the slot, and how many were set
    told,       \* the last command of each axis: where, its velocity and its acceleration
    ending,     \* the stop path: asked, deviated, its cycles, the hold and its cycles, the end
    leg         \* history: from where to where undisturbed, since when, for how long, what jumped

streamVars == <<session, gens, budget, aim, told, ending, leg>>

Streams == {"pose", "joint", "torque"}
Places == -Far..Far
Limits == [v : 1..MaxBudget.v, a : 1..MaxBudget.a]

StreamTypeOK ==
    /\ session \in Streams /\ budget.now \in Limits /\ budget.tuned \in Limits
    /\ \A x \in StreamAxes : gens[x].p \in Places /\ told[x].at \in Places
    /\ ending.asked \in BOOLEAN /\ ending.deviated \in BOOLEAN
    /\ ending.end \in {"none", "ok", "deviation"}

-----------------------------------------------------------------------------
(* One axis: what a jerk of a cycle does, and the fastest plan from every state, by its cycles.    *)
Magnitude(x) == IF x < 0 THEN -x ELSE x
Direction(x) == IF x < 0 THEN -1 ELSE IF x > 0 THEN 1 ELSE 0
Restrained(x, most) == IF x > most THEN most ELSE IF x < -most THEN -most ELSE x

\* integrate, over a cycle and back: the distance left, the velocity, the acceleration.
Integrated(s, jerk) == <<s[1] - (s[2] + s[3] + jerk), s[2] + s[3] + jerk, s[3] + jerk>>
Before(t, jerk) == <<t[1] + t[2], t[2] - t[3], t[3] - jerk>>

Jerks == {-1, 0, 1}
Rest == <<0, 0, 0>>
NoPlan == LongestPlan + 1
Allowed(s, l) == Magnitude(s[1]) <= 2 * Far /\ Magnitude(s[2]) <= l.v /\ Magnitude(s[3]) <= l.a
FromWhich(states) == {Before(t, j) : t \in states, j \in Jerks}

\* fastest and the plans it bisects among: the states n cycles from rest on the target.
FastestPlans(l) ==
    FoldLeft(LAMBDA plans, n :
                 Append(plans, {s \in FromWhich(plans[n]) :
                                  Allowed(s, l) /\ \A m \in 1..n : s \notin plans[m]}),
             <<{Rest}>>, [n \in 1..LongestPlan |-> n])

\* stretched: through a lower peak, to last exactly n cycles, without passing the target.
Approaches(s, t) == t[2] * s[1] >= 0 /\ t[1] * s[1] >= 0 /\ s # Rest
StretchedPlans(l) ==
    FoldLeft(LAMBDA plans, n :
                 Append(plans, {s \in FromWhich(plans[n]) :
                                  Allowed(s, l) /\ \E j \in Jerks : Integrated(s, j) \in plans[n]
                                                                    /\ Approaches(s, Integrated(s, j))}),
             <<{Rest}>>, [n \in 1..LongestPlan |-> n])

PlansOf(table(_)) == FoldLeft(LAMBDA f, l : f @@ (l :> table(l)), <<>>, SetToSeq(Limits))
Fastest == PlansOf(FastestPlans)
Stretched == PlansOf(StretchedPlans)
PlanCycles(l, s) ==
    IF \E n \in 1..NoPlan : s \in Fastest[l][n]
    THEN (CHOOSE n \in 1..NoPlan : s \in Fastest[l][n]) - 1 ELSE NoPlan
PlanLasting(l, s, n) == s \in Stretched[l][n + 1]

\* An axis as a plan sees it, toward a goal.
Seen(g, goal) == <<goal - g.p, g.v, g.a>>
DurationOf(l, g, goal) == PlanCycles(l, Seen(g, goal))

\* set_state: re-anchored at a place, the rest clamped into the limits.
Anchored_OnItself(l, g, at) ==
    [p |-> g.p, v |-> Restrained(g.v, l.v), a |-> Restrained(g.a, l.a)]
Anchored(l, g, at) == [p |-> at, v |-> Restrained(g.v, l.v), a |-> Restrained(g.a, l.a)]

\* follow: the states one cycle of the plan may lead to; what a clamp left beyond any plan brakes.
Steered(l, g, goal, cycles, stretched) ==
    LET s == Seen(g, goal)
        fastest == PlanCycles(l, s)
        next == {Integrated(s, j) : j \in Jerks}
        on == IF stretched /\ fastest < cycles /\ PlanLasting(l, s, cycles)
              THEN {t \in next : PlanLasting(l, t, cycles - 1) /\ Approaches(s, t)}
              ELSE {t \in next : PlanCycles(l, t) = fastest - 1}
        eased == g.a - Direction(g.a)
    IN  IF s = Rest THEN {g}
        ELSE IF fastest = NoPlan
             THEN LET v == Restrained(g.v + eased, l.v) IN {[p |-> g.p + v, v |-> v, a |-> eased]}
        ELSE {[p |-> goal - t[1], v |-> t[2], a |-> t[3]] : t \in on}

\* MultiOtg::step: every axis follows its plan, stretched to the slowest one's.
Slowest(l, g, goal) ==
    LET all == {DurationOf(l, g[x], goal[x]) : x \in StreamAxes}
    IN  CHOOSE n \in all : \A m \in all : m <= n
Stepped_EachItsOwn(l, g, goal) ==
    {h \in [StreamAxes -> UNION {Steered(l, g[x], goal[x], 0, FALSE) : x \in StreamAxes}] :
       \A x \in StreamAxes : h[x] \in Steered(l, g[x], goal[x], 0, FALSE)}
Stepped(l, g, goal) ==
    LET n == Slowest(l, g, goal)
        of(x) == Steered(l, g[x], goal[x], n, n > 1 /\ n # NoPlan)
    IN  {h \in [StreamAxes -> UNION {of(x) : x \in StreamAxes}] : \A x \in StreamAxes : h[x] \in of(x)}

-----------------------------------------------------------------------------
(* The backstop: limit_rate_joint_positions and limit_rate_cartesian_pose, from what was sent.     *)
VelocityAt(at) ==
    IF session = "joint" /\ RobotLimit(at) < budget.now.v THEN RobotLimit(at) ELSE budget.now.v

\* The acceleration a distance to a velocity limit leaves.
Left(distance) == Direction(distance) * (Magnitude(distance) \div budget.now.a)

Backstopped(x, to) ==
    LET last == told[x]
        most == VelocityAt(last.at)
        least == -(IF session = "joint" THEN VelocityAt(-last.at) ELSE most)
        jerked == last.a + Restrained(to - last.at - last.v - last.a, 1)
        above == IF Left(most - last.v) < budget.now.a THEN Left(most - last.v) ELSE budget.now.a
        below == IF Left(least - last.v) > -budget.now.a THEN Left(least - last.v) ELSE -budget.now.a
        a == IF jerked < above THEN jerked ELSE above
    IN  last.at + last.v + (IF a > below THEN a ELSE below)

Command(x, to) == IF session = "torque" THEN to ELSE Backstopped(x, to)

-----------------------------------------------------------------------------
AtRest(at) == [p |-> at, v |-> 0, a |-> 0]
NoLeg == [undisturbed |-> FALSE, from |-> [x \in StreamAxes |-> 0], since |-> 0, whole |-> 0,
          jumped |-> FALSE, allowed |-> MaxBudget.a]

\* start, and the anchoring cycle: at rest where the robot is, which is the first target.
StreamInit ==
    /\ session \in Streams
    /\ gens = [x \in StreamAxes |-> AtRest(0)]
    /\ budget = [now |-> MaxBudget, tuned |-> MaxBudget, retunes |-> 0]
    /\ aim = [target |-> [x \in StreamAxes |-> 0], slot |-> [x \in StreamAxes |-> 0], set |-> 0]
    /\ told = [x \in StreamAxes |-> [at |-> 0, v |-> 0, a |-> 0]]
    /\ ending = [asked |-> FALSE, deviated |-> FALSE, cycles |-> 0, hold |-> FALSE, held |-> 0,
                 end |-> "none"]
    /\ leg = NoLeg

\* set_target: the latest counts.
SetStreamTarget ==
    /\ aim.set < MaxTargetsSet /\ ending.end = "none" /\ ~ending.asked
    /\ \E t \in StreamTargets : aim' = [aim EXCEPT !.slot = t, !.set = @ + 1]
    /\ UNCHANGED <<session, gens, budget, told, ending, leg>>

StopStream ==
    /\ ~ending.asked /\ ending.end = "none" /\ ending' = [ending EXCEPT !.asked = TRUE]
    /\ UNCHANGED <<session, gens, budget, aim, told, leg>>

\* tune, of a torque session.
TuneBudget ==
    /\ session = "torque" /\ budget.retunes < MaxRetunes /\ ending.end = "none"
    /\ \E l \in Limits : budget' = [budget EXCEPT !.tuned = l, !.retunes = @ + 1]
    /\ UNCHANGED <<session, gens, aim, told, ending, leg>>

\* slew_toward: a limit is raised in a step and lowered no faster than the next order's in force.
WalkedDown_AtOnce == budget.tuned
WalkedDown ==
    LET floor(now, by) == IF now > by THEN now - by ELSE 0
        most(a, b) == IF a > b THEN a ELSE b
    IN  [v |-> most(budget.tuned.v, floor(budget.now.v, budget.now.a)),
         a |-> most(budget.tuned.a, floor(budget.now.a, 1))]

Retuned == IF session = "torque" THEN WalkedDown ELSE budget.now

\* What becomes of the leg: it starts over where a target, a limit or the backstop meddles.
Followed(l, now, goal, next) ==
    LET fresh == [leg EXCEPT !.undisturbed = TRUE, !.from = [x \in StreamAxes |-> now[x].p], !.since = 1,
                             !.whole = Slowest(l, now, goal)]
        resting == \A x \in StreamAxes : now[x].v = 0 /\ now[x].a = 0
        moved == IF leg.undisturbed /\ goal = aim.target THEN [leg EXCEPT !.since = @ + 1]
                 ELSE IF resting THEN fresh ELSE [leg EXCEPT !.undisturbed = FALSE]
        hindered == l # budget.now \/ \E x \in StreamAxes : Command(x, next[x].p) # next[x].p
    IN  [moved EXCEPT !.undisturbed = @ /\ ~hindered /\ \E x \in StreamAxes : goal[x] # now[x].p]

Sends(to) ==
    told' = [x \in StreamAxes |->
               LET v == to[x] - told[x].at IN [at |-> to[x], v |-> v, a |-> v - told[x].v]]

AllLanded(g, goal) == \A x \in StreamAxes : g[x] = AtRest(goal[x])

\* The hold's first command: the echo of the last one.
Held_AsPlanned(next) == [x \in StreamAxes |-> next[x].p]
Held(next) == [x \in StreamAxes |-> told[x].at]

\* Runner::cycle, until the hold: the target, the guard, the anchor, the plan, the stop.
TargetCycle ==
    /\ ending.end = "none" /\ ~ending.hold
    /\ budget' = [budget EXCEPT !.now = Retuned]
    /\ \E strays \in BOOLEAN :
         LET off == ending.deviated \/ strays
             goal == IF ending.deviated THEN aim.target
                     ELSE IF strays THEN [x \in StreamAxes |-> told[x].at] ELSE aim.slot
             stopping == ending.asked \/ off
             l == Retuned
             now == [x \in StreamAxes |-> Anchored(l, gens[x], told[x].at)]
         IN  /\ strays => aim.set = MaxTargetsSet
             /\ \E next \in Stepped(l, now, goal) :
                  LET done == stopping /\ (AllLanded(next, goal) \/ ending.cycles + 1 >= Patience)
                      to == IF done THEN Held(next)
                            ELSE [x \in StreamAxes |-> Command(x, next[x].p)]
                  IN  /\ \A x \in StreamAxes : next[x].p \in Places /\ to[x] \in Places
                      /\ gens' = next /\ Sends(to)
                      /\ aim' = [aim EXCEPT !.target = goal]
                      /\ ending' = [ending EXCEPT !.deviated = off, !.hold = done,
                                                  !.cycles = IF stopping THEN @ + 1 ELSE @]
                      /\ leg' = [Followed(l, now, goal, next) EXCEPT
                                   !.jumped = done /\ ~AllLanded(next, goal),
                                   !.allowed = IF l.v < budget.now.v THEN budget.now.a + l.a ELSE l.a]
    /\ UNCHANGED session

\* The hold: the same command again, and motion_finished on the one after the window.
HoldCycle ==
    /\ ending.end = "none" /\ ending.hold
    /\ Sends([x \in StreamAxes |-> told[x].at])
    /\ ending' = [ending EXCEPT !.held = @ + 1,
                    !.end = IF ending.held + 1 < HoldCycles THEN "none"
                            ELSE IF ending.deviated THEN "deviation" ELSE "ok"]
    /\ leg' = [leg EXCEPT !.undisturbed = FALSE, !.jumped = FALSE]
    /\ UNCHANGED <<session, gens, budget, aim>>

StreamNext == SetStreamTarget \/ StopStream \/ TuneBudget \/ TargetCycle \/ HoldCycle

-----------------------------------------------------------------------------
(* A target that does not move is never passed on the way from rest.                               *)
NoOvershoot ==
    leg.undisturbed => \A x \in StreamAxes :
      Direction(aim.target[x] - leg.from[x]) * (aim.target[x] - gens[x].p) >= 0

(* A plan made anew every cycle keeps what it promised at the start: the cycles it took already    *)
(* and the ones left of the plan are the ones it had, though the axes are stretched.               *)
OnTime ==
    leg.undisturbed /\ ending.end = "none" /\ ~ending.hold =>
      leg.since + Slowest(budget.now, gens, aim.target) = leg.whole

(* Synchronised axes arrive together: while a leg goes undisturbed, no axis that had somewhere to  *)
(* go is at rest on its target while another is on its way.                                        *)
AxesArriveTogether ==
    leg.undisturbed /\ ~ending.hold =>
      LET going == {x \in StreamAxes : leg.from[x] # aim.target[x]}
      IN  \A x, y \in going : gens[x] = AtRest(aim.target[x]) => gens[y] = AtRest(aim.target[y])

(* The robot gets a command it can follow: its velocity changes by no more than the acceleration   *)
(* allowed, or by a lowered velocity limit's step besides; a stop that ran out of time may jump.   *)
StreamIsSmooth ==
    ~leg.jumped => \A x \in StreamAxes : Magnitude(told[x].a) <= leg.allowed

(* What the backstop takes off a command never adds up: the plan is at most a cycle's way ahead    *)
(* of what was sent.                                                                               *)
NoLag ==
    ~ending.hold => \A x \in StreamAxes : Magnitude(gens[x].p - told[x].at) <= MaxBudget.v
=============================================================================
