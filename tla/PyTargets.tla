------------------------------ MODULE PyTargets ------------------------------
(***************************************************************************)
(* The streamer of a target session of the Python client (_targets.py):    *)
(* it paces a goal into targets, the node accepts or refuses each, and     *)
(* what the node made of them comes back as states that are old when they  *)
(* arrive.  Targets and states are lost.                                   *)
(*                                                                         *)
(* A pose is one whole number.  The sequence numbers are kept up to what   *)
(* `wait` tells apart: an era begins where the goal changes and where the  *)
(* first target equal to the goal is sent, so that one number is at least  *)
(* another's first of its era exactly if its era is.                       *)
(***************************************************************************)
EXTENDS Integers, Sequences, FiniteSets

CONSTANTS
    Line,        \* the places of the arm
    StepCap,     \* JOINT_STEP_CAP, or max_velocity / rate if that is less
    Lead,        \* lead of a Cartesian session, which the node bounds too
    JointLead,   \* lead of a joints session, which is the client's own
    NodeStep,    \* the node's max_step, max_step_joint; its max_lead is as large
    Rows,        \* the chunks a user follows
    MaxGoals,    \* bound: calls of the user
    MaxLost,     \* bound: targets the network loses
    NoGoalSeq

ASSUME LeadAssumption ==
    /\ {StepCap, Lead, JointLead} \subseteq Nat /\ StepCap <= NodeStep /\ Lead <= NodeStep

\* The arm starts at 0, and a place between two is one; a chunk has a row.
ASSUME LineAssumption ==
    /\ Line \subseteq Int /\ 0 \in Line /\ (\A a, b \in Line : a..b \subseteq Line)
    /\ (\A rows \in Rows : rows \in Seq(Line) /\ rows # <<>>) /\ MaxGoals \in Nat /\ NoGoalSeq \notin Nat

VARIABLES
    joints,      \* _kind = "joints"
    current,     \* _current: the last target sent
    aim,         \* _goal
    goalSeq,     \* _goal_seq, its era
    chunk,       \* _chunk: the rows not reached yet
    era,         \* the era of the next target, where the aim was set, and whether it was sent
    latest,      \* arm._latest; refused: it counts more refusals than _refused
    inflight,    \* external: targets on the network
    nodeSide,    \* external: the node's guard, and the arm; refused: more refusals than in latest
    budget       \* bounds

targetsVars == <<joints, current, aim, goalSeq, chunk, era, latest, inflight,
                 nodeSide, budget>>

Eras == 0..(2 * MaxGoals + 2)
States == [target : Line, at : Line, accepted : Eras, refused : BOOLEAN]

TargetsTypeOK ==
    /\ joints \in BOOLEAN /\ current \in Line /\ aim \in Line
    /\ goalSeq \in Eras \cup {NoGoalSeq} /\ era.next \in Eras /\ era.of \in Eras
    /\ latest \in States /\ nodeSide \in States
    /\ \A i \in DOMAIN inflight : inflight[i].to \in Line

\* _start: the session is active, and its first state gives the first target and the first goal.
TargetsInit ==
    /\ joints \in BOOLEAN /\ current = 0 /\ aim = 0 /\ goalSeq = NoGoalSeq /\ chunk = <<>>
    /\ era = [next |-> 1, of |-> 1]
    /\ nodeSide = [target |-> 0, at |-> 0, accepted |-> 0, refused |-> FALSE]
    /\ latest = nodeSide /\ inflight = <<>>
    /\ budget = [goals |-> MaxGoals, lost |-> MaxLost, pushes |-> 1]

-----------------------------------------------------------------------------
\* toward: b, or the point d from a on the way to it; np.clip.
Toward(a, b, d) == IF b > a + d THEN a + d ELSE IF b < a - d THEN a - d ELSE b

\* joint_step, cartesian_step
Stepped(from, state) ==
    LET led == Toward(state.at, Toward(from, aim, StepCap),
                      IF joints THEN JointLead ELSE Lead)
    IN  IF joints THEN Toward(from, led, StepCap) ELSE led

\* _note_refusals: a joint target that was refused leaves the node where its own target is.
Resumed_Onward == current
Resumed == IF joints /\ latest.refused THEN latest.target ELSE current

\* _set_goal_locked. An era whose targets were all sent before the goal is over.
GoalIs_SeqKept(g) ==
    /\ aim' = g /\ era' = IF g = aim THEN era ELSE [next |-> era.next + 1, of |-> era.next + 1]
    /\ UNCHANGED goalSeq
GoalIs(g) ==
    IF g = aim THEN UNCHANGED <<aim, goalSeq, era>>
    ELSE aim' = g /\ goalSeq' = NoGoalSeq /\ era' = [next |-> era.next + 1, of |-> era.next + 1]

\* move_to, move_by: cancels a chunk.
MoveTo ==
    \E g \in Line :
      /\ budget.goals > 0 /\ budget' = [budget EXCEPT !.goals = @ - 1] /\ g # aim
      /\ chunk' = <<>> /\ GoalIs(g)
      /\ UNCHANGED <<joints, current, latest, inflight, nodeSide>>

\* follow: its first row is the goal at once.
Follows ==
    \E rows \in Rows :
      /\ budget.goals >= Len(rows) /\ budget' = [budget EXCEPT !.goals = @ - Len(rows)]
      /\ chunk' = Tail(rows) /\ GoalIs(Head(rows))
      /\ UNCHANGED <<joints, current, latest, inflight, nodeSide>>

\* _advance_chunk: by the clock, so a late cycle skips rows. The last row ends the chunk.
AdvanceChunk ==
    /\ chunk # <<>>
    /\ \E i \in DOMAIN chunk : chunk' = SubSeq(chunk, i + 1, Len(chunk)) /\ GoalIs(chunk[i])
    /\ UNCHANGED <<joints, current, latest, inflight, nodeSide, budget>>

\* A cycle of _stream: _note_refusals, _step, the sequence number, the put. (_advance_chunk is
\* part of the cycle and nothing comes between; a chunk's clock makes it a choice of its own.)
\* Bound: one target waits on the network.
Cycle ==
    /\ inflight = <<>>
    /\ LET next == Stepped(Resumed, latest)
           first == goalSeq = NoGoalSeq /\ next = aim
           e == IF first THEN era.next + 1 ELSE era.next
       IN  /\ current' = next
           /\ goalSeq' = IF first THEN e ELSE goalSeq
           /\ era' = [era EXCEPT !.next = e]
           /\ inflight' = Append(inflight, [to |-> next, era |-> e])
    /\ latest' = [latest EXCEPT !.refused = FALSE]
    /\ UNCHANGED <<joints, aim, chunk, nodeSide, budget>>

\* _wait's poll: the chunk is over, a target of the goal is behind the accepted one, and the arm is
\* within the tolerance, which is nothing here.
Arrived ==
    /\ chunk = <<>> /\ goalSeq # NoGoalSeq
    /\ latest.accepted >= goalSeq /\ latest.at = aim

-----------------------------------------------------------------------------
(* External: the node's guard, which takes a target near its last one, and a Cartesian one,      *)
(* always anchored, near the arm; the arm; the network.                                           *)
Near(m) == LET from == IF joints THEN nodeSide.target ELSE nodeSide.at
           IN  m.to - from \in (-NodeStep)..NodeStep

NodeTakes ==
    /\ inflight # <<>> /\ inflight' = Tail(inflight)
    /\ LET m == Head(inflight)
       IN  nodeSide' = IF Near(m) THEN [nodeSide EXCEPT !.target = m.to, !.accepted = m.era]
                       ELSE [nodeSide EXCEPT !.refused = TRUE]
    /\ UNCHANGED <<joints, current, aim, goalSeq, chunk, era, latest, budget>>

TargetLost ==
    /\ inflight # <<>> /\ budget.lost > 0 /\ budget' = [budget EXCEPT !.lost = @ - 1]
    /\ inflight' = Tail(inflight)
    /\ UNCHANGED <<joints, current, aim, goalSeq, chunk, era, latest, nodeSide>>

ArmMoves ==
    /\ nodeSide.at # nodeSide.target
    /\ nodeSide' = [nodeSide EXCEPT !.at = Toward(@, nodeSide.target, 1)]
    /\ UNCHANGED <<joints, current, aim, goalSeq, chunk, era, latest, inflight,
                   budget>>

HandMoves ==
    /\ budget.pushes > 0 /\ budget' = [budget EXCEPT !.pushes = @ - 1]
    /\ \E p \in Line \ {nodeSide.at} : nodeSide' = [nodeSide EXCEPT !.at = p]
    /\ UNCHANGED <<joints, current, aim, goalSeq, chunk, era, latest, inflight>>

\* arm._on_sample, of a state of any age: the states between are lost.
TargetStateArrives ==
    /\ latest # nodeSide
    /\ latest' = [nodeSide EXCEPT !.refused = @ \/ latest.refused]
    /\ nodeSide' = [nodeSide EXCEPT !.refused = FALSE]
    /\ UNCHANGED <<joints, current, aim, goalSeq, chunk, era, inflight, budget>>

TargetsNext ==
    \/ MoveTo \/ Follows \/ AdvanceChunk \/ Cycle
    \/ NodeTakes \/ TargetLost \/ ArmMoves \/ HandMoves \/ TargetStateArrives

\* The streamer's clock, and a node and a network that go on.
TargetsFairness ==
    /\ WF_targetsVars(Cycle) /\ WF_targetsVars(AdvanceChunk) /\ WF_targetsVars(NodeTakes)
    /\ WF_targetsVars(ArmMoves) /\ WF_targetsVars(TargetStateArrives)

TargetsSpec == TargetsInit /\ [][TargetsNext]_targetsVars /\ TargetsFairness

-----------------------------------------------------------------------------
(* wait returns for the goal there is: the accepted target it goes by was  *)
(* sent after that goal was set, not on the way through the same place to  *)
(* an older one (_set_goal_locked, _wait).                                 *)
WaitIsForThisGoal == Arrived => latest.accepted >= era.of

(* The stream gets through: whatever the network lost and the node refused *)
(* for it, the node's target becomes the last goal, and stays it           *)
(* (_note_refusals: without it a joint session that lost a few targets     *)
(* would be refused for ever).                                             *)
StreamGetsThrough == <>[](nodeSide.target = aim)
=============================================================================
