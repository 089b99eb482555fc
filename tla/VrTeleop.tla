------------------------------ MODULE VrTeleop ------------------------------
(***************************************************************************)
(* One Quest controller drives one arm (tools/vr-teleop: teleop.py's loop  *)
(* and pipeline, and the Zenoh side of sinks.py), against the node's arm   *)
(* and another client of it.                                               *)
(*                                                                         *)
(* Poses are left out: a sample is what the rules tell apart, a target is  *)
(* the session of the node it starts from, and whether the hand and the    *)
(* arm are in step is a history, kept from the samples and not from the    *)
(* flags the code keeps.                                                   *)
(***************************************************************************)
EXTENDS Integers, FiniteSets

CONSTANTS
    MaxRecoveries,  \* --max-recoveries
    MaxFaults,      \* bound: faults of the arm
    MaxOddStates,   \* bound: changes of what a state says of the joints, or of its age
    NoTarget

ASSUME TeleopAssumption == MaxRecoveries \in Nat

VARIABLES
    does,        \* what the loop does next
    armed, tripped, needRelatch, prevEngaged,      \* the fields of Teleop of these names
    held,        \* t < hold_until
    quiet,       \* the source has been silent for source_timeout_ms
    lastTarget,  \* last_target: the session it starts from
    armState,      \* ZenohSink.latest and info: the last state received, and its age
    enabled,     \* ZenohSink.enabled
    recoveries,  \* how many entries of `recoveries`
    put,         \* what this step has published
    sample,      \* the sample of this turn, if it has one
    arm,         \* external: the node's arm
    lives,       \* --dq-latch, and the bounds
    gap, released, calm     \* histories; see below

vrVars == <<does, armed, tripped, needRelatch, prevEngaged, held, quiet, lastTarget, armState,
            enabled, recoveries, put, sample, arm, lives, gap, released, calm>>
flags == <<armed, tripped, needRelatch, prevEngaged>>
histories == <<gap, released, calm>>

WireSamples ==
    {"undecodable", "insane", "not fresh", "jump"} \cup {"released", "engaged"}
Ages == {"fresh", "stale", "lost"}
Speeds == {"slow", "mid", "fast"}
ArmStates ==
    [phase : {"idle", "acquired", "active", "faulted"}, holder : {"none", "me", "other"},
     session : 0..(MaxRecoveries + 1)]

VrTypeOK ==
    /\ does \in {"poll", "advance", "wire", "wire speed", "wire drive", "advance again", "keepalive", "fault", "recover",
                 "await clean", "acquire", "enable", "await active", "stop", "release", "end"}
    /\ {armed, tripped, needRelatch, prevEngaged, held, quiet, enabled} \subseteq BOOLEAN
    /\ lastTarget \in 0..(MaxRecoveries + 1) \cup {NoTarget}
    /\ armState.of \in ArmStates /\ armState.age \in Ages /\ armState.dq \in Speeds
    /\ armState.finite \in BOOLEAN /\ recoveries \in 0..MaxRecoveries /\ arm \in ArmStates
    /\ put \in {"none", "drive", "dq_hold", "keepalive"}

\* After start: bring_up saw an Active state.
VrInit ==
    /\ does = "poll" /\ armed = FALSE /\ tripped = FALSE /\ needRelatch = TRUE
    /\ prevEngaged = FALSE /\ held = FALSE /\ quiet = FALSE /\ lastTarget = NoTarget
    /\ arm = [phase |-> "active", holder |-> "me", session |-> 1]
    /\ armState = [of |-> arm, age |-> "fresh", dq |-> "slow", finite |-> TRUE]
    /\ enabled = TRUE /\ recoveries = 0 /\ put = "none" /\ sample = "none"
    /\ lives \in [dqLatch : BOOLEAN, faults : {MaxFaults}, odd : {MaxOddStates}]
    /\ gap = TRUE /\ released = FALSE /\ calm = TRUE

-----------------------------------------------------------------------------
\* fresh_state: RULE 7. recoverable, fault, state_lost.
FreshState == armState.age = "fresh" /\ armState.finite
Recoverable == enabled /\ armState.of.phase = "faulted" /\ armState.of.holder = "me"
Fault == enabled /\ (armState.of.holder = "other" \/ armState.of.phase # "active")
StateLost == armState.age = "lost"

\* publish: nothing on a Faulted arm. A target without one before it starts from the latest state.
Publish(why, seed) ==
    IF Recoverable THEN put' = "none" /\ lastTarget' = seed
    ELSE put' = why /\ lastTarget' = IF seed = NoTarget THEN armState.of.session ELSE seed
PutsNothing == put' = "none" /\ UNCHANGED lastTarget

\* disarm, and what it and the release of a fast joint break.
Disarm == needRelatch' = TRUE /\ prevEngaged' = FALSE /\ armed' = FALSE
Broken == gap' = TRUE /\ released' = FALSE

\* joint_speed: RULE 6, on the latest state.
Trips == FreshState /\ armState.dq = "fast" /\ ~tripped
Resumes == FreshState /\ tripped /\ ~lives.dqLatch /\ armState.dq = "slow"

JointSpeed(seed) ==
    \/ /\ Trips /\ tripped' = TRUE /\ Publish("dq_hold", seed) /\ calm' = FALSE /\ Broken
       /\ UNCHANGED <<armed, needRelatch, prevEngaged>>
    \/ /\ Resumes /\ tripped' = FALSE /\ Disarm /\ calm' = TRUE /\ Broken
       /\ put' = "none" /\ lastTarget' = seed
    \/ ~Trips /\ ~Resumes /\ put' = "none" /\ lastTarget' = seed /\ UNCHANGED <<flags, histories>>

\* advance: the seed of the keepalive, then the joints' speed. The limits and the parameters that
\* other threads left are applied here too, and none is about driving or not.
Seeded == IF lastTarget = NoTarget /\ armState.finite THEN armState.of.session ELSE lastTarget
Advance(next) ==
    /\ does' = next /\ JointSpeed(Seeded)
    /\ UNCHANGED <<held, quiet, armState, enabled, recoveries, sample, arm, lives>>

\* poll: a sample, or none.
Poll ==
    /\ does = "poll" /\ put' = "none"
    /\ \/ \E s \in WireSamples : sample' = s /\ does' = "advance"
       \/ sample' = "none" /\ does' = "advance again"
    /\ UNCHANGED <<flags, held, quiet, lastTarget, armState, enabled, recoveries, arm, lives,
                   histories>>

AdvanceSample == does = "advance" /\ Advance("wire")
AdvanceTurn == does = "advance again" /\ Advance("keepalive")

-----------------------------------------------------------------------------
(* on_wire: a sample's own sanity; the joints' speed once more, on a state newer than advance's;   *)
(* then the rules that read the arm, in their order. States arrive between the three.              *)

\* What a refusal leaves: need_relatch, prev_engaged, armed.
Refuse(relatch, engaged, arms) ==
    needRelatch' = relatch /\ prevEngaged' = engaged /\ armed' = arms /\ PutsNothing
KeepsFlags == Refuse(needRelatch, prevEngaged, armed)

\* RULE 1: a dropout of the tracking.
NotFresh_Unlatched == KeepsFlags
NotFresh == Refuse(TRUE, FALSE, armed)

\* The grip of a jump of the hand is either.
Grips == IF sample = "jump" THEN {"released", "engaged"} ELSE {sample}

OnWire ==
    /\ does = "wire" /\ quiet' = FALSE
    /\ \/ sample = "undecodable" /\ KeepsFlags /\ does' = "advance again" /\ UNCHANGED histories
       \/ /\ sample \in {"insane", "not fresh"} /\ does' = "advance again"
          /\ IF sample = "insane" THEN Refuse(TRUE, prevEngaged, armed) ELSE NotFresh
          /\ gap' = TRUE /\ UNCHANGED <<released, calm>>
       \/ /\ sample \in {"jump", "released", "engaged"}
          /\ \E grip \in Grips :
               \/ ~armed /\ grip = "engaged" /\ KeepsFlags /\ does' = "advance again"
                  /\ UNCHANGED histories
               \/ /\ armed \/ grip = "released"
                  /\ Refuse(needRelatch, prevEngaged, TRUE) /\ does' = "wire speed"
                  /\ released' = (released \/ grip = "released") /\ UNCHANGED <<gap, calm>>
    /\ UNCHANGED <<tripped, held, armState, enabled, recoveries, sample, arm, lives>>

OnWireSpeed ==
    /\ does = "wire speed" /\ does' = "wire drive" /\ JointSpeed(lastTarget)
    /\ UNCHANGED <<held, quiet, armState, enabled, recoveries, sample, arm, lives>>

\* RULE 7: without a fresh state the grip must be released again.
NoState_StaysArmed == Refuse(TRUE, FALSE, armed)
NoState == Refuse(TRUE, FALSE, FALSE)

\* RULE 2, and a driven target, which latches the clutch at a rising edge.
Drive == IF sample = "engaged"
         THEN prevEngaged' = TRUE /\ Publish("drive", lastTarget) /\ UNCHANGED <<needRelatch, armed>>
         ELSE Refuse(needRelatch, FALSE, armed)

\* RULE 3: a latch opens the hand's hold, after a relatch and after a jump.
OnWireDrive ==
    /\ does = "wire drive" /\ does' = "advance again"
    /\ IF tripped THEN KeepsFlags /\ gap' = TRUE /\ UNCHANGED <<held, released>>
       ELSE IF ~FreshState THEN NoState /\ Broken /\ UNCHANGED held
       ELSE IF needRelatch \/ sample = "jump"
            THEN Refuse(FALSE, FALSE, armed) /\ held' = TRUE /\ gap' = TRUE /\ UNCHANGED released
       ELSE IF held
            THEN Refuse(needRelatch, FALSE, armed) /\ gap' = TRUE /\ UNCHANGED <<held, released>>
       ELSE /\ Drive /\ UNCHANGED <<held, released>>
            /\ gap' = (sample = "released" \/ (gap /\ prevEngaged))
    /\ UNCHANGED <<tripped, quiet, armState, enabled, recoveries, sample, arm, lives, calm>>

-----------------------------------------------------------------------------
\* keepalive: not for a source that has gone quiet. The pace is left out: it is due, or not yet.
Keepalive ==
    /\ does = "keepalive" /\ does' = "fault"
    /\ \/ lastTarget # NoTarget /\ ~quiet /\ Publish("keepalive", lastTarget)
       \/ PutsNothing
    /\ UNCHANGED <<flags, held, quiet, armState, enabled, recoveries, sample, arm, lives, histories>>

\* The end of a turn of run.
FaultCheck ==
    /\ does = "fault" /\ PutsNothing
    /\ does' = IF Fault /\ Recoverable /\ recoveries < MaxRecoveries THEN "recover"
               ELSE IF Fault \/ StateLost THEN "stop" ELSE "poll"
    /\ UNCHANGED <<flags, held, quiet, armState, enabled, recoveries, sample, arm, lives, histories>>

\* disarm, but a latched release stays.
Disarmed_LatchLost == tripped' = FALSE
Disarmed == tripped' = (tripped /\ lives.dqLatch)

Recover ==
    /\ does = "recover" /\ does' = "await clean" /\ PutsNothing
    /\ Disarm /\ Disarmed /\ enabled' = FALSE /\ recoveries' = recoveries + 1
    /\ Broken /\ calm' = (calm \/ ~lives.dqLatch)
    /\ UNCHANGED <<held, quiet, armState, sample, arm, lives>>

\* A query without an answer is no failure: the state decides. It fails after RECOVER_WAIT_S.
AwaitClean ==
    /\ does = "await clean" /\ PutsNothing
    /\ \/ armState.of.phase = "idle" /\ does' = "acquire"
       \/ does' = "stop"
    /\ UNCHANGED <<flags, held, quiet, armState, enabled, recoveries, sample, arm, lives, histories>>

\* _enable: a verb that is refused, or without an answer, ends the session.
AcquireVerb ==
    /\ does = "acquire" /\ PutsNothing
    /\ \/ /\ arm.phase \in {"idle", "acquired"} /\ arm.holder # "other"
          /\ arm' = [arm EXCEPT !.phase = "acquired", !.holder = "me"] /\ does' = "enable"
       \/ does' = "stop" /\ UNCHANGED arm
    /\ UNCHANGED <<flags, held, quiet, armState, enabled, recoveries, sample, lives, histories>>

EnableVerb ==
    /\ does = "enable" /\ PutsNothing
    /\ \/ /\ arm.phase = "acquired" /\ arm.holder = "me" /\ enabled' = TRUE
          /\ arm' = [arm EXCEPT !.phase = "active", !.session = @ + 1] /\ does' = "await active"
       \/ does' = "stop" /\ UNCHANGED <<arm, enabled>>
    /\ UNCHANGED <<flags, held, quiet, armState, recoveries, sample, lives, histories>>

\* The node's new loop has a target of its own.
SeedOfNewSession_Kept == UNCHANGED lastTarget
SeedOfNewSession == lastTarget' = NoTarget

AwaitActive ==
    /\ does = "await active" /\ put' = "none"
    /\ \/ armState.of.phase = "active" /\ does' = "poll" /\ SeedOfNewSession
       \/ does' = "stop" /\ UNCHANGED lastTarget
    /\ UNCHANGED <<flags, held, quiet, armState, enabled, recoveries, sample, arm, lives, histories>>

\* stop: not on an arm that reads Faulted, which refuses it. Then release, then the session goes,
\* and the lease token with it.
StopArm ==
    /\ does = "stop" /\ does' = "release" /\ PutsNothing
    /\ arm' \in IF enabled /\ armState.of.phase # "faulted" /\ arm.phase = "active"
                THEN {arm, [arm EXCEPT !.phase = "acquired"]} ELSE {arm}
    /\ UNCHANGED <<flags, held, quiet, armState, enabled, recoveries, sample, lives, histories>>

Close_TokenKept == arm' = arm
Close ==
    arm' = IF arm.holder # "me" THEN arm
           ELSE [arm EXCEPT !.holder = "none", !.phase = IF @ = "faulted" THEN @ ELSE "idle"]

ReleaseVerb ==
    /\ does = "release" /\ does' = "end" /\ PutsNothing /\ Close
    /\ UNCHANGED <<flags, held, quiet, armState, enabled, recoveries, sample, lives, histories>>

LoopNext ==
    \/ Poll \/ AdvanceSample \/ AdvanceTurn \/ OnWire \/ OnWireSpeed \/ OnWireDrive \/ Keepalive \/ FaultCheck \/ Recover
    \/ AwaitClean \/ AcquireVerb \/ EnableVerb \/ AwaitActive \/ StopArm \/ ReleaseVerb

-----------------------------------------------------------------------------
(* External: time, the states, the arm. None of these publishes.                                   *)
HoldEnds ==
    /\ held /\ held' = FALSE /\ PutsNothing
    /\ UNCHANGED <<does, flags, quiet, armState, enabled, recoveries, sample, arm, lives, histories>>

SourceQuiet ==
    /\ ~quiet /\ does = "poll" /\ quiet' = TRUE /\ PutsNothing
    /\ UNCHANGED <<does, flags, held, armState, enabled, recoveries, sample, arm, lives, histories>>

\* _on_state, on Zenoh's thread, at any point of a turn; a joint that is not fast is slow again.
VrStateArrives ==
    /\ \/ armState' = [of |-> arm, age |-> "fresh", dq |-> "slow", finite |-> TRUE]
            /\ armState' # armState /\ UNCHANGED lives
       \/ /\ lives.odd > 0 /\ lives' = [lives EXCEPT !.odd = @ - 1]
          /\ \E speed \in Speeds, finite \in BOOLEAN :
               /\ speed # "slow" \/ ~finite
               /\ armState' = [of |-> arm, age |-> "fresh", dq |-> speed, finite |-> finite]
    /\ PutsNothing
    /\ UNCHANGED <<does, flags, held, quiet, enabled, recoveries, sample, arm, histories>>

StatesStop ==
    /\ lives.odd > 0 /\ lives' = [lives EXCEPT !.odd = @ - 1]
    /\ armState.age # "lost" /\ PutsNothing
    /\ armState' = [armState EXCEPT !.age = IF @ = "fresh" THEN "stale" ELSE "lost"]
    /\ UNCHANGED <<does, flags, held, quiet, enabled, recoveries, sample, arm, histories>>

ArmActs ==
    /\ \/ /\ arm.phase = "active" /\ lives.faults > 0
          /\ arm' = [arm EXCEPT !.phase = "faulted"] /\ lives' = [lives EXCEPT !.faults = @ - 1]
       \/ /\ arm.phase = "faulted" /\ does \in {"await clean", "end"}
          /\ arm' = [arm EXCEPT !.phase = "idle"] /\ UNCHANGED lives
       \/ /\ arm.phase = "active" /\ quiet
          /\ arm' = [arm EXCEPT !.phase = "acquired"] /\ UNCHANGED lives
       \/ /\ arm.phase = "idle" /\ arm.holder = "none"
          /\ arm' = [arm EXCEPT !.phase = "acquired", !.holder = "other"] /\ UNCHANGED lives
    /\ PutsNothing
    /\ UNCHANGED <<does, flags, held, quiet, armState, enabled, recoveries, sample, histories>>

VrNext == LoopNext \/ HoldEnds \/ SourceQuiet \/ VrStateArrives \/ StatesStop \/ ArmActs

\* One thread runs the loop, and every wait of it has a timeout; the arm's states go on.
VrFairness == WF_vrVars(LoopNext) /\ WF_vrVars(VrStateArrives)

VrSpec == VrInit /\ [][VrNext]_vrVars /\ VrFairness

-----------------------------------------------------------------------------
(* The arm follows the hand only while the two are in step: since whatever *)
(* broke the hand's motion or the arm's -- a dropout, a jump, a stale or   *)
(* broken state, a fast joint, a recovery -- the grip was released,        *)
(* squeezed, and the clutch latched anew (RULES 1, 2, 3, 6 and 7).         *)
DrivesInStep == put = "drive" => ~gap /\ released

(* A fast joint ends driving until every joint is slow, and with           *)
(* --dq-latch for the session, recoveries included (RULE 6, recover).      *)
FastJointHolds == put = "drive" => calm

(* Every target starts from the target of the session it goes to: one of   *)
(* the session before a fault would be a jump for the node's new loop      *)
(* (recover, advance).                                                     *)
TargetsOfThisSession == put # "none" => lastTarget = armState.of.session

(* A faulted arm is driven again or given back: recoveries run out, and     *)
(* every verb of one may be refused or have no answer (run, recover, stop). *)
FaultIsSettled ==
    arm.phase = "faulted" ~> arm.phase = "active" \/ (does = "end" /\ arm.holder # "me")
=============================================================================
