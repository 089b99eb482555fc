----------------------------- MODULE MCClients -----------------------------
(* What talks to the node: the Python client's sessions and streamers, VR teleoperation from the  *)
(* headset's bridge to the arm, and the panel's pages.  None moves another's state; one part      *)
(* moves in a behaviour.                                                                          *)
EXTENDS PyTargets, PySession, VrTeleop, VrBridge, PanelEvents

VARIABLE part

TestLine == 0..2
TestRows == {<<2, 0>>}
TestObjects == 1..2

clientsVars == <<part, targetsVars, sessionVars, vrVars, bridgeVars, panelEventsVars>>

\* A part that stands still has one initial state.
ClientsInit ==
    /\ part \in {"targets", "session", "teleop", "bridge", "pages"}
    /\ TargetsInit /\ (part = "targets" \/ joints)
    /\ SessionInit /\ BridgeInit /\ PanelEventsInit
    /\ VrInit /\ (part = "teleop" \/ lives.dqLatch)

ClientsNext ==
    \/ part = "targets" /\ TargetsNext
         /\ UNCHANGED <<part, sessionVars, vrVars, bridgeVars, panelEventsVars>>
    \/ part = "session" /\ SessionNext
         /\ UNCHANGED <<part, targetsVars, vrVars, bridgeVars, panelEventsVars>>
    \/ part = "teleop" /\ VrNext
         /\ UNCHANGED <<part, targetsVars, sessionVars, bridgeVars, panelEventsVars>>
    \/ part = "bridge" /\ BridgeNext
         /\ UNCHANGED <<part, targetsVars, sessionVars, vrVars, panelEventsVars>>
    \/ part = "pages" /\ PanelEventsNext
         /\ UNCHANGED <<part, targetsVars, sessionVars, vrVars, bridgeVars>>

\* The fairness of the part that moves: TargetsFairness, SessionFairness and VrFairness.
ClientsSpec ==
    /\ ClientsInit /\ [][ClientsNext]_clientsVars
    /\ WF_targetsVars(part = "targets" /\ Cycle) /\ WF_targetsVars(part = "targets" /\ AdvanceChunk)
    /\ WF_targetsVars(part = "targets" /\ NodeTakes) /\ WF_targetsVars(part = "targets" /\ ArmMoves)
    /\ WF_targetsVars(part = "targets" /\ TargetStateArrives)
    /\ WF_sessionVars(part = "session" /\ StopJudges) /\ WF_sessionVars(part = "session" /\ StopVerb)
    /\ WF_sessionVars(part = "session" /\ Release) /\ WF_sessionVars(part = "session" /\ Undeclare)
    /\ WF_sessionVars(part = "session" /\ TokenSeen)
    /\ WF_vrVars(part = "teleop" /\ LoopNext) /\ WF_vrVars(part = "teleop" /\ VrStateArrives)

-----------------------------------------------------------------------------
ClientsTypeOK ==
    /\ part = "targets" => TargetsTypeOK
    /\ part = "session" => SessionTypeOK
    /\ part = "teleop" => VrTypeOK
    /\ part = "bridge" => BridgeTypeOK
    /\ part = "pages" => PanelEventsTypeOK

(* The Python client judges by what it should: a wait goes by the answer   *)
(* to its own goal, two streamers never drive one arm, and a stop ends the *)
(* newest session.                                                         *)
StreamerSafety ==
    /\ part = "targets" => WaitIsForThisGoal
    /\ part = "session" => OneStreamer /\ StopEndsTheNewest

(* Teleoperation moves the arm only by a live hand in step with it, and    *)
(* after every fault anew: what the bridge says of a hand, and the loop's  *)
(* rules.                                                                  *)
TeleopSafety ==
    /\ part = "bridge" => DrivesLiveHand
    /\ part = "teleop" => DrivesInStep /\ FastJointHolds /\ TargetsOfThisSession

(* What a client waits for comes: its goal, the end of its session, the answer to a fault.        *)
ClientsGoOn == StreamGetsThrough /\ LeavingGivesBack /\ FaultIsSettled
=============================================================================
