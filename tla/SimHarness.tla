----------------------------- MODULE SimHarness -----------------------------
(***************************************************************************)
(* The simulator a test drives (franka-sim-test: lib.rs, server.rs,        *)
(* docker.rs). The ports of a robot are fixed, so one simulator runs at a  *)
(* time: the tests of one binary take turns by a lock, and a start looks   *)
(* first whether a simulator is there already.                             *)
(*                                                                         *)
(* A binary is a process with its environment; its tests run at once. A    *)
(* panic ends a test and drops what it holds, in order.                    *)
(*                                                                         *)
(* External: Docker and the simulators it runs. An image is a build of the *)
(* simulator: "fr3" speaks v10 and has franka-sim-check, "fer" has none    *)
(* and speaks v5 when it is told to. One that has answered a probe goes on.*)
(***************************************************************************)
EXTENDS Naturals, FiniteSets

CONSTANTS
    SimTests,
    BinaryOf,       \* the binary of each test
    ConfigOf,       \* what each test asks for
    Environments,   \* the environments a binary may have
    NoTest

ASSUME SimAssumption ==
    NoTest \notin SimTests /\ \A t \in SimTests : ConfigOf[t].protocol \in {"v5", "v10"}

VARIABLES
    environ,    \* each binary's environment
    simLock,    \* LOCK of each binary: the test that holds it
    simTest,    \* where each test is
    containers  \* each test's container: where it is, its image, its flags

simVars == <<environ, simLock, simTest, containers>>

Binaries == {BinaryOf[t] : t \in SimTests}
Env(t) == environ[BinaryOf[t]]
NoContainer == [at |-> "none", image |-> "none", flags |-> {}]

SimTypeOK ==
    /\ environ \in [Binaries -> Environments]
    /\ simLock \in [Binaries -> SimTests \cup {NoTest}]
    /\ \A t \in SimTests :
         /\ simTest[t] \in {"begin", "locked", "portsFree", "free", "probing", "external", "ready",
                            "failing", "dropped", "failed", "passed"}
         /\ containers[t].at \in {"none", "created", "running", "serving", "exited"}

-----------------------------------------------------------------------------
(* What a test asks for. *)

Nominal ==
    [limits |-> FALSE, comm |-> FALSE, gripper |-> TRUE, object |-> FALSE, protocol |-> "v10",
     robot |-> "fr3", image |-> "unset"]
WithMotionLimits(config) == [config EXCEPT !.limits = TRUE]
WithCommConstraints(config) == [config EXCEPT !.comm = TRUE]
WithGripperObject(config) == [config EXCEPT !.object = TRUE]
\* The FR3's variable never names the FER's image.
FerV5 == [Nominal EXCEPT !.protocol = "v5", !.robot = "fer", !.image = "fer"]

SimArgs(config) ==
    {flag \in {"limits", "comm", "no-gripper", "object", "v5", "panda"} :
       \/ flag = "limits" /\ config.limits
       \/ flag = "comm" /\ config.comm
       \/ flag = "no-gripper" /\ ~config.gripper
       \/ flag = "object" /\ config.object
       \/ flag = "v5" /\ config.protocol = "v5"
       \/ flag = "panda" /\ config.robot = "fer"}

DefaultImage == "fr3"
DefaultFerImage == "fer"
ImageOf(t) ==
    CASE ConfigOf[t].image = "fer" ->
           IF Env(t).ferImage = "unset" THEN DefaultFerImage ELSE Env(t).ferImage
      [] OTHER -> IF Env(t).image = "unset" THEN DefaultImage ELSE Env(t).image

\* External: what a container's server speaks, and whether its image has franka-sim-check.
Speaks(c) == IF c.image = "fer" /\ "v5" \in c.flags THEN "v5" ELSE "v10"
HasCheck(image) == image = "fr3"

-----------------------------------------------------------------------------
SimInit ==
    /\ environ \in [Binaries -> Environments]
    /\ simLock = [b \in Binaries |-> NoTest]
    /\ simTest = [t \in SimTests |-> "begin"]
    /\ containers = [t \in SimTests |-> NoContainer]

SimStill == environ = <<>> /\ simLock = <<>> /\ simTest = <<>> /\ containers = <<>>

Live == {t \in SimTests : containers[t].at \in {"running", "serving"}}
Serving == {t \in SimTests : containers[t].at = "serving"}

Steps(t, from, to) == simTest[t] = from /\ simTest' = [simTest EXCEPT ![t] = to]

\* A poisoned lock is taken all the same.
TakeLock(t) ==
    /\ simLock[BinaryOf[t]] = NoTest
    /\ simLock' = [simLock EXCEPT ![BinaryOf[t]] = t]
    /\ Steps(t, "begin", IF Env(t).address THEN "external" ELSE "locked")
    /\ UNCHANGED <<environ, containers>>

\* refuse_if_busy: first the ports, then the names of the containers that run.
LookAtPorts(t) ==
    /\ Steps(t, "locked", IF Serving = {} THEN "portsFree" ELSE "failing")
    /\ UNCHANGED <<environ, simLock, containers>>

LookAtNames_Not(t) ==
    Steps(t, "portsFree", "free") /\ UNCHANGED <<environ, simLock, containers>>
LookAtNames(t) ==
    /\ Steps(t, "portsFree", IF Live = {} THEN "free" ELSE "failing")
    /\ UNCHANGED <<environ, simLock, containers>>

\* docker run -d; it may fail with or without a container created.
RunDocker(t) ==
    /\ \/ /\ Steps(t, "free", "probing")
          /\ containers' = [containers EXCEPT ![t] = [at |-> "running", image |-> ImageOf(t),
                                                      flags |-> SimArgs(ConfigOf[t])]]
       \/ /\ Steps(t, "free", "failing")
          /\ \E left \in {"none", "created"} : containers' = [containers EXCEPT ![t].at = left]
    /\ UNCHANGED <<environ, simLock>>

\* External: the server takes the ports, or ends because another has them; it may end on its own.
ServerStarts(t) ==
    /\ containers[t].at = "running"
    /\ containers' = [containers EXCEPT ![t].at = IF Serving = {} THEN "serving" ELSE "exited"]
    /\ UNCHANGED <<environ, simLock, simTest>>

ServerDies(t) ==
    /\ t \in Live /\ simTest[t] = "probing"
    /\ containers' = [containers EXCEPT ![t].at = "exited"]
    /\ UNCHANGED <<environ, simLock, simTest>>

\* Whoever has the ports answers a probe; franka-sim-check runs inside the test's own container.
Answers(protocol) == \E u \in Serving : Speaks(containers[u]) = protocol
OwnProbe_Any(t) == Serving # {}
OwnProbe(t) == Answers(ConfigOf[t].protocol)

Checked(t) == t \in Live /\ Answers("v10")

Ready(t) ==
    IF ConfigOf[t].protocol = "v5" \/ ~HasCheck(containers[t].image) THEN OwnProbe(t)
    ELSE Checked(t)

WaitReady(t) ==
    /\ Ready(t) /\ Steps(t, "probing", "ready")
    /\ UNCHANGED <<environ, simLock, containers>>

\* fail_ready removes the container before it panics; a probe may also run out of time.
FailReady_Leaves(t) == Steps(t, "probing", "failing") /\ UNCHANGED <<environ, simLock, containers>>
FailReady(t) ==
    /\ Steps(t, "probing", "failing")
    /\ containers' = [containers EXCEPT ![t] = NoContainer]
    /\ UNCHANGED <<environ, simLock>>

\* Drop removes the container; the guard goes after it, as the fields of a struct do.
DropServer(t) ==
    /\ \/ Steps(t, "ready", "dropped")
       \/ Steps(t, "external", "dropped")
    /\ IF Env(t).address \/ Env(t).keep THEN UNCHANGED containers
       ELSE containers' = [containers EXCEPT ![t] = NoContainer]
    /\ UNCHANGED <<environ, simLock>>

Unlocks_Early(t) == simTest[t] \in {"failing", "dropped", "probing"}
Unlocks(t) == simTest[t] \in {"failing", "dropped"}

DropGuard(t) ==
    /\ Unlocks(t) /\ simLock[BinaryOf[t]] = t
    /\ simLock' = [simLock EXCEPT ![BinaryOf[t]] = NoTest]
    /\ simTest' = [simTest EXCEPT ![t] = CASE @ = "failing" -> "failed" [] @ = "dropped" -> "passed"
                                           [] OTHER -> @]
    /\ UNCHANGED <<environ, containers>>

SimNext ==
    \E t \in SimTests :
      \/ TakeLock(t) \/ LookAtPorts(t) \/ LookAtNames(t) \/ RunDocker(t) \/ WaitReady(t)
      \/ FailReady(t) \/ DropServer(t) \/ DropGuard(t) \/ ServerStarts(t) \/ ServerDies(t)

-----------------------------------------------------------------------------
SameBinary(t, u) == BinaryOf[t] = BinaryOf[u]
Over(t) == simTest[t] \in {"failed", "passed"}

(* The tests of one binary never run two simulators, whichever of them is  *)
(* refused, fails to become ready, panics or leaves its container running  *)
(* behind it (LOCK, refuse_if_busy, the order a server is dropped in).     *)
OneOfABinary == \A t, u \in Live : SameBinary(t, u) => t = u

(* A binary that runs alone tests its own simulator: the one that answered *)
(* is the test's own, it speaks the protocol the test does and has its     *)
(* flags, whatever the environment says of images (wait_ready).            *)
TestsItsOwn ==
    \A t \in SimTests :
      /\ simTest[t] = "ready"
      /\ \A u \in SimTests : ~SameBinary(t, u) => simTest[u] = "begin"
      => /\ Serving = {t} /\ Speaks(containers[t]) = ConfigOf[t].protocol
         /\ containers[t].flags = SimArgs(ConfigOf[t])

(* A binary whose tests are over leaves no simulator behind that would     *)
(* refuse the next one, unless it was told to keep them.                   *)
NothingLeftRunning ==
    \A b \in Binaries :
      ~environ[b].keep /\ (\A t \in SimTests : BinaryOf[t] = b => Over(t))
        => \A t \in Live : BinaryOf[t] # b

(* Two binaries at once: "start will refuse to start a second container"   *)
(* (lib.rs).                                                               *)
OneOfAll == \A t, u \in Live : t = u
=============================================================================
