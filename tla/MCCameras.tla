----------------------------- MODULE MCCameras -----------------------------
(* A capture thread with its device, the way of one frame to a consumer, and the recorder of   *)
(* episodes: independent parts of the camera node, one of which moves in a behaviour.          *)
EXTENDS CamCapture, CamFrames, CamRecorder

VARIABLE part
camerasVars == <<part, captureVars, framesVars, recorderVars>>

\* Every short payload of marker bytes, and the longer ones that hold an end-of-image early.
MarkerImages == UNION {[1..n -> {0, D9, FF}] : n \in 0..2} \cup
                {<<FF, D9, x, y>> : x \in {0, D9, FF}, y \in {0, D9, FF}}

\* Two sessions with a frame between them and without time; one session with time and a frame;
\* one session with a frame of each camera.
RecorderBudgets ==
    {[episodes |-> 2, frames |-> 1, time |-> FALSE],
     [episodes |-> 1, frames |-> 1, time |-> TRUE],
     [episodes |-> 1, frames |-> 2, time |-> FALSE]}

\* Two sessions with time, for the run of the session that is cut.
CutBudgets == {[episodes |-> 2, frames |-> 0, time |-> TRUE]}

\* What does not move stands at one of its initial values, a camera with its device gone.
CamerasInit ==
    /\ part \in {"capture", "frames", "recorder"}
    /\ CaptureInit /\ (part = "capture" \/ device.is = "absent")
    /\ FramesInit /\ (part = "frames" \/ cam = CHOOSE c \in Configs : TRUE)
    /\ RecorderInit /\ (part = "recorder" \/ budget = CHOOSE b \in Budgets : TRUE)

CamerasNext ==
    \/ part = "capture" /\ CaptureNext /\ UNCHANGED <<part, framesVars, recorderVars>>
    \/ part = "frames" /\ FramesNext /\ UNCHANGED <<part, captureVars, recorderVars>>
    \/ part = "recorder" /\ RecorderNext /\ UNCHANGED <<part, captureVars, framesVars>>

\* The fairness of the part that moves: CaptureFairness and RecorderFairness.
FairCamerasSpec ==
    /\ CamerasInit /\ [][CamerasNext]_camerasVars
    /\ WF_captureVars(part = "capture" /\ CaptureThread)
    /\ WF_captureVars(part = "capture" /\ DriverFills)
    /\ WF_captureVars(part = "capture" /\ Shutdown /\ camera = "stopping")
    /\ WF_recorderVars(part = "recorder" /\ WriterSteps)
    /\ WF_recorderVars(part = "recorder" /\ TimePasses)

CamerasTypeOK ==
    /\ part = "capture" => CaptureTypeOK
    /\ part = "recorder" => RecorderTypeOK

(* What a capture thread publishes is one whole frame, numbered by what was lost before it, and   *)
(* each buffer is back with the driver by then; a consumer decodes what a valid configuration and *)
(* an accepted grant let through.                                                                 *)
CaptureSafety ==
    /\ part = "capture" => NoTornSample /\ AllBuffersReturn /\ GapsAreExact
    /\ part = "frames" => WholeFramesDecode

(* An episode's files hold every frame between its boundaries: sinks armed with it, none closed   *)
(* before its last frames, none left when the node has stopped.                                   *)
EpisodeSafety == part = "recorder" => SinksFollowEpisode /\ LastFramesKept /\ StopsEmpty

(* A camera that is there is used again, and a shutdown gets through every wait of its thread.    *)
CameraGoesOn == CameraComesBack /\ ShutdownReturns
=============================================================================
