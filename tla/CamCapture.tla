----------------------------- MODULE CamCapture -----------------------------
(***************************************************************************)
(* A capture thread of franka-cam (capture.rs) over its V4L2 source        *)
(* (source.rs, v4l2.rs): open, learn the clock, dequeue, copy, give the    *)
(* buffer back, publish, and reopen with a growing wait after any error    *)
(* that the device might recover from.                                     *)
(*                                                                         *)
(* The queue of mmapped buffers is shared with the driver, which writes a  *)
(* buffer whenever it is queued; the driver's frame counter has 32 bits,   *)
(* here SeqModulus.  One step of the thread is the code between two        *)
(* accesses to the queue, the flag or the counters.                        *)
(*                                                                         *)
(* External: the driver and the device, which may go, return, fall silent  *)
(* or be one that the configuration does not fit.                          *)
(***************************************************************************)
EXTENDS Integers, Sequences, FiniteSets, SequencesExt

CONSTANTS
    Buffers,        \* the buffers the driver granted, at least two
    NoBuffer,       \* no buffer
    SeqModulus,     \* the width of v4l2_buffer.sequence
    BackoffSteps,   \* how often BACKOFF_MIN doubles before it is BACKOFF_MAX
    MaxSeq,         \* bound: frames of one stream
    MaxChanges      \* bound: changes of the device

ASSUME CaptureAssumption ==
    /\ IsFiniteSet(Buffers) /\ Cardinality(Buffers) >= 2 /\ NoBuffer \notin Buffers
    /\ SeqModulus \in Nat \ {0} /\ BackoffSteps \in Nat /\ MaxSeq \in Nat /\ MaxChanges \in Nat

VARIABLES
    device,     \* external: what is behind the path, and how often it changed
    driver,     \* external: the stream's queue and its counter
    capture,    \* the thread
    stats,      \* CamStats: streaming, and whether it counted the last error and the last reopen
    sample,     \* history: the last sample's sequence number, and the frame its bytes are of
    camera      \* the Camera handle: running, its flag set, joined

captureVars == <<device, driver, capture, stats, sample, camera>>

-----------------------------------------------------------------------------
\* What an open refuses: a size, a format or a control; or a clock that is not monotonic.
Misfits == {"misfit", "otherclock"}

CaptureTypeOK ==
    /\ device \in [is : {"absent", "ready", "quiet"} \cup Misfits, changes : 0..MaxChanges]
    /\ driver \in [on : BOOLEAN, seq : 0..MaxSeq, queued : Seq(Buffers), filled : Seq(Buffers),
                   content : [Buffers -> 0..MaxSeq]]
    /\ Len(driver.queued) + Len(driver.filled) <= Cardinality(Buffers)
    /\ capture \in [at : {"open", "clock", "stream", "copy", "requeue", "publish", "sleep", "done"},
                    opened : BOOLEAN, backoff : 0..BackoffSteps, last : -1..(SeqModulus - 1),
                    prior : 0..MaxSeq, held : Buffers \cup {NoBuffer}, seq : 0..MaxSeq,
                    gap : 0..(SeqModulus - 1)]
    /\ stats \in [streaming : BOOLEAN, reopens : 0..(MaxChanges + 1)]
    /\ sample \in [seq : 0..MaxSeq, bytes : 0..MaxSeq]
    /\ camera \in {"running", "stopping", "joined"}

CaptureInit ==
    /\ device \in [is : {"absent", "ready", "misfit"}, changes : {0}]
    /\ driver = [on |-> FALSE, seq |-> 0, queued |-> <<>>, filled |-> <<>>,
                 content |-> [b \in Buffers |-> 0]]
    /\ capture = [at |-> "open", opened |-> FALSE, backoff |-> 0, last |-> -1, prior |-> 0,
                  held |-> NoBuffer, seq |-> 0, gap |-> 0]
    /\ stats = [streaming |-> FALSE, reopens |-> 0]
    /\ sample = [seq |-> 0, bytes |-> 0] /\ camera = "running"

-----------------------------------------------------------------------------
(* The device and its driver.                                              *)

\* A stream does not survive its device: a camera that returns has to be opened again.
DeviceChanges ==
    /\ device.changes < MaxChanges
    /\ \E is \in ({"absent", "ready", "quiet"} \cup Misfits) \ {device.is} :
        /\ device' = [is |-> is, changes |-> device.changes + 1]
        /\ driver' = [driver EXCEPT !.on = @ /\ {is, device.is} \subseteq {"ready", "quiet"}]
    /\ UNCHANGED <<capture, stats, sample, camera>>

Delivers == driver.on /\ device.is \in {"ready", "otherclock"} /\ driver.seq < MaxSeq

\* The sequence counts the frames the driver had no buffer for, too.
DriverFills ==
    /\ Delivers
    /\ driver' = IF driver.queued = <<>> THEN [driver EXCEPT !.seq = @ + 1]
                 ELSE LET b == Head(driver.queued) IN
                      [driver EXCEPT !.seq = @ + 1, !.queued = Tail(@),
                                     !.filled = Append(@, b), !.content[b] = driver.seq + 1]
    /\ UNCHANGED <<device, capture, stats, sample, camera>>

-----------------------------------------------------------------------------
(* Opening: V4l2Source::open and clock_of, called from the loop of run.    *)

Doubled == IF capture.backoff = BackoffSteps THEN BackoffSteps ELSE capture.backoff + 1
StreamOff(d) == [d EXCEPT !.on = FALSE, !.queued = <<>>, !.filled = <<>>]

\* An error of the device in open or clock_of: counted, and worth another open.  Whatever was
\* mapped is unmapped.
OpenFails ==
    /\ \/ capture.at = "open" /\ camera = "running" /\ device.is = "absent"
       \/ capture.at = "clock" /\ (~driver.on \/ (driver.filled = <<>> /\ ~Delivers))
    /\ capture' = [capture EXCEPT !.at = "sleep"]
    /\ driver' = StreamOff(driver)
    /\ UNCHANGED <<device, stats, sample, camera>>

\* InvalidInput or Unsupported: the thread ends.
OpenIsRefused ==
    /\ \/ capture.at = "open" /\ camera = "running" /\ device.is = "misfit"
       \/ capture.at = "clock" /\ driver.on /\ driver.filled # <<>> /\ device.is = "otherclock"
    /\ capture' = [capture EXCEPT !.at = "done"]
    /\ driver' = StreamOff(driver)
    /\ UNCHANGED <<device, stats, sample, camera>>

\* Stream::mmap: every buffer is mapped and queued, then the stream is on.
StreamOn ==
    /\ capture.at = "open" /\ camera = "running" /\ device.is \notin {"absent", "misfit"}
    /\ driver' = [on |-> TRUE, seq |-> 0, queued |-> SetToSeq(Buffers), filled |-> <<>>,
                  content |-> [b \in Buffers |-> 0]]
    /\ capture' = [capture EXCEPT !.at = "clock"]
    /\ UNCHANGED <<device, stats, sample, camera>>

\* Mutant: the sequence number of the last stream is compared with.
ClockIsKnown_KeepsLast ==
    /\ capture.at = "clock" /\ driver.on /\ driver.filled # <<>> /\ device.is # "otherclock"
    /\ driver' = [driver EXCEPT !.filled = Tail(@), !.queued = Append(@, Head(driver.filled))]
    /\ capture' = [capture EXCEPT !.at = "stream", !.opened = TRUE, !.backoff = 0]
    /\ stats' = [streaming |-> TRUE, reopens |-> IF capture.opened /\ stats.reopens <= MaxChanges
                                                 THEN stats.reopens + 1 ELSE stats.reopens]
    /\ UNCHANGED <<device, sample, camera>>

\* The first frame tells the clock and is dropped.  A first open is no reopen.
ClockIsKnown ==
    /\ capture.at = "clock" /\ driver.on /\ driver.filled # <<>> /\ device.is # "otherclock"
    /\ driver' = [driver EXCEPT !.filled = Tail(@), !.queued = Append(@, Head(driver.filled))]
    /\ capture' = [capture EXCEPT !.at = "stream", !.opened = TRUE, !.backoff = 0, !.last = -1]
    /\ stats' = [streaming |-> TRUE, reopens |-> IF capture.opened /\ stats.reopens <= MaxChanges
                                                 THEN stats.reopens + 1 ELSE stats.reopens]
    /\ UNCHANGED <<device, sample, camera>>

-----------------------------------------------------------------------------
(* The loop of stream, and what becomes of its error.                      *)

\* Mutant: the buffer goes back as the frame arrives, before its bytes are copied.
Dequeue_EarlyReturn ==
    /\ capture.at = "stream" /\ camera = "running" /\ driver.on /\ driver.filled # <<>>
    /\ LET b == Head(driver.filled) IN
        /\ capture' = [capture EXCEPT !.at = "copy", !.held = b, !.seq = driver.content[b]]
        /\ driver' = [driver EXCEPT !.filled = Tail(@), !.queued = Append(@, b)]
    /\ UNCHANGED <<device, stats, sample, camera>>

Dequeue ==
    /\ capture.at = "stream" /\ camera = "running" /\ driver.on /\ driver.filled # <<>>
    /\ LET b == Head(driver.filled) IN
        capture' = [capture EXCEPT !.at = "copy", !.held = b, !.seq = driver.content[b]]
    /\ driver' = [driver EXCEPT !.filled = Tail(@)]
    /\ UNCHANGED <<device, stats, sample, camera>>

\* Mutant: a stream that ended is still reported as streaming.
StreamBreaks_StillShown ==
    /\ capture.at = "stream" /\ camera = "running"
    /\ ~driver.on \/ (driver.filled = <<>> /\ ~Delivers)
    /\ capture' = [capture EXCEPT !.at = "sleep"]
    /\ driver' = StreamOff(driver)
    /\ UNCHANGED <<device, stats, sample, camera>>

\* Mutant: any error retires the camera.
StreamBreaks_Retires ==
    /\ capture.at = "stream" /\ camera = "running"
    /\ ~driver.on \/ (driver.filled = <<>> /\ ~Delivers)
    /\ capture' = [capture EXCEPT !.at = "done"]
    /\ stats' = [stats EXCEPT !.streaming = FALSE]
    /\ driver' = StreamOff(driver)
    /\ UNCHANGED <<device, sample, camera>>

\* ENODEV, or no frame within three periods (two seconds at least).
StreamBreaks ==
    /\ capture.at = "stream" /\ camera = "running"
    /\ ~driver.on \/ (driver.filled = <<>> /\ ~Delivers)
    /\ capture' = [capture EXCEPT !.at = "sleep"]
    /\ stats' = [stats EXCEPT !.streaming = FALSE]
    /\ driver' = StreamOff(driver)
    /\ UNCHANGED <<device, sample, camera>>

\* A device that was exchanged for one that does not fit may answer InvalidInput (EINVAL of DQBUF)
\* or Unsupported: run ends the thread, as it does for an open.
StreamIsRefused ==
    /\ capture.at = "stream" /\ camera = "running"
    /\ ~driver.on /\ device.is \in Misfits
    /\ capture' = [capture EXCEPT !.at = "done"]
    /\ stats' = [stats EXCEPT !.streaming = FALSE]
    /\ driver' = StreamOff(driver)
    /\ UNCHANGED <<device, sample, camera>>

\* A poll that woke for nothing is answered like a timeout (dequeue: WouldBlock is no frame).
WakesForNothing ==
    /\ capture.at = "stream" /\ camera = "running" /\ driver.on /\ driver.filled = <<>>
    /\ device.changes < MaxChanges /\ device' = [device EXCEPT !.changes = @ + 1]
    /\ capture' = [capture EXCEPT !.at = "sleep"]
    /\ stats' = [stats EXCEPT !.streaming = FALSE]
    /\ driver' = StreamOff(driver)
    /\ UNCHANGED <<sample, camera>>

\* wrapping_sub, then saturating_sub(1); the first frame of a stream has no gap.
Minus1(n) == IF n = 0 THEN 0 ELSE n - 1
Gap(seq) == IF capture.last = -1 THEN 0
            ELSE Minus1(((seq % SeqModulus) - capture.last) % SeqModulus)

\* The header is filled and the bytes are copied out of the buffer.
Copy ==
    /\ capture.at = "copy"
    /\ sample' = [seq |-> capture.seq, bytes |-> driver.content[capture.held]]
    /\ capture' = [capture EXCEPT !.at = "requeue", !.gap = Gap(capture.seq),
                                  !.last = capture.seq % SeqModulus,
                                  !.prior = IF capture.last = -1 THEN capture.seq - 1
                                            ELSE sample.seq]
    /\ UNCHANGED <<device, driver, stats, camera>>

\* Mutant: the frame is kept until the next one.
Requeue_Kept ==
    /\ capture.at = "requeue"
    /\ capture' = [capture EXCEPT !.at = "publish"]
    /\ UNCHANGED <<device, driver, stats, sample, camera>>

\* drop(frame): QBUF, which a device that is gone refuses.
Requeue ==
    /\ capture.at = "requeue"
    /\ driver' = IF driver.on THEN [driver EXCEPT !.queued = Append(@, capture.held)] ELSE driver
    /\ capture' = [capture EXCEPT !.at = "publish", !.held = NoBuffer]
    /\ UNCHANGED <<device, stats, sample, camera>>

\* The recorder's sink, the publisher, the counters: none of them ends the stream.
PublishFrame ==
    /\ capture.at = "publish"
    /\ capture' = [capture EXCEPT !.at = "stream"]
    /\ UNCHANGED <<device, driver, stats, sample, camera>>

\* The wait is cut short by the flag, which the loop then sees.
SleepEnds ==
    /\ capture.at = "sleep"
    /\ capture' = [capture EXCEPT !.at = "open",
                                  !.backoff = IF camera = "running" THEN Doubled ELSE @]
    /\ UNCHANGED <<device, driver, stats, sample, camera>>

-----------------------------------------------------------------------------
(* Camera::shutdown: the flag, then the join.                              *)

\* Mutant: the flag is not looked at between frames.
SeesStop_OnlyOpening ==
    /\ capture.at = "open" /\ camera # "running"
    /\ capture' = [capture EXCEPT !.at = "done"]
    /\ driver' = StreamOff(driver)
    /\ stats' = [stats EXCEPT !.streaming = FALSE]
    /\ UNCHANGED <<device, sample, camera>>

\* The loops of run and of stream.
SeesStop ==
    /\ capture.at \in {"open", "stream"} /\ camera # "running"
    /\ capture' = [capture EXCEPT !.at = "done"]
    /\ driver' = StreamOff(driver)
    /\ stats' = [stats EXCEPT !.streaming = FALSE]
    /\ UNCHANGED <<device, sample, camera>>

Shutdown ==
    /\ \/ camera = "running" /\ camera' = "stopping"
       \/ camera = "stopping" /\ capture.at = "done" /\ camera' = "joined"
    /\ UNCHANGED <<device, driver, capture, stats, sample>>

-----------------------------------------------------------------------------
Opening == OpenFails \/ OpenIsRefused \/ StreamOn \/ ClockIsKnown
Streaming == Dequeue \/ StreamBreaks \/ StreamIsRefused \/ Copy \/ Requeue \/ PublishFrame
CaptureThread == Opening \/ Streaming \/ SleepEnds \/ SeesStop

CaptureNext == DeviceChanges \/ DriverFills \/ CaptureThread \/ WakesForNothing \/ Shutdown

\* The thread is scheduled and a ready device delivers; nobody has to shut the camera down, but
\* who does waits for the join.
CaptureFairness ==
    /\ WF_captureVars(CaptureThread) /\ WF_captureVars(DriverFills)
    /\ WF_captureVars(Shutdown /\ camera = "stopping")

CaptureSpec == CaptureInit /\ [][CaptureNext]_captureVars
FairCaptureSpec == CaptureSpec /\ CaptureFairness

-----------------------------------------------------------------------------
(* Properties.                                                             *)

\* A sample's bytes are of the frame its header counts: the thread never reads a buffer that the
\* driver has back.
NoTornSample == sample.bytes = sample.seq

\* Between two frames every buffer is with the driver: none leaks, whatever becomes of a frame.
AllBuffersReturn ==
    capture.at = "stream" /\ driver.on
        => Cardinality(ToSet(driver.queued \o driver.filled)) = Cardinality(Buffers)

\* driver_dropped counts exactly the frames that never reached the node, also over the counter's
\* wrap and the start of a stream, as long as they are fewer than the counter can tell.
GapsAreExact ==
    capture.at = "requeue" /\ capture.seq - capture.prior < SeqModulus
        => capture.gap = capture.seq - capture.prior - 1

\* A camera that waits to be reopened, or was given up, is not reported as streaming.
ShownAsItIs == capture.at \in {"open", "clock", "sleep", "done"} => ~stats.streaming

\* As long as the configuration fits, a camera that is back streams again.
CameraComesBack ==
    [](device.is \notin Misfits) /\ <>[](device.is = "ready")
        => []<>(capture.at = "publish") \/ <>(camera # "running")

\* shutdown returns, whatever the device does.
ShutdownReturns == camera = "stopping" ~> camera = "joined"
=============================================================================
