----------------------------- MODULE CamFrames -----------------------------
(***************************************************************************)
(* One frame of a camera on its way from the configuration to a consumer:  *)
(* config.rs accepts the camera, v4l2.rs accepts what the driver grants,   *)
(* capture.rs and msg.rs make the sample, transport.rs publishes it on the *)
(* frame key and every so often on the preview key, and a consumer decodes *)
(* it with msg.rs's decode.                                                *)
(*                                                                         *)
(* A byte string is its length where only that matters (the formats of a   *)
(* fixed length), and a sequence of marker bytes where trim_jpeg looks.    *)
(***************************************************************************)
EXTENDS Integers, Sequences, SequencesExt, FiniteSetsExt

CONSTANTS
    Rates,      \* frame rates asked for and granted
    Extents,    \* widths and heights asked for and granted
    Images,     \* payloads of a compressed frame, as sequences of bytes
    MaxShots    \* bound: frames published

ASSUME FramesAssumption == Extents \subseteq Nat

VARIABLES
    cam,        \* CameraConfig
    granted,    \* what the driver answered
    shot,       \* the frame: what the consumer gets
    preview,    \* frames seen by the publisher, and previews put
    stage       \* how far the camera has come

framesVars == <<cam, granted, shot, preview, stage>>

-----------------------------------------------------------------------------
Formats == {"mjpeg", "yuyv", "nv12"}
NoPreview == 0

\* Format::frame_len, with the integer division of NV12; -1 where the encoder decides.
FrameLen(format, w, h) ==
    CASE format = "yuyv" -> w * h * 2
      [] format = "nv12" -> (w * h * 3) \div 2
      [] OTHER -> -1

\* CameraConfig::validate, as far as the frames depend on it.
Valid(c) ==
    /\ c.width > 0 /\ c.height > 0 /\ c.fps \in 1..240
    /\ c.preview # NoPreview => c.preview < c.fps

Configs == [format : Formats, width : Extents, height : Extents, fps : Rates,
            preview : Rates \cup {NoPreview}]

\* Mutant: the division rounds down.
PreviewEvery_Floor(c) == Max({2, c.fps \div c.preview})

\* One frame in so many: the rate is rounded so that the preview never exceeds what was asked.
PreviewEvery(c) == Max({2, (c.fps + c.preview - 1) \div c.preview})

-----------------------------------------------------------------------------
(* What open takes from the driver.                                        *)

\* VIDIOC_S_FMT may grant another format, size, field order, row length or image size.
Grants == [same : BOOLEAN, width : Extents, height : Extents, progressive : BOOLEAN,
           padding : 0..1, tail : 0..1]

\* A row's bytes, and the image's: the driver may pad either.
Line(format, g) == CASE format = "yuyv" -> 2 * g.width + g.padding
                     [] format = "nv12" -> g.width + g.padding
                     [] OTHER -> 0
ImageSize(format, g) == FrameLen(format, g.width, g.height) + g.padding * g.height + g.tail

\* Mutant: only the row length is compared.
FormatFits_LineOnly(c, g) ==
    /\ g.same /\ g.width > 0 /\ g.height > 0 /\ g.progressive
    /\ FrameLen(c.format, g.width, g.height) >= 0
           => Line(c.format, g) * g.height = FrameLen(c.format, g.width, g.height)

\* set_format: anything a consumer would read wrongly is refused.
FormatFits(c, g) ==
    /\ g.same /\ g.width > 0 /\ g.height > 0 /\ g.progressive
    /\ LET tight == FrameLen(c.format, g.width, g.height) IN
        tight >= 0 => /\ Line(c.format, g) * g.height = tight
                      /\ ImageSize(c.format, g) = tight

-----------------------------------------------------------------------------
(* The sample.                                                             *)

FF == 255
D9 == 217
Ends(bytes) == {i \in 2..Len(bytes) : bytes[i - 1] = FF /\ bytes[i] = D9}

\* Mutant: the first end-of-image ends the payload, which a thumbnail in it has as well.
TrimJpeg_First(bytes) == IF Ends(bytes) = {} THEN bytes ELSE SubSeq(bytes, 1, Min(Ends(bytes)))

\* trim_jpeg: up to the last end-of-image.
TrimJpeg(bytes) == IF Ends(bytes) = {} THEN bytes ELSE SubSeq(bytes, 1, Max(Ends(bytes)))

\* decode: a payload of another length than the header fixes is refused.
Decodes(format, w, h, length) ==
    LET expected == FrameLen(format, w, h) IN expected = -1 \/ length = expected

NoShot == [bytes |-> <<>>, length |-> 0, whole |-> FALSE, decoded |-> FALSE]

-----------------------------------------------------------------------------
FramesInit ==
    /\ cam \in Configs /\ granted = "nothing" /\ shot = NoShot
    /\ preview = [seen |-> 0, put |-> 0] /\ stage = "config"

Configure ==
    /\ stage = "config"
    /\ stage' = IF Valid(cam) THEN "open" ELSE "refused"
    /\ UNCHANGED <<cam, granted, shot, preview>>

\* A device without a frame interval is refused as well.
Grant ==
    /\ stage = "open"
    /\ \E g \in Grants, interval \in BOOLEAN :
        /\ granted' = g
        /\ stage' = CASE ~FormatFits(cam, g) -> "misfit"
                      [] ~interval           -> "refused"
                      [] OTHER               -> "streaming"
    /\ UNCHANGED <<cam, shot, preview>>

\* A frame of a fixed length is whole, or short when the transfer broke; a compressed one has
\* any bytes.
Deliver ==
    /\ stage = "streaming" /\ preview.seen < MaxShots
    /\ IF cam.format = "mjpeg"
       THEN \E image \in Images :
                shot' = [bytes |-> image, length |-> Len(TrimJpeg(image)), whole |-> TRUE,
                         decoded |-> Decodes("mjpeg", granted.width, granted.height,
                                             Len(TrimJpeg(image)))]
       ELSE \E whole \in BOOLEAN :
                LET used == IF whole THEN ImageSize(cam.format, granted) ELSE 1 IN
                shot' = [bytes |-> <<>>, length |-> used, whole |-> whole,
                         decoded |-> Decodes(cam.format, granted.width, granted.height, used)]
    /\ preview' = [seen |-> preview.seen + 1,
                   put |-> IF cam.preview # NoPreview /\ preview.seen % PreviewEvery(cam) = 0
                           THEN preview.put + 1 ELSE preview.put]
    /\ UNCHANGED <<cam, granted, stage>>

FramesNext == Configure \/ Grant \/ Deliver
FramesSpec == FramesInit /\ [][FramesNext]_framesVars

-----------------------------------------------------------------------------
(* Properties.                                                             *)

\* Every whole frame of a stream that open accepted is one that a consumer accepts, whatever
\* size, stride and image size the driver granted.
WholeFramesDecode == shot.whole => shot.decoded

\* The preview never goes out faster than preview_fps, nor at the camera's own rate.
PreviewIsSlower ==
    stage = "streaming" /\ cam.preview # NoPreview /\ preview.put > 1
        => /\ (preview.put - 1) * cam.fps <= cam.preview * (preview.seen - 1)
           /\ preview.put < preview.seen

\* Trimming takes padding only: every end-of-image of the frame is still in the payload.
TrimKeepsImage ==
    shot.bytes # <<>> => Ends(SubSeq(shot.bytes, 1, shot.length)) = Ends(shot.bytes)

\* The comment's claim (v4l2.rs:382) read with msg.rs:38: what is refused is a driver that pads
\* the rows or the image, never one that grants the format as a consumer computes it.
TightGrantFits ==
    stage = "misfit"
        => ~(/\ granted.same /\ granted.width > 0 /\ granted.height > 0 /\ granted.progressive
             /\ granted.padding = 0 /\ granted.tail = 0)
=============================================================================
