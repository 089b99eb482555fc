------------------------------ MODULE VrBridge ------------------------------
(***************************************************************************)
(* The Quest bridge (tools/vr-teleop, quest_bridge): one reader, and for   *)
(* each controller a channel that maps its slice of a frame, rides out a   *)
(* short gap, and says whether its hand drives.                            *)
(*                                                                         *)
(* The reader hands back its last frame for ever, so only a change of the  *)
(* pose shows that a stream lives.  A pose is what is new in it: nothing,  *)
(* or something.  Times are in units of a tick in time; a tick of a stalled *)
(* process comes late, and reads the clock once for all that it does.      *)
(***************************************************************************)
EXTENDS Integers

CONSTANTS
    Channels,       \* the controllers, in argv order
    FreshTimeout,   \* FRESH_TIMEOUT_S
    GapHold,        \* GAP_HOLD_S
    MaxTick,        \* bound: the longest time from one tick to the next
    None            \* no sample

ASSUME BridgeAssumption ==
    FreshTimeout \in Nat \ {0} /\ GapHold \in Nat \ {0} /\ MaxTick \in Nat \ {0}

VARIABLES
    sinceChange,    \* VrMapper: from _last_change_t to now; NoChange before the first frame
    lastSample,     \* _Channel.last_sample; None
    gapFor,         \* 1 + the time from gap_since to now; 0 is None
    forcedOpen,     \* QuestBridge.forced_open
    sent,           \* what this tick published
    live,           \* history: the time since the hand's pose was last seen to change
    shook           \* history: the grip was seen released since the last outage

bridgeVars == <<sinceChange, lastSample, gapFor, forcedOpen, sent, live, shook>>

Oldest == FreshTimeout + GapHold + MaxTick - 1
NoChange == Oldest + 1
SampleAges == 0..Oldest
Older(age, d) == IF age + d < Oldest THEN age + d ELSE Oldest

\* One controller's slice of a frame: usable, or missing, garbage, singular, or no frame at all.
Frames == [usable : {TRUE}, moved : BOOLEAN, grip : BOOLEAN] \cup
          [usable : {FALSE}, moved : {FALSE}, grip : {FALSE}]
\* VrSample, and the message it becomes.
MappedSamples == [grip : BOOLEAN, fresh : BOOLEAN]
Messages == [engaged : BOOLEAN, fresh : BOOLEAN]

BridgeTypeOK ==
    /\ sinceChange \in [Channels -> SampleAges \cup {NoChange}] /\ gapFor \in [Channels -> 0..GapHold]
    /\ forcedOpen \in [Channels -> BOOLEAN] /\ sent \in [Channels -> Messages]
    /\ live \in [Channels -> SampleAges] /\ shook \in [Channels -> BOOLEAN]
    /\ \A ch \in Channels : lastSample[ch] = None \/ lastSample[ch] \in MappedSamples

\* Every arm needs a released grip of its own before it is driven.
BridgeInit ==
    /\ sinceChange = [ch \in Channels |-> NoChange] /\ lastSample = [ch \in Channels |-> None]
    /\ gapFor = [ch \in Channels |-> 0] /\ forcedOpen = [ch \in Channels |-> TRUE]
    /\ sent = [ch \in Channels |-> [engaged |-> FALSE, fresh |-> FALSE]]
    /\ live = [ch \in Channels |-> Oldest] /\ shook = [ch \in Channels |-> FALSE]

-----------------------------------------------------------------------------
\* update: the first usable frame is a change.
Changed(ch, frame, d) ==
    IF frame.moved \/ sinceChange[ch] = NoChange THEN 0 ELSE Older(sinceChange[ch], d)
Mapped(ch, frame, d) == [grip |-> frame.grip, fresh |-> Changed(ch, frame, d) < FreshTimeout]

\* resolve: the sample to publish, then what the channel keeps. A gap that is given up also drops
\* the held sample.
GapNow(ch, d) == IF gapFor[ch] = 0 THEN 1 ELSE gapFor[ch] + d
Rides(ch, d) == lastSample[ch] # None /\ GapNow(ch, d) <= GapHold
Resolved(ch, frame, d) ==
    IF frame.usable THEN Mapped(ch, frame, d) ELSE IF Rides(ch, d) THEN lastSample[ch] ELSE None

Kept_ThroughOutages(ch, frame, d) == IF frame.usable THEN Mapped(ch, frame, d) ELSE lastSample[ch]
Kept(ch, frame, d) == Resolved(ch, frame, d)

Gap(ch, frame, d) == IF ~frame.usable /\ Rides(ch, d) THEN GapNow(ch, d) ELSE 0

\* _update_forced_open: open at a gap, closed where a fresh hand's grip is released.
Forced(ch, sample) ==
    IF sample = None \/ ~sample.fresh THEN TRUE ELSE IF sample.grip THEN forcedOpen[ch] ELSE FALSE

\* _Channel.publish: the loop never skips one.
Message(sample, forced) ==
    IF sample = None THEN [engaged |-> FALSE, fresh |-> FALSE]
    ELSE [engaged |-> sample.grip /\ sample.fresh /\ ~forced, fresh |-> sample.fresh]

\* tick: one frame for all the channels, whose readings may differ.
BridgeTick ==
    \E frame \in [Channels -> Frames], d \in 1..MaxTick :
      LET sample == [ch \in Channels |-> Resolved(ch, frame[ch], d)]
          dead == [ch \in Channels |-> sample[ch] = None \/ ~sample[ch].fresh]
      IN
      /\ sinceChange' = [ch \in Channels |-> IF frame[ch].usable THEN Changed(ch, frame[ch], d)
                                             ELSE IF sinceChange[ch] = NoChange THEN NoChange
                                             ELSE Older(sinceChange[ch], d)]
      /\ lastSample' = [ch \in Channels |-> Kept(ch, frame[ch], d)]
      /\ gapFor' = [ch \in Channels |-> Gap(ch, frame[ch], d)]
      /\ forcedOpen' = [ch \in Channels |-> Forced(ch, sample[ch])]
      /\ sent' = [ch \in Channels |-> Message(sample[ch], forcedOpen'[ch])]
      /\ live' = [ch \in Channels |-> IF frame[ch].usable /\ Changed(ch, frame[ch], d) = 0 THEN 0
                                      ELSE Older(live[ch], d)]
      /\ shook' = [ch \in Channels |->
             ~dead[ch] /\ (shook[ch] \/ (frame[ch].usable /\ ~frame[ch].grip))]

BridgeNext == BridgeTick
BridgeSpec == BridgeInit /\ [][BridgeNext]_bridgeVars

-----------------------------------------------------------------------------
(* A channel says engaged only for a hand that was seen to move within the *)
(* freshness window and the gap it may ride out, whatever the order of     *)
(* frozen, missing and good frames, and only after its grip was released   *)
(* since the last outage.  A late tick adds to this no more than its own   *)
(* lateness, once: the gap is timed from its first bad frame               *)
(* (VrMapper, resolve, _update_forced_open).                               *)
DrivesLiveHand ==
    \A ch \in Channels : sent[ch].engaged => live[ch] < Oldest /\ shook[ch]
=============================================================================
