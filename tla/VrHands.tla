------------------------------ MODULE VrHands ------------------------------
(***************************************************************************)
(* Which controller drives which arm, and the proof of it before the arm   *)
(* is acquired (tools/vr-teleop, hands.py: resolve, HandCheck, listen).    *)
(*                                                                         *)
(* A bridge publishes both controllers each of its ticks, a port of its    *)
(* own for each; a port may skip a tick, and a sample reaches the check at *)
(* most MaxDelay ticks late, in the order of its port.  Times count down   *)
(* in ticks.                                                               *)
(***************************************************************************)
EXTENDS Integers, Sequences

CONSTANTS
    Arms,       \* the values of --arm
    Window,     \* --hand-check-seconds, in ticks
    Confirm,    \* CONFIRM_NS, in ticks
    Slack,      \* CONFIRM_SLACK_NS, in ticks
    MaxDelay,   \* bound: how late a sample arrives, in ticks
    MaxTicks    \* bound on the ticks of the bridge

(* The other port's sample of the moment of a squeeze is there in time; no *)
(* one wakes a controller, lets go of its grip and squeezes within the     *)
(* delay, which would be read in one go (MaxDelay <= 1: three ticks).      *)
ASSUME HandsAssumption ==
    /\ Window \in Nat /\ Confirm \in Nat /\ Slack \in Nat /\ MaxTicks \in Nat
    /\ MaxDelay \in {0, 1} /\ Slack < Confirm /\ MaxDelay < Confirm

VARIABLES
    port, oneController,    \* the chosen hand's port, and --one-controller
    stage,      \* HandCheck.stage
    left,       \* deadline, from now
    gripReleased, otherSeen,    \* the fields of these names
    last,       \* last[self.other]: whether engaged; "none" before its first
    span,       \* from squeezed_ns to now, and to held_ns
    outcome,    \* done and failure
    samples,       \* external: the samples on their way, by port
    ticks,      \* bound
    squeeze     \* history: what the bridge published with the squeeze that counts

handsVars == <<port, oneController, stage, left, gripReleased, otherSeen, last, span, outcome, samples, ticks, squeeze>>

Hands == {"left", "right"}
Other(hand) == IF hand = "left" THEN "right" ELSE "left"
Paired == [arm \in Arms |-> CASE arm = "L" -> "left" [] arm = "R" -> "right" [] OTHER -> "none"]

\* What the other port sent at the same tick goes with a sample, for the history alone.
Flags == {"asleep", "up", "engaged"}
HandSamples == [flags : Flags, with : Flags \cup {"none"}]
NoSqueeze == [flags |-> "asleep", with |-> "none"]

Args == [arm : Arms, hand : Hands \cup {"none"}, endpoint : Hands \cup {"none", "neither"},
         cross : BOOLEAN, oneController : BOOLEAN]

-----------------------------------------------------------------------------
\* resolve: the hand, or a refusal.
HandOf(a) == IF a.endpoint # "none" THEN a.endpoint
             ELSE IF a.hand # "none" THEN a.hand ELSE Paired[a.arm]

Refused(a) ==
    \/ a.endpoint = "neither"
    \/ a.endpoint \in Hands /\ a.hand \notin {"none", a.endpoint}
    \/ HandOf(a) = "none"
    \/ Paired[a.arm] \notin {"none", HandOf(a)} /\ ~a.cross

\* The port the check listens on for its hand: the endpoint's, or the hand's.
PortOf(a) == IF a.endpoint # "none" THEN a.endpoint ELSE HandOf(a)

HandsTypeOK ==
    /\ port \in Hands /\ stage \in {"awake", "squeeze", "confirm"}
    /\ left \in 0..Window \cup 0..Confirm
    /\ gripReleased \in BOOLEAN /\ otherSeen \in BOOLEAN /\ oneController \in BOOLEAN
    /\ last \in Flags \cup {"none"}
    /\ span \in [now : 0..Confirm, held : 0..Confirm]
    /\ outcome \in {"open", "passed", "failed"} /\ ticks \in 0..MaxTicks
    /\ squeeze \in HandSamples
    /\ samples \in [Hands -> Seq([sample : HandSamples, age : 0..MaxDelay])]

HandsInit ==
    /\ \E a \in Args : ~Refused(a) /\ port = PortOf(a) /\ oneController = a.oneController
    /\ stage = "awake" /\ left = Window /\ gripReleased = FALSE /\ otherSeen = FALSE
    /\ last = "none" /\ span = [now |-> 0, held |-> 0] /\ squeeze = NoSqueeze /\ ticks = 0
    /\ outcome = "open"
    /\ samples = [hand \in Hands |-> <<>>]

-----------------------------------------------------------------------------
\* feed: a sample of the other port, then of the chosen one at each stage.
FeedOther(sample) ==
    /\ last' = sample.flags
    /\ IF stage = "awake" THEN UNCHANGED <<otherSeen, outcome>>
       ELSE otherSeen' = TRUE /\ outcome' = IF sample.flags = "engaged" THEN "failed" ELSE outcome
    /\ UNCHANGED <<stage, left, gripReleased, span, squeeze>>

Wakes(sample) ==
    /\ stage = "awake"
    /\ IF sample.flags # "asleep" THEN stage' = "squeeze" /\ left' = Window
       ELSE UNCHANGED <<stage, left>>
    /\ UNCHANGED <<last, otherSeen, outcome, gripReleased, span, squeeze>>

\* A grip already held must be released first.
Squeezes_AtOnce(sample) ==
    /\ stage' = "confirm" /\ left' = 0 /\ squeeze' = sample
    /\ span' = [now |-> 0, held |-> Confirm] /\ UNCHANGED gripReleased

Squeezes(sample) ==
    /\ stage' = "confirm" /\ left' = Confirm /\ squeeze' = sample
    /\ span' = [now |-> 0, held |-> 0] /\ UNCHANGED gripReleased

Prompted(sample) ==
    /\ stage = "squeeze"
    /\ IF sample.flags = "engaged" /\ gripReleased THEN Squeezes(sample)
       ELSE gripReleased' = (gripReleased \/ sample.flags = "up") /\ UNCHANGED <<stage, left, span, squeeze>>
    /\ UNCHANGED <<last, otherSeen, outcome>>

Confirms(sample) ==
    /\ stage = "confirm"
    /\ IF sample.flags = "engaged" THEN span' = [span EXCEPT !.held = span.now] /\ UNCHANGED outcome
       ELSE outcome' = "failed" /\ UNCHANGED span
    /\ UNCHANGED <<stage, left, gripReleased, last, otherSeen, squeeze>>

\* listen: every sample is read, none is conflated.
Feed ==
    \E hand \in Hands :
      /\ outcome = "open" /\ samples[hand] # <<>>
      /\ samples' = [samples EXCEPT ![hand] = Tail(@)]
      /\ LET sample == Head(samples[hand]).sample IN
           IF hand # port THEN FeedOther(sample)
           ELSE Wakes(sample) \/ Prompted(sample) \/ Confirms(sample)
      /\ UNCHANGED <<port, oneController, ticks>>

\* passed.
QuietDuring == span.held < Confirm - Slack
Passed ==
    ~QuietDuring /\ last # "engaged" /\ (otherSeen \/ oneController)

\* tick, at the deadline.
Deadline ==
    /\ outcome = "open" /\ left = 0
    /\ outcome' = IF stage = "confirm" /\ Passed THEN "passed" ELSE "failed"
    /\ UNCHANGED <<port, oneController, stage, left, gripReleased, otherSeen, last, span, samples, ticks, squeeze>>

\* A tick of the bridge: what it sees of both controllers, published but for a port that skips it.
\* No sample waits longer than MaxDelay, and the check's own tick comes as often.
PortsTick ==
    /\ outcome = "open" /\ left > 0 /\ ticks < MaxTicks
    /\ \A hand \in Hands : \A i \in DOMAIN samples[hand] : samples[hand][i].age < MaxDelay
    /\ ticks' = ticks + 1 /\ left' = left - 1
    /\ span' = IF stage = "confirm" THEN [span EXCEPT !.now = @ + 1] ELSE span
    /\ \E seen \in [Hands -> Flags \cup {"none"}] :
         samples' = [hand \in Hands |->
             LET older == [i \in DOMAIN samples[hand] |-> [samples[hand][i] EXCEPT !.age = @ + 1]] IN
             IF seen[hand] = "none" THEN older
             ELSE Append(older, [sample |-> [flags |-> seen[hand], with |-> seen[Other(hand)]],
                                 age |-> 0])]
    /\ UNCHANGED <<port, oneController, stage, gripReleased, otherSeen, last, outcome, squeeze>>

HandsNext == Feed \/ Deadline \/ PortsTick
HandsSpec == HandsInit /\ [][HandsNext]_handsVars

-----------------------------------------------------------------------------
(* An arm that is acquired answers the controller it was meant for: its    *)
(* port is the hand's, crossed only with --cross (resolve), and the grip   *)
(* whose squeeze proved it was the only one held at that moment, as the    *)
(* bridge published it, though the samples of the two ports come in any    *)
(* order (HandCheck).                                                      *)
OneGripProves ==
    /\ \A a \in Args : ~Refused(a) =>
         PortOf(a) = HandOf(a) /\ (Paired[a.arm] \notin {"none", HandOf(a)} => a.cross)
    /\ outcome = "passed" => squeeze.flags = "engaged" /\ squeeze.with # "engaged"
=============================================================================
