---------------------------- MODULE LibraryProofs ----------------------------
(***************************************************************************)
(* What MCLibrary checks on small instances, proved for every value of the *)
(* constants: the panel's numbers and teleoperation's knobs are current,   *)
(* a client tells a silent node from its own stall, one grip proves a      *)
(* hand, a robot is opened once and understood, what a loop with the       *)
(* limiter sends is no jump, and a torque loop's goal and torques keep off *)
(* the ends of the axis.                                                   *)
(*                                                                         *)
(* Each part has an inductive invariant of its own, preserved by its own   *)
(* steps and by a stutter; a step of the library is one of each part.      *)
(***************************************************************************)
EXTENDS MCLibrary, TLAPS

-----------------------------------------------------------------------------
(* The panel's numbers. *)

\* What a reader keeps for itself and for the next is of the stream it began in, or a later one.
ReaderIsCurrent(x, now) ==
    /\ x.since <= now /\ x.takenAt <= now
    /\ x.at \in {"copy", "fold", "keep"} => x.since = x.takenAt
    /\ x.at \in {"fold", "keep"} => x.snap \in Nat /\ x.snap >= x.since
    /\ (x.at = "serve" /\ x.ok) => x.snap \in Nat /\ x.snap >= x.since

\* What a reader serves and hands on is of the stream that runs, and so are the peak and the cache.
NumbersInv ==
    /\ PanelMetricsTypeOK
    /\ feeding = "reset" => resets < MaxResets
    /\ markerEpoch <= resets + (MaxMarks - marks)
    /\ peak \in {Nothing, markerEpoch}
    /\ cached.snap # Nothing => cached.snap >= cached.resets
    /\ \A r \in Readers : ReaderIsCurrent(reader[r], resets)

\* A reader's record, built from its fields.
LEMMA ReadingMade ==
    ASSUME NEW at \in {"idle", "copy", "fold", "keep", "serve"}, NEW since \in 0..MaxResets,
           NEW takenAt \in 0..MaxResets, NEW snap \in Snaps, NEW epoch \in Epochs,
           NEW ok \in BOOLEAN
    PROVE  [at |-> at, since |-> since, takenAt |-> takenAt, snap |-> snap, epoch |-> epoch,
            ok |-> ok] \in Reading
  BY DEF Reading

\* The fields of a reader's record.
LEMMA ReadingFields ==
    ASSUME NEW x \in Reading
    PROVE  /\ x.at \in {"idle", "copy", "fold", "keep", "serve"} /\ x.since \in 0..MaxResets
           /\ x.takenAt \in 0..MaxResets /\ x.snap \in Snaps /\ x.epoch \in Epochs /\ x.ok \in BOOLEAN
           /\ x = [at |-> x.at, since |-> x.since, takenAt |-> x.takenAt, snap |-> x.snap,
                   epoch |-> x.epoch, ok |-> x.ok]
  BY DEF Reading

\* What has the fields of a reader's record is one.
LEMMA ReadingIs ==
    ASSUME NEW y,
           y.at \in {"idle", "copy", "fold", "keep", "serve"}, y.since \in 0..MaxResets,
           y.takenAt \in 0..MaxResets, y.snap \in Snaps, y.epoch \in Epochs, y.ok \in BOOLEAN,
           y = [at |-> y.at, since |-> y.since, takenAt |-> y.takenAt, snap |-> y.snap,
                epoch |-> y.epoch, ok |-> y.ok]
    PROVE  y \in Reading
  BY DEF Reading

\* The panel's numbers begin with nothing measured.
LEMMA NumbersInit == PanelMetricsInit => NumbersInv
<1> SUFFICES ASSUME PanelMetricsInit PROVE NumbersInv
  OBVIOUS
<1> USE PanelMetricsAssumption
<1>1. 0 \in 0..MaxResets /\ Nothing \in Snaps /\ 0 \in Epochs /\ MaxMarks \in 0..MaxMarks
  BY DEF Snaps, Epochs
<1>2. [at |-> "idle", since |-> 0, takenAt |-> 0, snap |-> Nothing, epoch |-> 0, ok |-> FALSE] \in Reading
  BY <1>1, ReadingMade
<1>3. reader \in [Readers -> Reading] /\ \A r \in Readers : ReaderIsCurrent(reader[r], resets)
  BY <1>2 DEF PanelMetricsInit, ReaderIsCurrent
<1> QED
  <2>1. cached \in [snap : Snaps, resets : 0..MaxResets] /\ cached.snap = Nothing
    BY <1>1 DEF PanelMetricsInit
  <2>2. PanelMetricsTypeOK
    BY <1>1, <1>3, <2>1 DEF PanelMetricsInit, PanelMetricsTypeOK
  <2> QED
    <3>1. markerEpoch <= resets + (MaxMarks - marks)
      BY DEF PanelMetricsInit
    <3>2. feeding = "idle" /\ peak = Nothing
      BY DEF PanelMetricsInit
    <3> QED
      BY <1>3, <2>1, <2>2, <3>1, <3>2 DEF NumbersInv

\* Each step of a feed, a reset and a reader keeps the numbers' invariant.
LEMMA NumbersStep == NumbersInv /\ [PanelMetricsNext]_panelMetricsVars => NumbersInv'
<1> SUFFICES ASSUME NumbersInv, [PanelMetricsNext]_panelMetricsVars PROVE NumbersInv'
  OBVIOUS
<1> USE PanelMetricsAssumption
<1>0. /\ measured \in BOOLEAN /\ resets \in 0..MaxResets /\ rows \in BOOLEAN /\ markerEpoch \in Epochs
      /\ peak \in Epochs \cup {Nothing} /\ cached \in [snap : Snaps, resets : 0..MaxResets]
      /\ reader \in [Readers -> Reading] /\ feeding \in {"idle", "reset", "push"}
      /\ marks \in 0..MaxMarks
  BY DEF NumbersInv, PanelMetricsTypeOK
<1>a. resets \in Snaps
  BY <1>0 DEF Snaps
<1> USE <1>a
<1>1. CASE OnState
  BY <1>0, <1>1 DEF OnState, NumbersInv, PanelMetricsTypeOK, ReaderIsCurrent
<1>2. CASE OnRate
  <2>1. resets' \in 0..MaxResets /\ markerEpoch' \in Epochs /\ resets' = resets + 1 /\ markerEpoch' <= resets' + (MaxMarks - marks')
    BY <1>0, <1>2 DEF OnRate, Reset, NumbersInv, Epochs
  <2>2. UNCHANGED <<measured, cached, reader, marks>> /\ peak' = Nothing /\ rows' = FALSE /\ feeding' = "push"
    BY <1>2 DEF OnRate, Reset
  <2>3. \A r \in Readers : ReaderIsCurrent(reader'[r], resets')
    BY <1>0, <2>1, <2>2, ReadingFields DEF NumbersInv, ReaderIsCurrent
  <2>4. cached'.snap # Nothing => cached'.snap >= cached'.resets
    BY <2>2 DEF NumbersInv
  <2> QED
    BY <1>0, <2>1, <2>2, <2>3, <2>4 DEF NumbersInv, PanelMetricsTypeOK
<1>3. CASE Push
  <2>1. resets' \in 0..MaxResets /\ markerEpoch' \in Epochs /\ resets' >= resets /\ markerEpoch' <= resets' + (MaxMarks - marks')
    BY <1>0, <1>3 DEF Push, Reset, NumbersInv, Epochs
  <2> QED
    BY <1>0, <1>3, <2>1 DEF Push, Reset, NumbersInv, PanelMetricsTypeOK, ReaderIsCurrent, Reading
<1>4. CASE Mark
  <2>1. markerEpoch' \in Epochs /\ markerEpoch' <= resets' + (MaxMarks - marks')
    BY <1>0, <1>4 DEF Mark, NumbersInv, Epochs
  <2> QED
    BY <1>0, <1>4, <2>1 DEF Mark, NumbersInv, PanelMetricsTypeOK, ReaderIsCurrent, Reading
<1>5. ASSUME NEW r \in Readers, MetricsEvent(r) \/ Copy(r) \/ Fold(r) \/ KeepSnapshot(r) \/ Served(r)
      PROVE NumbersInv'
  <2> DEFINE x == reader[r]
             y == reader'[r]
  <2>a. x \in Reading
    BY <1>0
  <2>0. /\ x \in Reading /\ ReaderIsCurrent(x, resets)
        /\ x.at \in {"idle", "copy", "fold", "keep", "serve"} /\ x.since \in 0..MaxResets
        /\ x.takenAt \in 0..MaxResets /\ x.snap \in Snaps /\ x.epoch \in Epochs /\ x.ok \in BOOLEAN
        /\ x = [at |-> x.at, since |-> x.since, takenAt |-> x.takenAt, snap |-> x.snap,
                epoch |-> x.epoch, ok |-> x.ok]
    BY <2>a, ReadingFields DEF NumbersInv
  <2>1. reader' = [reader EXCEPT ![r] = y]
    BY <1>0, <1>5 DEF MetricsEvent, Copy, Fold, KeepSnapshot, Served
  <2>2. UNCHANGED <<measured, resets, rows, markerEpoch, feeding, marks>>
    BY <1>5 DEF MetricsEvent, Copy, Fold, KeepSnapshot, Served
  <2>3. SUFFICES /\ y \in Reading /\ ReaderIsCurrent(y, resets)
                 /\ peak' \in Epochs \cup {Nothing} /\ peak' \in {Nothing, markerEpoch}
                 /\ cached' \in [snap : Snaps, resets : 0..MaxResets]
                 /\ cached'.snap # Nothing => cached'.snap >= cached'.resets
    <3>1. reader' \in [Readers -> Reading]
      BY <1>0, <2>1, <2>3
    <3>2. \A q \in Readers : q # r => reader'[q] = reader[q]
      BY <1>0, <2>1
    <3>3. \A q \in Readers : ReaderIsCurrent(reader'[q], resets')
      <4> SUFFICES ASSUME NEW q \in Readers PROVE ReaderIsCurrent(reader'[q], resets')
        OBVIOUS
      <4>1. ReaderIsCurrent(reader'[q], resets)
        BY <2>3, <3>2 DEF NumbersInv
      <4> QED
        BY <2>2, <4>1 DEF ReaderIsCurrent
    <3> QED
      BY <1>0, <2>2, <2>3, <3>1, <3>3 DEF NumbersInv, PanelMetricsTypeOK
  <2>4. CASE MetricsEvent(r)
    <3>1. UNCHANGED <<peak, cached>>
      BY <2>4 DEF MetricsEvent
    <3>2. CASE y = [x EXCEPT !.at = "serve", !.since = resets, !.ok = FALSE]
      <4>1. y = [at |-> "serve", since |-> resets, takenAt |-> x.takenAt, snap |-> x.snap, epoch |-> x.epoch, ok |-> FALSE]
        BY <2>0, <3>2
      <4>2. y \in Reading
        <5>1. /\ y.at \in {"idle", "copy", "fold", "keep", "serve"} /\ y.since \in 0..MaxResets
              /\ y.takenAt \in 0..MaxResets /\ y.snap \in Snaps /\ y.epoch \in Epochs
          BY <1>0, <2>0, <3>2, <4>1
        <5>2. y.ok \in BOOLEAN
          BY <1>0, <2>0, <3>2, <4>1
        <5>3. y = [at |-> y.at, since |-> y.since, takenAt |-> y.takenAt, snap |-> y.snap,
                   epoch |-> y.epoch, ok |-> y.ok]
          BY <4>1
        <5> HIDE DEF y
        <5> QED
          BY <5>1, <5>2, <5>3, ReadingIs
      <4>3. ReaderIsCurrent(y, resets)
        BY <1>0, <2>0 , <3>2, <4>1 DEF ReaderIsCurrent
      <4> QED
        BY <1>0, <3>1, <4>2, <4>3 DEF NumbersInv
    <3>3. CASE Usable /\ y = [x EXCEPT !.at = "serve", !.since = resets, !.snap = cached.snap, !.ok = TRUE]
      <4>1. y = [at |-> "serve", since |-> resets, takenAt |-> x.takenAt, snap |-> cached.snap, epoch |-> x.epoch, ok |-> TRUE]
        BY <2>0, <3>3
      <4>2. y \in Reading
        <5>1. /\ y.at \in {"idle", "copy", "fold", "keep", "serve"} /\ y.since \in 0..MaxResets
              /\ y.takenAt \in 0..MaxResets /\ y.snap \in Snaps /\ y.epoch \in Epochs
          BY <1>0, <2>0, <3>3, <4>1
        <5>2. y.ok \in BOOLEAN
          BY <1>0, <2>0, <3>3, <4>1
        <5>3. y = [at |-> y.at, since |-> y.since, takenAt |-> y.takenAt, snap |-> y.snap,
                   epoch |-> y.epoch, ok |-> y.ok]
          BY <4>1
        <5> HIDE DEF y
        <5> QED
          BY <5>1, <5>2, <5>3, ReadingIs
      <4>3. ReaderIsCurrent(y, resets)
        BY <1>0, <2>0 , <3>3, <4>1 DEF ReaderIsCurrent, NumbersInv, Usable, Snaps
      <4> QED
        BY <1>0, <3>1, <4>2, <4>3 DEF NumbersInv
    <3>4. CASE y = [x EXCEPT !.at = "copy", !.since = resets, !.takenAt = resets]
      <4>1. y = [at |-> "copy", since |-> resets, takenAt |-> resets, snap |-> x.snap, epoch |-> x.epoch, ok |-> x.ok]
        BY <2>0, <3>4
      <4>2. y \in Reading
        <5>1. /\ y.at \in {"idle", "copy", "fold", "keep", "serve"} /\ y.since \in 0..MaxResets
              /\ y.takenAt \in 0..MaxResets /\ y.snap \in Snaps /\ y.epoch \in Epochs
          BY <1>0, <2>0, <3>4, <4>1
        <5>2. y.ok \in BOOLEAN
          BY <1>0, <2>0, <3>4, <4>1
        <5>3. y = [at |-> y.at, since |-> y.since, takenAt |-> y.takenAt, snap |-> y.snap,
                   epoch |-> y.epoch, ok |-> y.ok]
          BY <4>1
        <5> HIDE DEF y
        <5> QED
          BY <5>1, <5>2, <5>3, ReadingIs
      <4>3. ReaderIsCurrent(y, resets)
        BY <1>0, <2>0 , <3>4, <4>1 DEF ReaderIsCurrent
      <4> QED
        BY <1>0, <3>1, <4>2, <4>3 DEF NumbersInv
    <3> QED
      BY <1>0, <2>4, <3>2, <3>3, <3>4 DEF MetricsEvent
  <2>5. CASE Copy(r)
    <3>1. UNCHANGED <<peak, cached>>
      BY <2>5 DEF Copy
    <3>2. CASE y = [x EXCEPT !.at = "fold", !.snap = resets, !.epoch = markerEpoch, !.ok = TRUE]
      <4>1. y = [at |-> "fold", since |-> x.since, takenAt |-> x.takenAt, snap |-> resets, epoch |-> markerEpoch, ok |-> TRUE]
        BY <2>0, <3>2
      <4>2. y \in Reading
        <5>1. /\ y.at \in {"idle", "copy", "fold", "keep", "serve"} /\ y.since \in 0..MaxResets
              /\ y.takenAt \in 0..MaxResets /\ y.snap \in Snaps /\ y.epoch \in Epochs
          BY <1>0, <2>0, <3>2, <4>1
        <5>2. y.ok \in BOOLEAN
          BY <1>0, <2>0, <3>2, <4>1
        <5>3. y = [at |-> y.at, since |-> y.since, takenAt |-> y.takenAt, snap |-> y.snap,
                   epoch |-> y.epoch, ok |-> y.ok]
          BY <4>1
        <5> HIDE DEF y
        <5> QED
          BY <5>1, <5>2, <5>3, ReadingIs
      <4>3. ReaderIsCurrent(y, resets)
        BY <1>0, <2>0, <2>5, <3>2, <4>1 DEF ReaderIsCurrent, Copy
      <4> QED
        BY <1>0, <3>1, <4>2, <4>3 DEF NumbersInv
    <3>3. CASE y = [x EXCEPT !.at = "keep", !.snap = resets, !.ok = FALSE]
      <4>1. y = [at |-> "keep", since |-> x.since, takenAt |-> x.takenAt, snap |-> resets, epoch |-> x.epoch, ok |-> FALSE]
        BY <2>0, <3>3
      <4>2. y \in Reading
        <5>1. /\ y.at \in {"idle", "copy", "fold", "keep", "serve"} /\ y.since \in 0..MaxResets
              /\ y.takenAt \in 0..MaxResets /\ y.snap \in Snaps /\ y.epoch \in Epochs
          BY <1>0, <2>0, <3>3, <4>1
        <5>2. y.ok \in BOOLEAN
          BY <1>0, <2>0, <3>3, <4>1
        <5>3. y = [at |-> y.at, since |-> y.since, takenAt |-> y.takenAt, snap |-> y.snap,
                   epoch |-> y.epoch, ok |-> y.ok]
          BY <4>1
        <5> HIDE DEF y
        <5> QED
          BY <5>1, <5>2, <5>3, ReadingIs
      <4>3. ReaderIsCurrent(y, resets)
        BY <1>0, <2>0, <2>5, <3>3, <4>1 DEF ReaderIsCurrent, Copy
      <4> QED
        BY <1>0, <3>1, <4>2, <4>3 DEF NumbersInv
    <3> QED
      BY <1>0, <2>5, <3>2, <3>3 DEF Copy
  <2>6. CASE Fold(r)
    <3>1. UNCHANGED cached /\ y = [x EXCEPT !.at = "keep"]
      BY <1>0, <2>6 DEF Fold, ReaderAt
    <3>2. peak' \in {Nothing, markerEpoch}
      BY <2>6 DEF Fold, Peaks, NumbersInv
    <3>3. y \in Reading /\ ReaderIsCurrent(y, resets)
      BY <2>0, <2>6, <3>1, ReadingMade DEF Fold, ReaderIsCurrent
    <3> QED
      BY <1>0, <3>1, <3>2, <3>3 DEF NumbersInv
  <2>7. CASE KeepSnapshot(r)
    <3>1. UNCHANGED peak /\ cached' = [snap |-> x.snap, resets |-> x.takenAt] /\ y = [x EXCEPT !.at = "serve"]
      BY <1>0, <2>7 DEF KeepSnapshot, ReaderAt, KeptWith
    <3>3. y \in Reading /\ ReaderIsCurrent(y, resets)
      BY <2>0, <2>7, <3>1, ReadingMade DEF KeepSnapshot, ReaderIsCurrent
    <3>4. x.snap \in Snaps /\ x.takenAt \in 0..MaxResets /\ x.snap >= x.takenAt
      BY <2>0, <2>7 DEF KeepSnapshot, Reading, ReaderIsCurrent
    <3> QED
      BY <1>0, <3>1, <3>3, <3>4 DEF NumbersInv
  <2>8. CASE Served(r)
    <3>1. UNCHANGED <<peak, cached>> /\ y = [at |-> "idle", since |-> 0, takenAt |-> 0, snap |-> Nothing, epoch |-> 0, ok |-> FALSE]
      BY <1>0, <2>8 DEF Served
    <3> QED
      BY <1>0, <3>1 DEF NumbersInv, Reading, ReaderIsCurrent, Snaps, Epochs
  <2> QED
    BY <1>5, <2>4, <2>5, <2>6, <2>7, <2>8
<1>6. CASE UNCHANGED panelMetricsVars
  BY <1>6 DEF NumbersInv, PanelMetricsTypeOK, ReaderIsCurrent, panelMetricsVars
<1> QED
  BY <1>1, <1>2, <1>3, <1>4, <1>5, <1>6 DEF PanelMetricsNext

\* So a number that is shown is of this stream.
LEMMA NumbersHold == NumbersInv => NumbersOfThisStream
  BY DEF NumbersInv, NumbersOfThisStream, ReaderIsCurrent

-----------------------------------------------------------------------------
(* The client's silence check. *)

\* The node talks, and no stall was one that StallsAreForgiven leaves out.
Live == talks.is /\ ~awake.soon

\* The process has just resumed and its state is old: its next cycle sees the stall, or has.
Woken ==
    /\ Silent /\ awake.since <= clock /\ clock <= awake.since + 1
    /\ \/ awake.since = clock /\ resumeBy = NoTime /\ Stalled
       \/ resumeBy = awake.since + Grace

\* A state that waits is young, or the process has just resumed.
WaitsShortly ==
    waiting => \/ awake.since = clock /\ clock - received <= Period
               \/ clock - received <= Period + 1 /\ awake.since < clock
               \/ Woken

\* While the node talks it is not given up: an awake process runs each tick, a state waits shortly.
Forgiving ==
    Live => /\ lostAt = NoTime
            /\ awake.is => (awake.since < clock => lastTick >= clock - 1) /\ WaitsShortly
            /\ ~awake.is => resumeBy = NoTime /\ received >= awake.since - Period /\ lastTick <= awake.since

\* Once late, the node has one grace at most.
Bounded ==
    lostAt = NoTime =>
      /\ firstLate = NoTime => resumeBy = NoTime
      /\ firstLate # NoTime => resumeBy # NoTime /\ resumeBy <= firstLate + Grace /\ lastTick < resumeBy

\* The silence check's invariant: clocks in order, and both judgements.
SilenceInv ==
    /\ SilenceTypeOK
    /\ lastTick # NoTime
    /\ talks.last <= clock /\ awake.since <= clock /\ received <= clock /\ lastTick <= clock
    /\ talks.is => clock - talks.last <= Period
    /\ ~waiting => received >= talks.last
    /\ Forgiving /\ Bounded

\* A session begins with a state that has just arrived.
LEMMA SilenceBegins == SilenceInit => SilenceInv
<1> SUFFICES ASSUME SilenceInit PROVE SilenceInv
  OBVIOUS
<1>1. 0 \in Clock /\ 0 <= MaxClock + Grace
  BY SilenceAssumption DEF Clock
<1>2. awake \in [is : BOOLEAN, since : Clock, soon : BOOLEAN] /\ talks \in [is : BOOLEAN, last : Clock]
  BY <1>1 DEF SilenceInit
<1>3. SilenceTypeOK
  BY <1>1, <1>2 DEF SilenceInit, SilenceTypeOK, Times
<1> QED
  BY <1>3, SilenceAssumption DEF SilenceInit, SilenceInv, Forgiving, Bounded, WaitsShortly, Clock

\* Each tick, state, stall and cycle of the check keeps its invariant.
LEMMA SilenceSteps == SilenceInv /\ [SilenceNext]_silenceVars => SilenceInv'
<1> SUFFICES ASSUME SilenceInv, [SilenceNext]_silenceVars PROVE SilenceInv'
  OBVIOUS
<1> DEFINE up == awake.is
           soon == awake.soon
           talk == talks.is
<1>a. /\ Period \in Nat /\ Period >= 1 /\ SilentAfter \in Nat /\ SilentAfter >= 3 * Period
      /\ Grace \in Nat /\ Grace >= Period + 1 /\ MaxClock \in Nat /\ NoTime \notin Int
  BY SilenceAssumption
<1> USE <1>a
<1>0. /\ clock \in Nat /\ clock <= MaxClock /\ received \in Nat /\ lastTick \in Nat
      /\ (resumeBy = NoTime \/ resumeBy \in Nat)
      /\ (lostAt = NoTime \/ lostAt \in Nat) /\ (firstLate = NoTime \/ firstLate \in Nat)
      /\ waiting \in BOOLEAN /\ awake.since \in Nat /\ talks.last \in Nat
      /\ talks.last <= clock /\ awake.since <= clock /\ received <= clock /\ lastTick <= clock
  BY DEF SilenceInv, SilenceTypeOK, Clock, Times
<1>b. /\ up \in BOOLEAN /\ soon \in BOOLEAN /\ talk \in BOOLEAN
      /\ awake = [is |-> up, since |-> awake.since, soon |-> soon] /\ talks = [is |-> talk, last |-> talks.last]
  BY DEF SilenceInv, SilenceTypeOK
<1>c. /\ talk => clock - talks.last <= Period
      /\ ~waiting => received >= talks.last
      /\ Forgiving /\ Bounded
  BY DEF SilenceInv
<1>1. CASE StreamCycle
  <2>0. /\ up /\ lostAt = NoTime /\ lastTick' = clock
        /\ UNCHANGED <<clock, awake, talks, received, waiting>>
    BY <1>1 DEF StreamCycle
  <2>1. CASE ~Silent
    <3>1. resumeBy' = NoTime /\ firstLate' = NoTime /\ UNCHANGED lostAt
      BY <1>1, <2>1 DEF StreamCycle
    <3>2. SilenceTypeOK'
      BY <2>0, <3>1 DEF SilenceInv, SilenceTypeOK, Clock, Times
    <3>3. Forgiving'
      BY <1>0, <1>b, <1>c, <2>0, <2>1, <3>1 DEF Forgiving, Live, WaitsShortly, Woken, Silent
    <3> QED
      BY <1>0, <1>c, <2>0, <3>1, <3>2, <3>3 DEF SilenceInv, Bounded
  <2>2. CASE Silent
    <3>1. /\ resumeBy' = GraceUntil
          /\ firstLate' = IF firstLate = NoTime THEN clock ELSE firstLate
          /\ lostAt' = IF GraceUntil # NoTime /\ clock < GraceUntil THEN NoTime ELSE clock
      BY <1>1, <2>2 DEF StreamCycle
    <3>2. GraceUntil = (IF Stalled /\ resumeBy = NoTime THEN clock + Grace ELSE resumeBy)
      BY DEF GraceUntil
    <3>3. SilenceTypeOK'
      <4>1. resumeBy' \in 0..(MaxClock + Grace) \cup {NoTime}
        BY <1>0, <3>1, <3>2 DEF SilenceInv, SilenceTypeOK
      <4>2. firstLate' \in Times /\ lostAt' \in Times /\ lastTick' \in Times
        BY <1>0, <2>0, <3>1 DEF SilenceInv, SilenceTypeOK, Times, Clock
      <4> QED
        BY <2>0, <4>1, <4>2 DEF SilenceInv, SilenceTypeOK, Clock, Times
    <3>4. ASSUME Live
          PROVE  Woken /\ GraceUntil = awake.since + Grace /\ clock < GraceUntil
      <4>1. clock - received > SilentAfter
        BY <2>2 DEF Silent
      <4>2. waiting
        BY <1>0, <1>c, <3>4, <4>1 DEF Live
      <4>3. Woken
        BY <1>0, <1>c, <2>0, <3>4, <4>1, <4>2 DEF Forgiving, WaitsShortly
      <4> QED
        BY <1>0, <4>3, <3>2 DEF Woken
    <3>5. Forgiving'
      <4> SUFFICES ASSUME Live' PROVE /\ lostAt' = NoTime
                                      /\ awake'.is => (awake'.since < clock' => lastTick' >= clock' - 1) /\ WaitsShortly'
                                      /\ ~awake'.is => resumeBy' = NoTime /\ received' >= awake'.since - Period /\ lastTick' <= awake'.since
        BY DEF Forgiving
      <4>1. Live
        BY <2>0 DEF Live
      <4>2. Woken /\ GraceUntil = awake.since + Grace /\ clock < GraceUntil
        BY <3>4, <4>1
      <4>3. lostAt' = NoTime /\ resumeBy' = awake.since + Grace
        BY <1>0, <3>1, <4>2
      <4>4. Woken'
        BY <2>0, <2>2, <4>2, <4>3 DEF Woken, Silent
      <4> QED
        BY <1>0, <2>0, <4>3, <4>4 DEF WaitsShortly
    <3>6. Bounded'
      <4> SUFFICES ASSUME lostAt' = NoTime
                   PROVE  /\ firstLate' # NoTime
                          /\ resumeBy' # NoTime /\ resumeBy' <= firstLate' + Grace /\ lastTick' < resumeBy'
        BY DEF Bounded
      <4>1. GraceUntil # NoTime /\ clock < GraceUntil
        BY <1>0, <3>1
      <4>2. firstLate' # NoTime
        BY <1>0, <3>1
      <4>3. resumeBy' <= firstLate' + Grace
        <5>1. CASE firstLate = NoTime
          BY <1>0, <1>c, <2>0, <3>1, <3>2, <4>1, <5>1 DEF Bounded
        <5>2. CASE firstLate # NoTime
          BY <1>0, <1>c, <2>0, <3>1, <3>2, <5>2 DEF Bounded
        <5> QED
          BY <5>1, <5>2
      <4> QED
        BY <2>0, <3>1, <4>1, <4>2, <4>3
    <3> QED
      BY <1>0, <1>c, <2>0, <3>3, <3>5, <3>6 DEF SilenceInv
  <2> QED
    BY <2>1, <2>2
<1>2. CASE OnSample
  <2>0. /\ up /\ waiting' = FALSE /\ received' = clock
        /\ UNCHANGED <<clock, awake, talks, lastTick, resumeBy, lostAt, firstLate>>
    BY <1>2 DEF OnSample
  <2>1. SilenceTypeOK'
    BY <2>0 DEF SilenceInv, SilenceTypeOK, Clock, Times
  <2>2. Forgiving'
    BY <1>c, <2>0 DEF Forgiving, Live, WaitsShortly
  <2> QED
    BY <1>0, <1>c, <2>0, <2>1, <2>2 DEF SilenceInv, Bounded
<1>3. CASE Stall
  <2>0. /\ awake' = [is |-> FALSE, since |-> clock, soon |-> soon \/ waiting \/ resumeBy # NoTime]
        /\ UNCHANGED <<clock, talks, received, waiting, lastTick, resumeBy, lostAt, firstLate>>
    BY <1>3 DEF Stall
  <2> DEFINE late == soon \/ waiting \/ resumeBy # NoTime
  <2>a. late \in BOOLEAN
    OBVIOUS
  <2>b. awake'.is = FALSE /\ awake'.since = clock /\ awake'.soon = late /\ awake' \in [is : BOOLEAN, since : Clock, soon : BOOLEAN]
    <3>1. awake' = [is |-> FALSE, since |-> clock, soon |-> late] /\ clock \in Clock
      BY <1>0, <2>0 DEF Clock
    <3> HIDE DEF late
    <3> QED
      BY <2>a, <3>1
  <2>1. SilenceTypeOK'
    BY <2>0, <2>b DEF SilenceInv, SilenceTypeOK, Clock, Times
  <2>2. Forgiving'
    <3>1. Live' => talk /\ ~soon /\ ~waiting /\ resumeBy = NoTime
      BY <2>0, <2>b DEF Live
    <3>2. Live' => Live
      BY <3>1 DEF Live
    <3> QED
      BY <1>0, <1>c, <2>0, <2>b, <3>1, <3>2 DEF Forgiving
  <2> QED
    BY <1>0, <1>c, <2>0, <2>b, <2>1, <2>2 DEF SilenceInv, Bounded
<1>4. CASE Resume
  <2>0. /\ ~up /\ awake' = [is |-> TRUE, since |-> clock, soon |-> soon \/ (waiting /\ ~Silent)]
        /\ UNCHANGED <<clock, talks, received, waiting, lastTick, resumeBy, lostAt, firstLate>>
    BY <1>4 DEF Resume
  <2> DEFINE late == soon \/ (waiting /\ ~Silent)
  <2>a. late \in BOOLEAN
    OBVIOUS
  <2>b. awake'.is = TRUE /\ awake'.since = clock /\ awake'.soon = late /\ awake' \in [is : BOOLEAN, since : Clock, soon : BOOLEAN]
    <3>1. awake' = [is |-> TRUE, since |-> clock, soon |-> late] /\ clock \in Clock
      BY <1>0, <2>0 DEF Clock
    <3> HIDE DEF late
    <3> QED
      BY <2>a, <3>1
  <2>1. SilenceTypeOK'
    BY <2>0, <2>b DEF SilenceInv, SilenceTypeOK, Clock, Times
  <2>2. Forgiving'
    <3> SUFFICES ASSUME Live' PROVE lostAt' = NoTime /\ WaitsShortly'
      BY <1>0, <2>0, <2>b DEF Forgiving
    <3>1. Live /\ (waiting => Silent)
      BY <2>0, <2>b DEF Live
    <3>2. lostAt = NoTime /\ resumeBy = NoTime /\ received >= awake.since - Period /\ lastTick <= awake.since
      BY <1>c, <2>0, <3>1 DEF Forgiving
    <3>3. Silent => Stalled
      BY <1>0, <3>2 DEF Silent, Stalled
    <3> QED
      BY <1>0, <2>0, <2>b, <3>1, <3>2, <3>3 DEF WaitsShortly, Woken, Silent, Stalled
  <2> QED
    BY <1>0, <1>c, <2>0, <2>b, <2>1, <2>2 DEF SilenceInv, Bounded
<1>5. CASE NodePublishes
  <2>0. /\ talk /\ talks' = [talks EXCEPT !.last = clock] /\ waiting' = TRUE
        /\ UNCHANGED <<clock, awake, received, lastTick, resumeBy, lostAt, firstLate>>
    BY <1>5 DEF NodePublishes
  <2>1. talks'.is /\ talks'.last = clock /\ talks' \in [is : BOOLEAN, last : Clock]
    <3>1. talk = TRUE /\ clock \in Clock
      BY <1>0, <1>b, <2>0 DEF Clock
    <3>2. talks' = [is |-> talk, last |-> clock]
      BY <1>b, <2>0
    <3> QED
      BY <3>1, <3>2
  <2>2. SilenceTypeOK'
    BY <2>0, <2>1 DEF SilenceInv, SilenceTypeOK, Clock, Times
  <2>3. Forgiving'
    <3>1. Live' = Live
      BY <2>0, <2>1 DEF Live
    <3>2. Woken' = Woken
      BY <2>0 DEF Woken, Silent, Stalled
    <3>3. Live => WaitsShortly' \/ ~up
      BY <1>0, <1>c, <2>0, <3>2 DEF Live, Forgiving, WaitsShortly
    <3> QED
      BY <1>0, <1>c, <2>0, <3>1, <3>3 DEF Forgiving
  <2> QED
    BY <1>0, <1>c, <2>0, <2>1, <2>2, <2>3 DEF SilenceInv, Bounded
<1>6. CASE NodeDies
  <2>0. /\ talks' = [talks EXCEPT !.is = FALSE]
        /\ UNCHANGED <<clock, awake, received, waiting, lastTick, resumeBy, lostAt, firstLate>>
    BY <1>6 DEF NodeDies
  <2>1. talks'.is = FALSE /\ talks'.last = talks.last /\ talks' \in [is : BOOLEAN, last : Clock]
    <3>1. talks.last \in Clock
      BY DEF SilenceInv, SilenceTypeOK
    <3>2. talks' = [is |-> FALSE, last |-> talks.last]
      BY <1>b, <2>0
    <3> QED
      BY <3>1, <3>2
  <2>2. SilenceTypeOK'
    BY <2>0, <2>1 DEF SilenceInv, SilenceTypeOK, Clock, Times
  <2>3. Forgiving'
    BY <2>1 DEF Forgiving, Live
  <2> QED
    BY <1>0, <1>c, <2>0, <2>1, <2>2, <2>3 DEF SilenceInv, Bounded
<1>7. CASE Tick
  <2>0. /\ clock < MaxClock /\ clock' = clock + 1
        /\ talk => clock - talks.last < Period
        /\ up => (lastTick = clock \/ lostAt # NoTime) /\ ~(waiting /\ awake.since < clock)
        /\ UNCHANGED <<awake, talks, received, waiting, lastTick, resumeBy, lostAt, firstLate>>
    BY <1>7 DEF Tick
  <2>2. SilenceTypeOK'
    BY <1>0, <2>0 DEF SilenceInv, SilenceTypeOK, Clock, Times
  <2>3. Forgiving'
    <3> SUFFICES ASSUME Live
                 PROVE  /\ lostAt' = NoTime
                        /\ awake'.is => (awake'.since < clock' => lastTick' >= clock' - 1) /\ WaitsShortly'
                        /\ ~awake'.is => resumeBy' = NoTime /\ received' >= awake'.since - Period /\ lastTick' <= awake'.since
      BY <2>0 DEF Forgiving, Live
    <3>1. lostAt = NoTime /\ (~up => resumeBy = NoTime /\ received >= awake.since - Period /\ lastTick <= awake.since)
      BY <1>c DEF Forgiving
    <3>2. CASE up
      <4>1. lastTick = clock /\ (waiting => awake.since = clock)
        BY <1>0, <2>0, <3>1, <3>2
      <4>2. WaitsShortly
        BY <1>c, <3>2 DEF Forgiving
      <4>3. WaitsShortly'
        BY <1>0, <2>0, <4>1, <4>2 DEF WaitsShortly, Woken, Silent, Stalled
      <4> QED
        BY <1>0, <2>0, <3>1, <4>1, <4>3
    <3> QED
      BY <2>0, <3>1, <3>2
  <2> QED
    BY <1>0, <1>c, <2>0, <2>2, <2>3 DEF SilenceInv, Bounded
<1>8. CASE UNCHANGED silenceVars
  BY <1>8 DEF SilenceInv, SilenceTypeOK, Forgiving, Bounded, Live, WaitsShortly, Woken, Silent, Stalled, silenceVars
<1> QED
  BY <1>1, <1>2, <1>3, <1>4, <1>5, <1>6, <1>7, <1>8 DEF SilenceNext

\* So a stall is forgiven, and silence is not.
LEMMA SilenceHolds == SilenceInv => StallsAreForgiven /\ SilenceIsBounded
<1> SUFFICES ASSUME SilenceInv PROVE StallsAreForgiven /\ SilenceIsBounded
  OBVIOUS
<1>1. StallsAreForgiven
  BY DEF SilenceInv, SilenceTypeOK, Forgiving, Live, StallsAreForgiven
<1>2. SilenceIsBounded
  <2> SUFFICES ASSUME firstLate # NoTime, lostAt = NoTime PROVE lastTick < firstLate + Grace
    BY DEF SilenceIsBounded
  <2>1. resumeBy # NoTime /\ resumeBy <= firstLate + Grace /\ lastTick < resumeBy
    BY DEF SilenceInv, Bounded
  <2>2. lastTick \in Nat /\ firstLate \in Nat /\ resumeBy \in Nat /\ Grace \in Nat
    BY <2>1, SilenceAssumption DEF SilenceInv, SilenceTypeOK, Times, Clock
  <2> QED
    BY <2>1, <2>2
<1> QED
  BY <1>1, <1>2

-----------------------------------------------------------------------------
(* Teleoperation's knobs. *)

\* The version that will stand for what is accepted.
Newest == version + (IF setting.at = "version" THEN 1 ELSE 0)

\* Versions count what was accepted, and what is published is of its version or no older.
VersionsInv ==
    /\ Newest + limit.sets = MaxSets
    /\ accepted = past[Newest]
    /\ published.version <= version
    /\ \E v \in published.version..Newest : published.params = past[v]
    /\ publishedVersion <= version
    /\ ticking.at = "params" => publishedVersion <= ticking.version /\ ticking.version <= version
    /\ (publishedVersion = version /\ ticking.at \in {"apply", "due"}) => published.version = version

\* What waits to be applied is what was accepted.
KnobsInv ==
    /\ setting.at # "idle" => accepted = setting.scratch
    /\ (setting.at = "idle" /\ pending # NoSet) => pending = accepted
    /\ AcceptedIsApplied

\* The invariant of teleoperation's knobs.
TeleopParamsInv == VrParamsTypeOK /\ VersionsInv /\ KnobsInv

\* A set of knobs that is made of the request's is a set of knobs.
LEMMA ScratchIsKnobs ==
    ASSUME VrParamsTypeOK, NEW request \in Requests
    PROVE  Scratch(request) \in Knobs
<1>1. /\ nodeLimits \in Nat /\ nodeLimits < MaxLead /\ MaxLead \in Nat /\ accepted.clamp \in 1..MaxLead /\ accepted.scale \in Scales
  BY VrParamsAssumption DEF VrParamsTypeOK, Knobs
<1>2. \A c \in 1..MaxLead : Within(c, 1, LeadBound(nodeLimits)) \in 1..MaxLead
  BY <1>1 DEF Within, LeadBound
<1>3. CASE request \in [clamp : 1..MaxLead]
  <2>1. "clamp" \in DOMAIN request /\ request.clamp \in 1..MaxLead /\ "scale" \notin DOMAIN request
    BY <1>3
  <2> QED
    BY <1>1, <1>2, <2>1 DEF Scratch, Knobs
<1>4. CASE request \in [scale : Scales]
  <2>1. "scale" \in DOMAIN request /\ request.scale \in Scales /\ "clamp" \notin DOMAIN request
    BY <1>4
  <2> QED
    BY <1>1, <2>1 DEF Scratch, Knobs
<1> QED
  BY <1>3, <1>4 DEF Requests

\* A set of knobs lowered to the node's limits is a set of knobs.
LEMMA LoweredIsKnobs ==
    ASSUME VrParamsTypeOK
    PROVE  /\ Adopted \in Budgets /\ Lowered \in Knobs
           /\ Lowered.scale = args.scale /\ Lowered.clamp <= args.clamp
<1>1. args \in Knobs /\ nodeLimits \in Budgets
  BY DEF VrParamsTypeOK
<1>2. Adopted \in Budgets
  BY <1>1 DEF Adopted
<1>3. Adopted \in Nat /\ Adopted < MaxLead /\ MaxLead \in Nat
  BY <1>2, VrParamsAssumption
<1> DEFINE c == Within(args.clamp, 1, LeadBound(Adopted))
<1>4. args.clamp \in 1..MaxLead /\ args.scale \in Scales /\ args = [clamp |-> args.clamp, scale |-> args.scale]
  BY <1>1 DEF Knobs
<1>5. c \in 1..MaxLead /\ c <= args.clamp
  BY <1>3, <1>4 DEF Within, LeadBound
<1>6. Lowered = [clamp |-> c, scale |-> args.scale]
  BY <1>4 DEF Lowered
<1> HIDE DEF c
<1> QED
  BY <1>2, <1>4, <1>5, <1>6 DEF Knobs

\* Teleoperation begins with its arguments accepted, applied and published.
LEMMA KnobsBegin == VrParamsInit => TeleopParamsInv
<1> SUFFICES ASSUME VrParamsInit PROVE TeleopParamsInv
  OBVIOUS
<1>1. /\ MaxSets \in Nat /\ MaxTunes \in Nat /\ args \in Knobs /\ nodeLimits \in Budgets
  BY VrParamsAssumption DEF VrParamsInit
<1>2. /\ setting = [at |-> "idle", scratch |-> args] /\ ticking = [at |-> "apply", version |-> 0]
      /\ limit = [sets |-> MaxSets, tunes |-> MaxTunes] /\ past = [v \in 0..MaxSets |-> args]
      /\ published = [version |-> 0, params |-> args] /\ accepted = args /\ version = 0
      /\ pending = NoSet /\ publishedVersion = -1 /\ body = NoBody /\ nodeBudget = nodeLimits
  BY DEF VrParamsInit
<1>3. VrParamsTypeOK
  <2>1. setting \in [at : {"idle", "version", "pending"}, scratch : Knobs]
    BY <1>1, <1>2
  <2>2. ticking \in [at : {"apply", "due", "body", "params"}, version : 0..MaxSets]
    BY <1>1, <1>2
  <2>3. published \in [version : 0..MaxSets, params : Knobs] /\ past \in [0..MaxSets -> Knobs]
    BY <1>1, <1>2
  <2>4. limit \in [sets : 0..MaxSets, tunes : 0..MaxTunes]
    BY <1>1, <1>2
  <2> QED
    BY <1>1, <1>2, <2>1, <2>2, <2>3, <2>4 DEF VrParamsTypeOK
<1>4. VersionsInv
  BY <1>1, <1>2 DEF VersionsInv, Newest
<1>5. KnobsInv
  BY <1>1, <1>2 DEF KnobsInv, AcceptedIsApplied, Knobs
<1> QED
  BY <1>3, <1>4, <1>5 DEF TeleopParamsInv

\* Each request, tick and publication keeps the knobs' invariant.
LEMMA KnobsStep == TeleopParamsInv /\ [VrParamsNext]_vrParamsVars => TeleopParamsInv'
<1> SUFFICES ASSUME TeleopParamsInv, [VrParamsNext]_vrParamsVars PROVE TeleopParamsInv'
  OBVIOUS
<1>0. /\ args \in Knobs /\ accepted \in Knobs /\ nodeLimits \in Budgets /\ nodeBudget \in Budgets
      /\ body \in Budgets \cup {NoBody, -1} /\ version \in 0..MaxSets
      /\ (pending = NoSet \/ pending \in Knobs) /\ publishedVersion \in -1..MaxSets
      /\ setting \in [at : {"idle", "version", "pending"}, scratch : Knobs]
      /\ ticking \in [at : {"apply", "due", "body", "params"}, version : 0..MaxSets]
      /\ published \in [version : 0..MaxSets, params : Knobs] /\ past \in [0..MaxSets -> Knobs]
      /\ limit \in [sets : 0..MaxSets, tunes : 0..MaxTunes]
      /\ VrParamsTypeOK /\ VersionsInv /\ KnobsInv
  BY DEF TeleopParamsInv, VrParamsTypeOK
<1>a. MaxSets \in Nat /\ MaxTunes \in Nat /\ NoSet \notin Knobs
  BY VrParamsAssumption DEF Knobs
<1>b. Newest \in 0..MaxSets /\ limit.sets \in Nat
  BY <1>0, <1>a DEF Newest, VersionsInv
<1>1. CASE OnSet
  <2>1. PICK request \in Requests :
           /\ setting' = [at |-> "version", scratch |-> Scratch(request)]
           /\ accepted' = Scratch(request)
           /\ past' = [past EXCEPT ![version + 1] = Scratch(request)]
    BY <1>1 DEF OnSet
  <2> DEFINE k == Scratch(request)
  <2>2. k \in Knobs
    BY <1>0, ScratchIsKnobs
  <2> HIDE DEF k
  <2>3. setting' = [at |-> "version", scratch |-> k] /\ accepted' = k /\ past' = [past EXCEPT ![version + 1] = k]
    BY <2>1 DEF k
  <2>4. /\ setting.at = "idle" /\ limit.sets > 0 /\ limit' = [limit EXCEPT !.sets = @ - 1]
        /\ UNCHANGED <<args, nodeLimits, body, version, pending, publishedVersion, published, ticking, nodeBudget>>
    BY <1>1 DEF OnSet
  <2>5. Newest = version /\ version + limit.sets = MaxSets /\ version + 1 \in 0..MaxSets
    BY <1>0, <1>a, <1>b, <2>4 DEF Newest, VersionsInv
  <2>6. /\ limit' = [sets |-> limit.sets - 1, tunes |-> limit.tunes] /\ limit.sets - 1 \in 0..MaxSets
        /\ limit.tunes \in 0..MaxTunes
    <3>1. limit.sets \in 0..MaxSets /\ limit.tunes \in 0..MaxTunes /\ limit = [sets |-> limit.sets, tunes |-> limit.tunes]
      BY <1>0
    <3>2. limit.sets - 1 \in 0..MaxSets
      BY <1>a, <2>4, <3>1
    <3>3. limit' = [sets |-> limit.sets - 1, tunes |-> limit.tunes]
      BY <2>4, <3>1
    <3> QED
      BY <3>1, <3>2, <3>3
  <2>7. VrParamsTypeOK'
    <3>1. setting' \in [at : {"idle", "version", "pending"}, scratch : Knobs] /\ past' \in [0..MaxSets -> Knobs]
      BY <1>0, <2>2, <2>3
    <3>2. limit' \in [sets : 0..MaxSets, tunes : 0..MaxTunes]
      BY <2>6
    <3> QED
      BY <1>0, <2>2, <2>3, <2>4, <3>1, <3>2 DEF VrParamsTypeOK
  <2>8. VersionsInv'
    <3>1. Newest' = version + 1 /\ limit'.sets = limit.sets - 1
      BY <2>3, <2>4, <2>6 DEF Newest
    <3>2. accepted' = past'[Newest']
      BY <1>0, <2>3, <2>5, <3>1
    <3>3. \E v \in published'.version..Newest' : published'.params = past'[v]
      <4>1. PICK v \in published.version..version : published.params = past[v]
        BY <1>0, <2>5 DEF VersionsInv
      <4>2. published.version \in 0..MaxSets
        BY <1>0
      <4>3. v \in 0..MaxSets /\ v # version + 1 /\ v \in published.version..Newest'
        BY <1>0, <1>a, <3>1, <4>1, <4>2
      <4> QED
        BY <1>0, <2>3, <2>4, <4>1, <4>3
    <3>4. Newest' + limit'.sets = MaxSets
      BY <1>0, <1>b, <2>5, <3>1
    <3>5. /\ published'.version <= version' /\ publishedVersion' <= version'
          /\ ticking'.at = "params" => publishedVersion' <= ticking'.version /\ ticking'.version <= version'
          /\ (publishedVersion' = version' /\ ticking'.at \in {"apply", "due"}) => published'.version = version'
      BY <1>0, <2>4 DEF VersionsInv
    <3> QED
      BY <3>2, <3>3, <3>4, <3>5 DEF VersionsInv
  <2>9. KnobsInv'
    BY <2>3 DEF KnobsInv, AcceptedIsApplied
  <2> QED
    BY <2>7, <2>8, <2>9 DEF TeleopParamsInv
<1>2. CASE OnSetVersion
  <2>1. /\ setting.at = "version" /\ setting' = [setting EXCEPT !.at = "pending"] /\ version' = version + 1
        /\ UNCHANGED <<args, nodeLimits, body, accepted, pending, publishedVersion, published, ticking,
                       nodeBudget, limit, past>>
    BY <1>2 DEF OnSetVersion
  <2>2. Newest = version + 1 /\ version + 1 \in 0..MaxSets
    BY <1>0, <1>b, <2>1 DEF Newest
  <2>3. setting' = [at |-> "pending", scratch |-> setting.scratch] /\ setting.scratch \in Knobs
    BY <1>0, <2>1
  <2>4. Newest' = Newest
    BY <1>0, <2>1, <2>2, <2>3 DEF Newest
  <2>5. VrParamsTypeOK'
    <3>1. setting' \in [at : {"idle", "version", "pending"}, scratch : Knobs]
      BY <2>3
    <3> QED
      BY <1>0, <2>1, <2>2, <3>1 DEF VrParamsTypeOK
  <2>6. VersionsInv'
    BY <1>0, <1>b, <2>1, <2>4 DEF VersionsInv
  <2>7. KnobsInv'
    BY <1>0, <2>1, <2>3 DEF KnobsInv, AcceptedIsApplied
  <2> QED
    BY <2>5, <2>6, <2>7 DEF TeleopParamsInv
<1>3. CASE OnSetPending
  <2>1. /\ setting.at = "pending" /\ setting' = [setting EXCEPT !.at = "idle"] /\ pending' = setting.scratch
        /\ UNCHANGED <<args, nodeLimits, body, accepted, version, publishedVersion, published, ticking,
                       nodeBudget, limit, past>>
    BY <1>3 DEF OnSetPending
  <2>3. setting' = [at |-> "idle", scratch |-> setting.scratch] /\ setting.scratch \in Knobs
    BY <1>0, <2>1
  <2>4. Newest' = Newest
    BY <1>0, <2>1, <2>3 DEF Newest
  <2>5. VrParamsTypeOK'
    <3>1. setting' \in [at : {"idle", "version", "pending"}, scratch : Knobs]
      BY <2>3
    <3> QED
      BY <1>0, <2>1, <2>3, <3>1 DEF VrParamsTypeOK
  <2>6. VersionsInv'
    BY <1>0, <2>1, <2>4 DEF VersionsInv
  <2>7. KnobsInv'
    BY <1>0, <1>a, <2>1, <2>3 DEF KnobsInv, AcceptedIsApplied
  <2> QED
    BY <2>5, <2>6, <2>7 DEF TeleopParamsInv
<1>4. CASE OnParams
  <2>1. /\ body' \in {nodeBudget, -1}
        /\ UNCHANGED <<args, nodeLimits, accepted, version, pending, publishedVersion, published, setting,
                       ticking, nodeBudget, limit, past>>
    BY <1>4 DEF OnParams
  <2> QED
    BY <1>0, <2>1 DEF TeleopParamsInv, VrParamsTypeOK, VersionsInv, KnobsInv, AcceptedIsApplied, Newest
<1>5. CASE AdvanceParams
  <2>1. /\ ticking.at = "apply" /\ ticking' = [ticking EXCEPT !.at = "due"]
        /\ body' = NoBody /\ nodeLimits' = Adopted /\ pending' = NoSet
        /\ publishedVersion' = (IF Adopted # nodeLimits THEN -1 ELSE publishedVersion)
        /\ args' = (IF pending # NoSet THEN pending ELSE Lowered)
        /\ UNCHANGED <<accepted, version, published, setting, nodeBudget, limit, past>>
    BY <1>5 DEF AdvanceParams, Applied
  <2>2. Adopted \in Budgets /\ Lowered \in Knobs /\ Lowered.scale = args.scale /\ Lowered.clamp <= args.clamp
    BY <1>0, LoweredIsKnobs
  <2>3. ticking' = [at |-> "due", version |-> ticking.version] /\ ticking.version \in 0..MaxSets
    BY <1>0, <2>1
  <2>4. publishedVersion' \in -1..MaxSets /\ publishedVersion' <= version /\ (publishedVersion' = version => publishedVersion = version)
    BY <1>0, <1>a, <2>1 DEF VersionsInv
  <2>5. VrParamsTypeOK'
    <3>1. ticking' \in [at : {"apply", "due", "body", "params"}, version : 0..MaxSets]
      BY <2>3
    <3>2. args' \in Knobs
      BY <1>0, <2>1, <2>2
    <3> QED
      BY <1>0, <2>1, <2>2, <2>4, <3>1, <3>2 DEF VrParamsTypeOK
  <2>6. VersionsInv'
    <3>1. Newest' = Newest
      BY <2>1 DEF Newest
    <3> QED
      BY <1>0, <2>1, <2>3, <2>4, <3>1 DEF VersionsInv
  <2>7. KnobsInv'
    <3>1. setting.at = "idle" => args'.scale = accepted.scale /\ args'.clamp <= accepted.clamp
      <4>0. /\ accepted.clamp \in 1..MaxLead /\ args.clamp \in 1..MaxLead /\ Lowered.clamp \in 1..MaxLead
            /\ MaxLead \in Nat
        BY <1>0, <2>2, VrParamsAssumption DEF Knobs
      <4>1. CASE pending # NoSet
        BY <1>0, <2>1, <4>0, <4>1 DEF KnobsInv
      <4>2. CASE pending = NoSet
        BY <1>0, <2>1, <2>2, <4>0, <4>2 DEF KnobsInv, AcceptedIsApplied
      <4> QED
        BY <4>1, <4>2
    <3> QED
      BY <1>0, <2>1, <3>1 DEF KnobsInv, AcceptedIsApplied
  <2> QED
    BY <2>5, <2>6, <2>7 DEF TeleopParamsInv
<1>6. CASE ParamsTick
  <2>1. /\ ticking.at = "due"
        /\ \/ ticking' = [ticking EXCEPT !.at = "body"] /\ publishedVersion' = version
           \/ ticking' = [ticking EXCEPT !.at = "apply"] /\ UNCHANGED publishedVersion
        /\ UNCHANGED <<args, nodeLimits, body, accepted, version, pending, published, setting, nodeBudget,
                       limit, past>>
    BY <1>6 DEF ParamsTick
  <2>2. \/ ticking' = [at |-> "body", version |-> ticking.version] /\ publishedVersion' = version
        \/ ticking' = [at |-> "apply", version |-> ticking.version] /\ UNCHANGED publishedVersion
    BY <1>0, <2>1
  <2>3. ticking.version \in 0..MaxSets
    BY <1>0
  <2>4. publishedVersion' \in -1..MaxSets /\ publishedVersion' <= version
    BY <1>0, <1>a, <2>2 DEF VersionsInv
  <2>5. VrParamsTypeOK'
    <3>1. ticking' \in [at : {"apply", "due", "body", "params"}, version : 0..MaxSets]
      BY <2>2, <2>3
    <3> QED
      BY <1>0, <2>1, <2>4, <3>1 DEF VrParamsTypeOK
  <2>6. VersionsInv'
    <3>1. Newest' = Newest
      BY <2>1 DEF Newest
    <3> QED
      BY <1>0, <2>1, <2>2, <2>4, <3>1 DEF VersionsInv
  <2>7. KnobsInv'
    BY <1>0, <2>1 DEF KnobsInv, AcceptedIsApplied
  <2> QED
    BY <2>5, <2>6, <2>7 DEF TeleopParamsInv
<1>7. CASE TickBody
  <2>1. /\ ticking' = [at |-> "params", version |-> version]
        /\ UNCHANGED <<args, nodeLimits, body, accepted, version, pending, publishedVersion, published,
                       setting, nodeBudget, limit, past>>
    BY <1>7 DEF TickBody
  <2>5. VrParamsTypeOK'
    <3>1. ticking' \in [at : {"apply", "due", "body", "params"}, version : 0..MaxSets]
      BY <1>0, <2>1
    <3> QED
      BY <1>0, <2>1, <3>1 DEF VrParamsTypeOK
  <2>6. VersionsInv'
    <3>1. Newest' = Newest
      BY <2>1 DEF Newest
    <3> QED
      BY <1>0, <2>1, <3>1 DEF VersionsInv
  <2>7. KnobsInv'
    BY <1>0, <2>1 DEF KnobsInv, AcceptedIsApplied
  <2> QED
    BY <2>5, <2>6, <2>7 DEF TeleopParamsInv
<1>8. CASE TickParams
  <2>1. /\ ticking.at = "params" /\ ticking' = [ticking EXCEPT !.at = "apply"]
        /\ published' = [version |-> ticking.version, params |-> accepted]
        /\ UNCHANGED <<args, nodeLimits, body, accepted, version, pending, publishedVersion, setting, nodeBudget, limit, past>>
    BY <1>8 DEF TickParams, Marked
  <2>2. ticking' = [at |-> "apply", version |-> ticking.version] /\ ticking.version \in 0..MaxSets
    BY <1>0, <2>1
  <2>5. VrParamsTypeOK'
    <3>1. ticking' \in [at : {"apply", "due", "body", "params"}, version : 0..MaxSets]
      BY <2>2
    <3>2. published' \in [version : 0..MaxSets, params : Knobs]
      BY <1>0, <2>1, <2>2
    <3> QED
      BY <1>0, <2>1, <3>1, <3>2 DEF VrParamsTypeOK
  <2>6. VersionsInv'
    <3>1. Newest' = Newest /\ Newest >= version
      BY <1>0, <2>1 DEF Newest
    <3>2. publishedVersion <= ticking.version /\ ticking.version <= version
      BY <1>0, <2>1 DEF VersionsInv
    <3>3. published'.version = ticking.version /\ published'.params = past[Newest]
      BY <1>0, <2>1 DEF VersionsInv
    <3>4. Newest \in published'.version..Newest'
      BY <1>0, <1>b, <2>2, <3>1, <3>2, <3>3
    <3>5. publishedVersion = version => published'.version = version
      BY <1>0, <2>2, <3>2, <3>3
    <3> QED
      BY <1>0, <2>1, <2>2, <3>1, <3>2, <3>3, <3>4, <3>5 DEF VersionsInv
  <2>7. KnobsInv'
    BY <1>0, <2>1 DEF KnobsInv, AcceptedIsApplied
  <2> QED
    BY <2>5, <2>6, <2>7 DEF TeleopParamsInv
<1>9. CASE NodeTuned
  <2>1. /\ limit.tunes > 0 /\ limit' = [limit EXCEPT !.tunes = @ - 1] /\ nodeBudget' \in Budgets
        /\ UNCHANGED <<args, nodeLimits, body, accepted, version, pending, publishedVersion, published,
                       setting, ticking, past>>
    BY <1>9 DEF NodeTuned
  <2>2. limit' = [sets |-> limit.sets, tunes |-> limit.tunes - 1] /\ limit.tunes - 1 \in 0..MaxTunes /\ limit.sets \in 0..MaxSets
    BY <1>0, <1>a, <2>1
  <2>3. VrParamsTypeOK'
    <3>1. limit' \in [sets : 0..MaxSets, tunes : 0..MaxTunes]
      BY <2>2
    <3> QED
      BY <1>0, <2>1, <3>1 DEF VrParamsTypeOK
  <2>4. VersionsInv' /\ KnobsInv'
    <3>1. Newest' = Newest
      BY <2>1 DEF Newest
    <3> QED
      BY <1>0, <2>1, <2>2, <3>1 DEF VersionsInv, KnobsInv, AcceptedIsApplied
  <2> QED
    BY <2>3, <2>4 DEF TeleopParamsInv
<1>10. CASE UNCHANGED vrParamsVars
  BY <1>10 DEF vrParamsVars, TeleopParamsInv, VrParamsTypeOK, VersionsInv, KnobsInv, AcceptedIsApplied, Newest
<1> QED
  BY <1>1, <1>2, <1>3, <1>4, <1>5, <1>6, <1>7, <1>8, <1>9, <1>10 DEF VrParamsNext

\* So what is published is of its version, and what was accepted is applied.
LEMMA KnobsHold == TeleopParamsInv => PublishedIsCurrent /\ AcceptedIsApplied
<1> SUFFICES ASSUME TeleopParamsInv PROVE PublishedIsCurrent
  BY DEF TeleopParamsInv, KnobsInv
<1>1. /\ version \in 0..MaxSets /\ limit.sets \in Nat /\ MaxSets \in Nat /\ published.version \in 0..MaxSets
  BY VrParamsAssumption DEF TeleopParamsInv, VrParamsTypeOK
<1>2. Newest \in Nat /\ Newest <= MaxSets
  BY <1>1 DEF TeleopParamsInv, VersionsInv, Newest
<1>3. PICK v \in published.version..Newest : published.params = past[v]
  BY DEF TeleopParamsInv, VersionsInv
<1>4. v \in published.version..MaxSets
  BY <1>1, <1>2, <1>3
<1> QED
  BY <1>3, <1>4 DEF PublishedIsCurrent, TeleopParamsInv, VersionsInv

-----------------------------------------------------------------------------
(* The hands. *)

\* A sample of a port, and its age.
Timed == [sample : HandSamples, age : 0..MaxDelay]

\* A port's samples come in its order, one for a tick.
InOrder(q) == \A i, j \in 1..Len(q) : i < j => q[i].age > q[j].age

\* A queue has the sample of a grip that is held, of that age.
HasGrip(q, age) == \E j \in 1..Len(q) : q[j].sample.flags = "engaged" /\ q[j].age = age

\* A squeeze that was not alone, of which the check has read the other one already.
Unheard(sample, age, others) ==
    sample.flags = "engaged" /\ sample.with = "engaged" /\ ~HasGrip(others, age)

\* Such a one was read while the check waited for the controller to wake, so that the grip was
\* not released since.
NoneCounts ==
    \A i \in 1..Len(samples[port]) :
      Unheard(samples[port][i].sample, samples[port][i].age, samples[Other(port)]) => ~gripReleased /\ i = 1

\* The other grip's sample is still to be read, and will have been at the deadline.
OtherComes ==
    squeeze.with = "engaged" =>
      \E j \in 1..Len(samples[Other(port)]) :
        /\ samples[Other(port)][j].sample.flags = "engaged"
        /\ samples[Other(port)][j].age + left >= Confirm

\* The invariant of the search for a hand.
HandsInv ==
    /\ HandsTypeOK
    /\ \A h \in Hands : InOrder(samples[h])
    /\ stage = "awake" => ~gripReleased
    /\ (stage = "squeeze" /\ outcome = "open") => NoneCounts
    /\ stage = "confirm" => squeeze.flags = "engaged" /\ span.now + left = Confirm /\ left \in 0..Confirm
    /\ (stage = "confirm" /\ outcome = "open") => OtherComes
    /\ outcome = "passed" => stage = "confirm" /\ squeeze.with # "engaged"

\* The types of the search's parts.
LEMMA HandsTyped ==
    ASSUME HandsTypeOK
    PROVE  /\ port \in Hands /\ Other(port) \in Hands /\ Other(port) # port
           /\ stage \in {"awake", "squeeze", "confirm"} /\ left \in Nat
           /\ gripReleased \in BOOLEAN /\ otherSeen \in BOOLEAN /\ oneController \in BOOLEAN
           /\ last \in Flags \cup {"none"} /\ span.now \in 0..Confirm /\ span.held \in 0..Confirm
           /\ span = [now |-> span.now, held |-> span.held]
           /\ outcome \in {"open", "passed", "failed"} /\ ticks \in 0..MaxTicks /\ squeeze \in HandSamples
           /\ samples \in [Hands -> Seq(Timed)]
           /\ \A h \in Hands : h = port \/ h = Other(port)
<1>1. left \in Nat
  BY HandsAssumption DEF HandsTypeOK
<1>2. span \in [now : 0..Confirm, held : 0..Confirm]
  BY DEF HandsTypeOK
<1> QED
  BY <1>1, <1>2 DEF HandsTypeOK, Timed, Other, Hands

\* A queue without its head: what is left keeps its order and its ages.
LEMMA TailOfQueue ==
    ASSUME NEW q \in Seq(Timed), q # <<>>, InOrder(q)
    PROVE  /\ Head(q) = q[1] /\ 1 \in 1..Len(q) /\ q[1].sample \in HandSamples /\ q[1].age \in 0..MaxDelay
           /\ Tail(q) \in Seq(Timed) /\ InOrder(Tail(q)) /\ Len(q) \in Nat
           /\ \A i \in 1..Len(Tail(q)) : i + 1 \in 1..Len(q) /\ Tail(q)[i] = q[i + 1]
           /\ \A i \in 1..Len(q) : i # 1 => i - 1 \in 1..Len(Tail(q)) /\ Tail(q)[i - 1] = q[i]
<1>1. /\ Len(q) \in Nat /\ Len(q) >= 1 /\ Tail(q) \in Seq(Timed) /\ Len(Tail(q)) = Len(q) - 1
      /\ Head(q) = q[1] /\ q[1] \in Timed
  OBVIOUS
<1>2. \A i \in 1..Len(Tail(q)) : i + 1 \in 1..Len(q) /\ Tail(q)[i] = q[i + 1]
  BY <1>1
<1>3. InOrder(Tail(q))
  BY <1>1, <1>2 DEF InOrder
<1>4. \A i \in 1..Len(q) : i # 1 => i - 1 \in 1..Len(Tail(q)) /\ Tail(q)[i - 1] = q[i]
  BY <1>1, <1>2
<1> QED
  BY <1>1, <1>2, <1>3, <1>4 DEF Timed

\* A tick of a queue: every sample is a tick older, and one may be new.
Older(q) == [i \in DOMAIN q |-> [q[i] EXCEPT !.age = @ + 1]]

\* A tick ages a queue and may add a new sample to it; its order stays.
LEMMA TickOfQueue ==
    ASSUME NEW q \in Seq(Timed), InOrder(q), \A i \in 1..Len(q) : q[i].age < MaxDelay,
           NEW sample \in HandSamples,
           NEW r, r = Older(q) \/ r = Append(Older(q), [sample |-> sample, age |-> 0])
    PROVE  /\ r \in Seq(Timed) /\ InOrder(r) /\ Len(q) \in Nat /\ Len(r) \in {Len(q), Len(q) + 1}
           /\ \A i \in 1..Len(q) : /\ i \in 1..Len(r) /\ r[i].sample = q[i].sample
                                   /\ r[i].age = q[i].age + 1 /\ q[i].age \in 0..MaxDelay
           /\ r = Older(q) => Len(r) = Len(q)
           /\ r # Older(q) => Len(r) = Len(q) + 1 /\ r[Len(q) + 1].sample = sample /\ r[Len(q) + 1].age = 0
<1> DEFINE o == Older(q)
           n == Len(q)
<1>0. MaxDelay \in Nat
  BY HandsAssumption
<1>1. n \in Nat /\ DOMAIN q = 1..n
  OBVIOUS
<1>2. ASSUME NEW i \in 1..n
      PROVE  /\ q[i].age \in 0..MaxDelay /\ q[i].sample \in HandSamples
             /\ o[i].sample = q[i].sample /\ o[i].age = q[i].age + 1 /\ o[i] \in Timed
  <2>1. q[i] \in Timed
    BY <1>2
  <2>2. q[i].age \in 0..MaxDelay /\ q[i].sample \in HandSamples /\ q[i] = [sample |-> q[i].sample, age |-> q[i].age]
    BY <2>1 DEF Timed
  <2>3. o[i] = [q[i] EXCEPT !.age = @ + 1]
    BY <1>1 DEF Older
  <2>4. o[i] = [sample |-> q[i].sample, age |-> q[i].age + 1]
    BY <2>2, <2>3
  <2>5. q[i].age + 1 \in 0..MaxDelay
    BY <1>0, <2>2
  <2>6. o[i].sample = q[i].sample /\ o[i].age = q[i].age + 1
    BY <2>4
  <2>7. o[i] \in Timed
    BY <2>2, <2>4, <2>5 DEF Timed
  <2> QED
    BY <2>2, <2>6, <2>7
<1>3. o = [i \in 1..n |-> o[i]] /\ DOMAIN o = 1..n
  BY <1>1 DEF Older
<1>4. o \in Seq(Timed) /\ Len(o) = n
  <2> HIDE DEF o, n
  <2> QED
    BY <1>1, <1>2, <1>3
<1>5. InOrder(o)
  <2>1. \A i, j \in 1..n : i < j => q[i].age > q[j].age
    BY DEF InOrder
  <2> HIDE DEF o, n
  <2> QED
    BY <1>1, <1>2, <1>4, <2>1 DEF InOrder
<1>6. CASE r = o
  <2> HIDE DEF o, n
  <2>1. \A i \in 1..n : r[i].sample = q[i].sample /\ r[i].age = q[i].age + 1
    BY <1>2, <1>6
  <2> QED
    BY <1>1, <1>2, <1>4, <1>5, <1>6, <2>1 DEF o, n
<1>7. CASE r = Append(o, [sample |-> sample, age |-> 0])
  <2> DEFINE b == [sample |-> sample, age |-> 0]
  <2>1. b \in Timed /\ b.sample = sample /\ b.age = 0
    BY <1>0 DEF Timed
  <2> HIDE DEF b, o, n
  <2>2. r = Append(o, b)
    BY <1>7 DEF b
  <2>3. r \in Seq(Timed) /\ Len(r) = n + 1 /\ r[n + 1] = b /\ \A i \in 1..n : r[i] = o[i]
    BY <1>1, <1>4, <2>1, <2>2
  <2>4. InOrder(r)
    <3> SUFFICES ASSUME NEW i \in 1..(n + 1), NEW j \in 1..(n + 1), i < j PROVE r[i].age > r[j].age
      BY <2>3 DEF InOrder
    <3>a. i \in 1..n /\ r[i] = o[i]
      BY <1>1, <2>3
    <3>1. o[i].age = q[i].age + 1 /\ q[i].age \in Nat
      BY <1>0, <1>2, <3>a
    <3>2. CASE j = n + 1
      BY <2>1, <2>3, <3>a, <3>1, <3>2
    <3>3. CASE j # n + 1
      <4>1. j \in 1..n /\ r[j] = o[j]
        BY <1>1, <2>3, <3>3
      <4> QED
        BY <1>4, <1>5, <3>a, <4>1 DEF InOrder
    <3> QED
      BY <3>2, <3>3
  <2>5. r # o
    BY <1>1, <1>4, <2>3
  <2>6. ASSUME NEW i \in 1..n
        PROVE  i \in 1..Len(r) /\ r[i].sample = q[i].sample /\ r[i].age = q[i].age + 1 /\ q[i].age \in 0..MaxDelay
    <3>1. r[i] = o[i] /\ i \in 1..Len(r)
      BY <1>1, <2>3
    <3> QED
      BY <1>2, <3>1
  <2> QED
    BY <1>1, <2>1, <2>3, <2>4, <2>5, <2>6 DEF o, n
<1> QED
  BY <1>6, <1>7

\* The search begins with no sample read.
LEMMA HandsBegin == HandsInit => HandsInv
<1> SUFFICES ASSUME HandsInit PROVE HandsInv
  OBVIOUS
<1>1. PICK a \in Args : ~Refused(a) /\ port = PortOf(a) /\ oneController = a.oneController
  BY DEF HandsInit
<1>2. port \in Hands /\ oneController \in BOOLEAN
  <2>1. a.endpoint \in Hands \cup {"none", "neither"} /\ a.hand \in Hands \cup {"none"} /\ a.arm \in Arms /\ a.oneController \in BOOLEAN
    BY DEF Args
  <2>2. Paired[a.arm] \in Hands \cup {"none"}
    BY <2>1 DEF Paired, Hands
  <2>3. port \in Hands
    BY <1>1, <2>1, <2>2 DEF Refused, PortOf, HandOf
  <2> QED
    BY <1>1, <2>1, <2>3
<1>3. NoSqueeze \in HandSamples
  BY DEF NoSqueeze, HandSamples, Flags
<1>4. samples \in [Hands -> Seq([sample : HandSamples, age : 0..MaxDelay])]
  BY DEF HandsInit
<1>5. span \in [now : 0..Confirm, held : 0..Confirm]
  BY HandsAssumption DEF HandsInit
<1>6. HandsTypeOK
  <2>1. left \in 0..Window \cup 0..Confirm /\ ticks \in 0..MaxTicks
    BY HandsAssumption DEF HandsInit
  <2>2. gripReleased \in BOOLEAN /\ otherSeen \in BOOLEAN
    BY DEF HandsInit
  <2>3. stage = "awake" /\ last = "none" /\ outcome = "open" /\ squeeze = NoSqueeze
    BY DEF HandsInit
  <2> QED
    BY <1>2, <1>3, <1>4, <1>5, <2>1, <2>2, <2>3 DEF HandsTypeOK
<1>7. \A h \in Hands : InOrder(samples[h])
  BY DEF HandsInit, InOrder
<1> QED
  BY <1>6, <1>7 DEF HandsInit, HandsInv

\* A sample of the other port.
LEMMA OtherIsFed ==
    ASSUME HandsInv, outcome = "open", samples[Other(port)] # <<>>,
           samples' = [samples EXCEPT ![Other(port)] = Tail(@)],
           FeedOther(Head(samples[Other(port)]).sample),
           UNCHANGED <<port, oneController, ticks>>
    PROVE  HandsInv'
<1> DEFINE o == Other(port)
           q == samples[o]
           s == q[1].sample
           c == samples[port]
<1>0. /\ port \in Hands /\ o \in Hands /\ o # port /\ outcome \in {"open", "passed", "failed"}
      /\ samples \in [Hands -> Seq(Timed)] /\ \A h \in Hands : h = port \/ h = o
  BY HandsTyped DEF HandsInv
<1>1. q \in Seq(Timed) /\ InOrder(q) /\ q # <<>>
  BY <1>0 DEF HandsInv
<1>2. /\ Head(q) = q[1] /\ 1 \in 1..Len(q) /\ s \in HandSamples
      /\ Tail(q) \in Seq(Timed) /\ InOrder(Tail(q)) /\ Len(q) \in Nat
      /\ \A i \in 1..Len(Tail(q)) : i + 1 \in 1..Len(q) /\ Tail(q)[i] = q[i + 1]
      /\ \A i \in 1..Len(q) : i # 1 => i - 1 \in 1..Len(Tail(q)) /\ Tail(q)[i - 1] = q[i]
  BY <1>1, TailOfQueue
<1>3. /\ last' = s.flags
      /\ IF stage = "awake" THEN UNCHANGED <<otherSeen, outcome>>
         ELSE otherSeen' = TRUE /\ outcome' = IF s.flags = "engaged" THEN "failed" ELSE outcome
      /\ UNCHANGED <<stage, left, gripReleased, span, squeeze, port, oneController, ticks>>
  BY <1>2 DEF FeedOther
<1>4. /\ samples' \in [Hands -> Seq(Timed)] /\ samples'[o] = Tail(q) /\ samples'[port] = c
      /\ Other(port') = o
  BY <1>0, <1>2, <1>3
<1>5. \A h \in Hands : InOrder(samples'[h])
  BY <1>0, <1>2, <1>4 DEF HandsInv
<1>6. HandsTypeOK'
  <2>1. s.flags \in Flags
    BY <1>2 DEF HandSamples
  <2>2. outcome' \in {"open", "passed", "failed"} /\ otherSeen' \in BOOLEAN
    BY <1>0, <1>3 DEF HandsInv, HandsTypeOK
  <2> QED
    BY <1>3, <1>4, <2>1, <2>2 DEF HandsInv, HandsTypeOK, Timed
<1> HIDE DEF o, q, c, s
<1>7. ASSUME stage' # "awake", outcome' = "open"
      PROVE  s.flags # "engaged"
  BY <1>3, <1>7
<1>8. ASSUME s.flags # "engaged", NEW age \in Nat, HasGrip(q, age)
      PROVE  HasGrip(Tail(q), age)
  <2>1. PICK j \in 1..Len(q) : q[j].sample.flags = "engaged" /\ q[j].age = age
    BY <1>8 DEF HasGrip
  <2>2. j # 1
    BY <1>8, <2>1 DEF s
  <2> QED
    BY <1>2, <2>1, <2>2 DEF HasGrip
<1>9. (stage' = "squeeze" /\ outcome' = "open") => NoneCounts'
  <2> SUFFICES ASSUME stage' = "squeeze", outcome' = "open", NEW i \in 1..Len(c),
                      Unheard(c[i].sample, c[i].age, Tail(q))
               PROVE  ~gripReleased /\ i = 1
    BY <1>3, <1>4 DEF NoneCounts
  <2>1. c[i].age \in Nat
    <3>1. c \in Seq(Timed) /\ i \in 1..Len(c)
      BY <1>0 DEF c
    <3>2. c[i] \in Timed
      BY <3>1
    <3> QED
      BY <3>2, HandsAssumption DEF Timed
  <2>2. Unheard(c[i].sample, c[i].age, q)
    BY <1>7, <1>8, <2>1 DEF Unheard
  <2> QED
    BY <1>3, <2>2 DEF HandsInv, NoneCounts, c, q, o
<1>10. (stage' = "confirm" /\ outcome' = "open") => OtherComes'
  <2> SUFFICES ASSUME stage' = "confirm", outcome' = "open", squeeze.with = "engaged"
               PROVE  \E j \in 1..Len(Tail(q)) : Tail(q)[j].sample.flags = "engaged" /\ Tail(q)[j].age + left >= Confirm
    BY <1>3, <1>4 DEF OtherComes
  <2>1. PICK j \in 1..Len(q) : q[j].sample.flags = "engaged" /\ q[j].age + left >= Confirm
    BY <1>3 DEF HandsInv, OtherComes, q, o
  <2>2. j # 1
    BY <1>7, <2>1 DEF s
  <2> QED
    BY <1>2, <2>1, <2>2
<1>11. outcome' # "passed"
  BY <1>3
<1> QED
  BY <1>3, <1>5, <1>6, <1>9, <1>10, <1>11 DEF HandsInv

\* A sample of the chosen port.
LEMMA ChosenIsFed ==
    ASSUME HandsInv, outcome = "open", samples[port] # <<>>,
           samples' = [samples EXCEPT ![port] = Tail(@)],
           NEW sample, sample = Head(samples[port]).sample,
           Wakes(sample) \/ Prompted(sample) \/ Confirms(sample),
           UNCHANGED <<port, oneController, ticks>>
    PROVE  HandsInv'
<1> DEFINE o == Other(port)
           q == samples[port]
           others == samples[o]
<1>0. /\ port \in Hands /\ o \in Hands /\ o # port /\ outcome \in {"open", "passed", "failed"}
      /\ samples \in [Hands -> Seq(Timed)] /\ \A h \in Hands : h = port \/ h = o
      /\ gripReleased \in BOOLEAN /\ span.now \in 0..Confirm /\ span = [now |-> span.now, held |-> span.held]
      /\ left \in Nat
  BY HandsTyped DEF HandsInv
<1>a. Window \in Nat /\ Confirm \in Nat /\ MaxDelay \in {0, 1}
  BY HandsAssumption
<1>1. q \in Seq(Timed) /\ InOrder(q) /\ q # <<>>
  BY <1>0 DEF HandsInv
<1>2. /\ Head(q) = q[1] /\ 1 \in 1..Len(q) /\ q[1].sample \in HandSamples /\ q[1].age \in 0..MaxDelay
      /\ Tail(q) \in Seq(Timed) /\ InOrder(Tail(q)) /\ Len(q) \in Nat
      /\ \A i \in 1..Len(Tail(q)) : i + 1 \in 1..Len(q) /\ Tail(q)[i] = q[i + 1]
  BY <1>1, TailOfQueue
<1>3. sample = q[1].sample /\ sample \in HandSamples
  BY <1>2
<1>4. /\ samples' \in [Hands -> Seq(Timed)] /\ samples'[port] = Tail(q) /\ samples'[o] = others
      /\ port' = port /\ Other(port') = o /\ oneController' = oneController /\ ticks' = ticks
  BY <1>0, <1>2
<1>5. \A h \in Hands : InOrder(samples'[h])
  BY <1>0, <1>2, <1>4 DEF HandsInv
<1> HIDE DEF o, q, others
\* Of what is behind the head, nothing was unheard while the check was prompting.
<1>6. ASSUME stage = "squeeze", NEW i \in 1..Len(Tail(q))
      PROVE  ~Unheard(Tail(q)[i].sample, Tail(q)[i].age, others)
  <2>1. i + 1 \in 1..Len(q) /\ i + 1 # 1 /\ Tail(q)[i] = q[i + 1]
    BY <1>2
  <2>2. NoneCounts
    BY <1>6 DEF HandsInv
  <2> QED
    BY <2>1, <2>2 DEF NoneCounts, q, others, o
<1>7. CASE Wakes(sample)
  <2>1. /\ stage = "awake" /\ UNCHANGED <<last, otherSeen, outcome, gripReleased, span, squeeze>>
        /\ \/ stage' = "squeeze" /\ left' = Window
           \/ UNCHANGED <<stage, left>>
    BY <1>7 DEF Wakes
  <2>2. HandsTypeOK'
    <3>1. left' \in 0..Window \cup 0..Confirm
      BY <1>a, <2>1 DEF HandsInv, HandsTypeOK
    <3>2. stage' \in {"awake", "squeeze", "confirm"}
      BY <2>1
    <3> QED
      BY <1>4, <2>1, <3>1, <3>2 DEF HandsInv, HandsTypeOK, Timed
  <2>3. ~gripReleased
    BY <2>1 DEF HandsInv
  <2>4. \A i \in 1..Len(Tail(q)) : i = 1
    <3> SUFFICES ASSUME NEW i \in 1..Len(Tail(q)), i # 1 PROVE FALSE
      OBVIOUS
    <3>1. 1 \in 1..Len(q) /\ 2 \in 1..Len(q) /\ 3 \in 1..Len(q)
      BY <1>2
    <3>2. q[1] \in Timed /\ q[2] \in Timed /\ q[3] \in Timed
      BY <1>1, <3>1
    <3>3. q[1].age > q[2].age /\ q[2].age > q[3].age
      BY <1>1, <3>1 DEF InOrder
    <3> QED
      BY <1>a, <3>2, <3>3 DEF Timed
  <2>5. NoneCounts'
    BY <1>4, <2>1, <2>3, <2>4 DEF NoneCounts
  <2> QED
    BY <1>5, <2>1, <2>2, <2>3, <2>5 DEF HandsInv
<1>8. CASE Prompted(sample)
  <2>0. stage = "squeeze" /\ UNCHANGED <<last, otherSeen, outcome>>
    BY <1>8 DEF Prompted
  <2>1. CASE sample.flags = "engaged" /\ gripReleased
    <3>1. /\ stage' = "confirm" /\ left' = Confirm /\ squeeze' = sample
          /\ span' = [now |-> 0, held |-> 0] /\ UNCHANGED gripReleased
      BY <1>8, <2>1 DEF Prompted, Squeezes
    <3>2. HandsTypeOK'
      <4>1. span' \in [now : 0..Confirm, held : 0..Confirm]
        BY <1>a, <3>1
      <4>2. left' \in 0..Confirm
        BY <1>a, <3>1
      <4>3. /\ squeeze' \in HandSamples /\ gripReleased' \in BOOLEAN /\ otherSeen' \in BOOLEAN
            /\ last' \in Flags \cup {"none"} /\ outcome' \in {"open", "passed", "failed"}
        BY <1>3, <2>0, <3>1 DEF HandsInv, HandsTypeOK
      <4>4. oneController' \in BOOLEAN /\ port' \in Hands /\ ticks' \in 0..MaxTicks
        BY <1>4 DEF HandsInv, HandsTypeOK
      <4> QED
        BY <1>4, <3>1, <4>1, <4>2, <4>3, <4>4 DEF HandsTypeOK, Timed
    <3>3. OtherComes'
      <4> SUFFICES ASSUME sample.with = "engaged"
                   PROVE  \E j \in 1..Len(others) : others[j].sample.flags = "engaged" /\ others[j].age + Confirm >= Confirm
        BY <1>4, <3>1 DEF OtherComes
      <4>1. HasGrip(others, q[1].age)
        BY <1>2, <1>3, <2>0, <2>1 DEF HandsInv, NoneCounts, Unheard, q, others, o
      <4>2. PICK j \in 1..Len(others) : others[j].sample.flags = "engaged" /\ others[j].age = q[1].age
        BY <4>1 DEF HasGrip
      <4>3. q[1].age \in Nat
        BY <1>a, <1>2
      <4> QED
        BY <1>a, <4>2, <4>3
    <3>4. squeeze'.flags = "engaged" /\ span'.now + left' = Confirm /\ left' \in 0..Confirm
      BY <1>a, <2>1, <3>1
    <3>5. stage' = "confirm" /\ outcome' = "open"
      BY <2>0, <3>1
    <3> QED
      BY <1>5, <3>2, <3>3, <3>4, <3>5 DEF HandsInv
  <2>2. CASE ~(sample.flags = "engaged" /\ gripReleased)
    <3>1. gripReleased' = (gripReleased \/ sample.flags = "up") /\ UNCHANGED <<stage, left, span, squeeze>>
      BY <1>8, <2>2 DEF Prompted
    <3>2. gripReleased' \in BOOLEAN
      BY <1>0, <3>1
    <3>3. HandsTypeOK'
      BY <1>4, <2>0, <3>1, <3>2 DEF HandsInv, HandsTypeOK, Timed
    <3>4. NoneCounts'
      BY <1>4, <1>6, <2>0 DEF NoneCounts
    <3> QED
      BY <1>5, <2>0, <3>1, <3>3, <3>4 DEF HandsInv
  <2> QED
    BY <2>1, <2>2
<1>9. CASE Confirms(sample)
  <2>1. /\ stage = "confirm" /\ UNCHANGED <<stage, left, gripReleased, last, otherSeen, squeeze>>
        /\ \/ span' = [span EXCEPT !.held = span.now] /\ UNCHANGED outcome
           \/ outcome' = "failed" /\ UNCHANGED span
    BY <1>9 DEF Confirms
  <2>2. span' \in [now : 0..Confirm, held : 0..Confirm] /\ span'.now = span.now
    BY <1>0, <2>1 DEF HandsInv, HandsTypeOK
  <2>3. HandsTypeOK'
    BY <1>4, <2>1, <2>2 DEF HandsInv, HandsTypeOK, Timed
  <2>4. OtherComes' \/ outcome' # "open"
    BY <1>4, <2>1 DEF HandsInv, OtherComes, others, o
  <2> QED
    BY <1>5, <2>1, <2>2, <2>3, <2>4 DEF HandsInv
<1> QED
  BY <1>7, <1>8, <1>9

\* A tick of both ports keeps the invariant.
LEMMA PortsTicked ==
    ASSUME HandsInv, PortsTick
    PROVE  HandsInv'
<1> DEFINE o == Other(port)
           q == samples[port]
           others == samples[o]
<1>0. /\ port \in Hands /\ o \in Hands /\ o # port /\ Other(o) = port
      /\ samples \in [Hands -> Seq(Timed)] /\ \A h \in Hands : h = port \/ h = o
      /\ span.now \in 0..Confirm /\ span.held \in 0..Confirm /\ span = [now |-> span.now, held |-> span.held]
      /\ left \in Nat
  BY HandsTyped DEF HandsInv, Other, Hands
<1>a. Window \in Nat /\ Confirm \in Nat /\ MaxDelay \in {0, 1} /\ MaxTicks \in Nat
  BY HandsAssumption
<1>1. /\ outcome = "open" /\ left > 0 /\ ticks < MaxTicks /\ ticks' = ticks + 1 /\ left' = left - 1
      /\ \A h \in Hands : \A i \in DOMAIN samples[h] : samples[h][i].age < MaxDelay
      /\ span' = (IF stage = "confirm" THEN [span EXCEPT !.now = @ + 1] ELSE span)
      /\ UNCHANGED <<port, oneController, stage, gripReleased, otherSeen, last, outcome, squeeze>>
  BY DEF PortsTick
<1>2. PICK seen \in [Hands -> Flags \cup {"none"}] :
        samples' = [h \in Hands |->
             IF seen[h] = "none" THEN Older(samples[h])
             ELSE Append(Older(samples[h]), [sample |-> [flags |-> seen[h], with |-> seen[Other(h)]],
                                             age |-> 0])]
  BY DEF PortsTick, Older
<1> DEFINE new(h) == [flags |-> IF seen[h] = "none" THEN "up" ELSE seen[h], with |-> seen[Other(h)]]
<1>3. ASSUME NEW h \in Hands
      PROVE  /\ samples'[h] \in Seq(Timed) /\ InOrder(samples'[h]) /\ Len(samples[h]) \in Nat
             /\ Len(samples'[h]) \in {Len(samples[h]), Len(samples[h]) + 1}
             /\ \A i \in 1..Len(samples[h]) :
                  /\ i \in 1..Len(samples'[h]) /\ samples'[h][i].sample = samples[h][i].sample
                  /\ samples'[h][i].age = samples[h][i].age + 1 /\ samples[h][i].age \in 0..MaxDelay
             /\ seen[h] = "none" => Len(samples'[h]) = Len(samples[h])
             /\ seen[h] # "none" =>
                  /\ Len(samples'[h]) = Len(samples[h]) + 1
                  /\ samples'[h][Len(samples[h]) + 1].sample = new(h)
                  /\ samples'[h][Len(samples[h]) + 1].age = 0
  <2>1. samples[h] \in Seq(Timed) /\ InOrder(samples[h]) /\ \A i \in 1..Len(samples[h]) : samples[h][i].age < MaxDelay
    BY <1>0, <1>1 DEF HandsInv
  <2>2. seen[h] \in Flags \cup {"none"} /\ seen[Other(h)] \in Flags \cup {"none"} /\ "up" \in Flags
    BY DEF Other, Hands, Flags
  <2>3. new(h) \in HandSamples
    BY <2>2 DEF HandSamples
  <2>4. samples'[h] = Older(samples[h]) \/ samples'[h] = Append(Older(samples[h]), [sample |-> new(h), age |-> 0])
    BY <1>2
  <2>5. seen[h] = "none" => samples'[h] = Older(samples[h])
    BY <1>2
  <2>6. seen[h] # "none" => samples'[h] = Append(Older(samples[h]), [sample |-> new(h), age |-> 0])
    BY <1>2
  <2>7. Older(samples[h]) \in Seq(Timed) /\ Len(Older(samples[h])) = Len(samples[h])
    <3> DEFINE r == Older(samples[h])
    <3>1. r = Older(samples[h])
      OBVIOUS
    <3> HIDE DEF r, new
    <3>2. r \in Seq(Timed) /\ Len(r) = Len(samples[h])
      BY <2>1, <2>3, <3>1, TickOfQueue
    <3> QED
      BY <3>1, <3>2
  <2>8. seen[h] # "none" => samples'[h] # Older(samples[h])
    <3>1. Len(Append(Older(samples[h]), [sample |-> new(h), age |-> 0])) = Len(Older(samples[h])) + 1
      BY <2>7
    <3> QED
      BY <2>1, <2>6, <2>7, <3>1
  <2> DEFINE r == samples'[h]
             g == samples[h]
             n == new(h)
  <2>9. /\ g \in Seq(Timed) /\ InOrder(g) /\ \A i \in 1..Len(g) : g[i].age < MaxDelay
        /\ n \in HandSamples /\ (r = Older(g) \/ r = Append(Older(g), [sample |-> n, age |-> 0]))
    BY <2>1, <2>3, <2>4
  <2> HIDE DEF new, r, g, n
  <2>10. /\ r \in Seq(Timed) /\ InOrder(r) /\ Len(g) \in Nat /\ Len(r) \in {Len(g), Len(g) + 1}
         /\ \A i \in 1..Len(g) : /\ i \in 1..Len(r) /\ r[i].sample = g[i].sample
                                 /\ r[i].age = g[i].age + 1 /\ g[i].age \in 0..MaxDelay
         /\ r = Older(g) => Len(r) = Len(g)
         /\ r # Older(g) => Len(r) = Len(g) + 1 /\ r[Len(g) + 1].sample = n /\ r[Len(g) + 1].age = 0
    BY <2>9, TickOfQueue
  <2> QED
    BY <2>5, <2>8, <2>10 DEF r, g, n
<1>4. samples' \in [Hands -> Seq(Timed)]
  BY <1>2, <1>3
<1>5. HandsTypeOK'
  <2>1. left' \in 0..Window \cup 0..Confirm
    BY <1>a, <1>0, <1>1 DEF HandsInv, HandsTypeOK
  <2>2. span' \in [now : 0..Confirm, held : 0..Confirm]
    <3>1. CASE stage = "confirm"
      <4>1. span.now + left = Confirm
        BY <3>1 DEF HandsInv
      <4>2. span.now + 1 \in 0..Confirm /\ span' = [now |-> span.now + 1, held |-> span.held]
        BY <1>a, <1>0, <1>1, <3>1, <4>1
      <4> QED
        BY <1>0, <4>2
    <3>2. CASE stage # "confirm"
      BY <1>1, <3>2 DEF HandsInv, HandsTypeOK
    <3> QED
      BY <3>1, <3>2
  <2>3. ticks' \in 0..MaxTicks
    BY <1>a, <1>1 DEF HandsInv, HandsTypeOK
  <2> QED
    BY <1>1, <1>4, <2>1, <2>2, <2>3 DEF HandsInv, HandsTypeOK, Timed
<1>6. stage = "squeeze" => NoneCounts'
  <2> SUFFICES ASSUME stage = "squeeze", NEW i \in 1..Len(samples'[port]),
                      Unheard(samples'[port][i].sample, samples'[port][i].age, samples'[o])
               PROVE  ~gripReleased /\ i = 1
    BY <1>1 DEF NoneCounts
  <2>1. NoneCounts
    BY <1>1 DEF HandsInv
  <2>2. CASE i \in 1..Len(q)
    <3>1. /\ samples'[port][i].sample = q[i].sample /\ samples'[port][i].age = q[i].age + 1
      BY <1>0, <1>3, <2>2
    <3>2. ASSUME HasGrip(others, q[i].age) PROVE HasGrip(samples'[o], q[i].age + 1)
      <4>1. PICK j \in 1..Len(others) : others[j].sample.flags = "engaged" /\ others[j].age = q[i].age
        BY <3>2 DEF HasGrip
      <4>2. j \in 1..Len(samples'[o]) /\ samples'[o][j].sample = others[j].sample /\ samples'[o][j].age = others[j].age + 1
        BY <1>0, <1>3
      <4> QED
        BY <4>1, <4>2 DEF HasGrip
    <3>3. Unheard(q[i].sample, q[i].age, others)
      BY <3>1, <3>2 DEF Unheard
    <3> QED
      BY <2>1, <2>2, <3>3 DEF NoneCounts
  <2>3. CASE i \notin 1..Len(q)
    <3>a. Len(q) \in Nat /\ Len(samples'[port]) \in {Len(q), Len(q) + 1} /\ (seen[port] = "none" => Len(samples'[port]) = Len(q))
      BY <1>0, <1>3
    <3>b. i \in Nat /\ i >= 1 /\ i <= Len(samples'[port])
      BY <3>a
    <3>1. seen[port] # "none" /\ i = Len(q) + 1
      <4> HIDE DEF q
      <4> QED
        BY <2>3, <3>a, <3>b
    <3>2. samples'[port][i].sample = new(port) /\ samples'[port][i].age = 0
      BY <1>0, <1>3, <3>1
    <3>3. seen[o] = "engaged"
      BY <3>2 DEF Unheard
    <3>4. /\ Len(others) + 1 \in 1..Len(samples'[o])
          /\ samples'[o][Len(others) + 1].sample = new(o)
          /\ samples'[o][Len(others) + 1].age = 0
      BY <1>0, <1>3, <3>3
    <3>5. new(o).flags = "engaged"
      BY <3>3
    <3>6. HasGrip(samples'[o], 0)
      BY <3>4, <3>5 DEF HasGrip
    <3> QED
      BY <3>2, <3>6 DEF Unheard
  <2> QED
    BY <2>2, <2>3
<1>7. stage = "confirm" => OtherComes'
  <2> SUFFICES ASSUME stage = "confirm", squeeze.with = "engaged"
               PROVE  \E j \in 1..Len(samples'[o]) : samples'[o][j].sample.flags = "engaged" /\ samples'[o][j].age + left' >= Confirm
    BY <1>1 DEF OtherComes
  <2>1. PICK j \in 1..Len(others) : others[j].sample.flags = "engaged" /\ others[j].age + left >= Confirm
    BY <1>1 DEF HandsInv, OtherComes
  <2>2. /\ j \in 1..Len(samples'[o]) /\ samples'[o][j].sample = others[j].sample
        /\ samples'[o][j].age = others[j].age + 1 /\ others[j].age \in 0..MaxDelay
    BY <1>0, <1>3
  <2>3. samples'[o][j].age + left' >= Confirm
    BY <1>a, <1>0, <1>1, <2>1, <2>2
  <2> QED
    BY <2>1, <2>2, <2>3
<1>8. stage = "confirm" => span'.now + left' = Confirm /\ left' \in 0..Confirm
  <2> SUFFICES ASSUME stage = "confirm" PROVE span'.now + left' = Confirm /\ left' \in 0..Confirm
    OBVIOUS
  <2>1. span'.now = span.now + 1
    BY <1>0, <1>1
  <2>2. span.now + left = Confirm /\ left \in 0..Confirm
    BY DEF HandsInv
  <2>3. left' = left - 1 /\ left > 0
    BY <1>1
  <2> QED
    BY <1>a, <1>0, <2>1, <2>2, <2>3
<1>9. \A h \in Hands : InOrder(samples'[h])
  BY <1>3
<1> QED
  BY <1>1, <1>5, <1>6, <1>7, <1>8, <1>9 DEF HandsInv

\* Each sample read, tick and judgement keeps the search's invariant.
LEMMA HandsStep == HandsInv /\ [HandsNext]_handsVars => HandsInv'
<1> SUFFICES ASSUME HandsInv, [HandsNext]_handsVars PROVE HandsInv'
  OBVIOUS
<1>0. port \in Hands /\ \A h \in Hands : h = port \/ h = Other(port)
  BY HandsTyped DEF HandsInv
<1>1. CASE Feed
  <2>1. PICK hand \in Hands :
          /\ outcome = "open" /\ samples[hand] # <<>>
          /\ samples' = [samples EXCEPT ![hand] = Tail(@)]
          /\ LET sample == Head(samples[hand]).sample IN
               IF hand # port THEN FeedOther(sample)
               ELSE Wakes(sample) \/ Prompted(sample) \/ Confirms(sample)
          /\ UNCHANGED <<port, oneController, ticks>>
    BY <1>1 DEF Feed
  <2>2. CASE hand = port
    BY <2>1, <2>2, ChosenIsFed
  <2>3. CASE hand # port
    <3>1. hand = Other(port)
      BY <1>0, <2>3
    <3> QED
      BY <2>1, <2>3, <3>1, OtherIsFed
  <2> QED
    BY <2>2, <2>3
<1>2. CASE Deadline
  <2>1. /\ outcome = "open" /\ left = 0
        /\ \/ outcome' = "passed" /\ stage = "confirm"
           \/ outcome' = "failed"
        /\ UNCHANGED <<port, oneController, stage, left, gripReleased, otherSeen, last, span, samples, ticks, squeeze>>
    BY <1>2 DEF Deadline
  <2>2. ASSUME stage = "confirm" PROVE squeeze.with # "engaged"
    <3> SUFFICES ASSUME squeeze.with = "engaged" PROVE FALSE
      OBVIOUS
    <3>1. PICK j \in 1..Len(samples[Other(port)]) : samples[Other(port)][j].age + left >= Confirm
      BY <2>1, <2>2 DEF HandsInv, OtherComes
    <3>2. samples[Other(port)] \in Seq(Timed)
      BY HandsTyped DEF HandsInv
    <3>3. samples[Other(port)][j] \in Timed
      BY <3>1, <3>2
    <3>4. samples[Other(port)][j].age \in 0..MaxDelay
      BY <3>3 DEF Timed
    <3> QED
      BY <2>1, <3>1, <3>4, HandsAssumption
  <2>3. HandsTypeOK'
    BY <2>1 DEF HandsInv, HandsTypeOK
  <2> QED
    BY <2>1, <2>2, <2>3 DEF HandsInv
<1>3. CASE PortsTick
  BY <1>3, PortsTicked
<1>4. CASE UNCHANGED handsVars
  BY <1>4 DEF handsVars, HandsInv, HandsTypeOK, NoneCounts, OtherComes
<1> QED
  BY <1>1, <1>2, <1>3, <1>4 DEF HandsNext

\* So the grip that proves a hand is held alone.
LEMMA HandsHold == HandsInv => OneGripProves
<1> SUFFICES ASSUME HandsInv PROVE OneGripProves
  OBVIOUS
<1>1. ASSUME NEW a \in Args, ~Refused(a)
      PROVE  PortOf(a) = HandOf(a) /\ (Paired[a.arm] \notin {"none", HandOf(a)} => a.cross)
  BY <1>1 DEF Refused, PortOf, HandOf
<1>2. outcome = "passed" => squeeze.flags = "engaged" /\ squeeze.with # "engaged"
  BY DEF HandsInv
<1> QED
  BY <1>1, <1>2 DEF OneGripProves

-----------------------------------------------------------------------------
(* The robot. *)

\* A robot that has one session at most.
Robots == [speaks : Versions \cup {"other"}, lenient : BOOLEAN, sessions : {0, 1}]
\* Where an opening can be.
Openings == [at : {"begin", "connected", "accepted", "asking", "open", "failed"},
             policy : {"Auto"} \cup Versions, version : Versions, enforce : BOOLEAN]

\* A robot is opened in its own version, over one session.
OpeningInv ==
    /\ robot \in Robots /\ opening \in Openings /\ OneSession
    /\ opening.at \in {"accepted", "asking", "open"} => opening.version = robot.speaks

\* What was done is what was called, and told as it was meant.
CallInv ==
    /\ call.name \in Calls \cup {NoValue}
    /\ call.did # NoValue => call.did = call.name /\ call.result = call.meant

\* A load that has a file.
HasFile(l) == load[l].at \in {"written", "loaded"}
\* Loads of which no file's name was taken already.
Loads == [at : {"idle", "asked", "naming", "written", "loaded"}, file : {NoValue} \cup (Int \X Nat),
          collided : {FALSE}]

\* Each file is of one load, and its number was given out before.
FilesInv ==
    /\ load \in [Loaders -> Loads] /\ naming.now \in Int /\ naming.next \in Nat
    /\ naming = [now |-> naming.now, next |-> naming.next, loads |-> naming.loads]
    /\ files = {load[l].file : l \in {k \in Loaders : HasFile(k)}}
    /\ \A l \in Loaders : HasFile(l) => load[l].file \in Int \X Nat /\ load[l].file[2] < naming.next
    /\ \A l, k \in Loaders : HasFile(l) /\ HasFile(k) /\ l # k => load[l].file # load[k].file

\* The client's invariant.
ClientInv == OpeningInv /\ CallInv /\ FilesInv

\* A client begins with no session, no call and no file.
LEMMA ClientBegins == ClientInit => ClientInv
<1> SUFFICES ASSUME ClientInit PROVE ClientInv
  OBVIOUS
<1>1. robot \in Robots /\ robot.sessions = 0 /\ opening \in Openings /\ opening.at = "begin"
  <2>1. robot \in [speaks : Versions \cup {"other"}, lenient : BOOLEAN, sessions : {0}]
    BY DEF ClientInit
  <2>2. opening \in [at : {"begin"}, policy : {"Auto"} \cup Versions, version : {"V10"}, enforce : BOOLEAN]
    BY DEF ClientInit
  <2>3. robot \in Robots /\ robot.sessions = 0
    BY <2>1 DEF Robots
  <2>4. opening \in Openings /\ opening.at = "begin"
    BY <2>2 DEF Openings, Versions
  <2> QED
    BY <2>3, <2>4
<1>2. OpeningInv
  BY <1>1 DEF OpeningInv, OneSession
<1>3. CallInv
  BY DEF ClientInit, NoCall, CallInv
<1>4. FilesInv
  <2>1. load = [l \in Loaders |-> NotLoading] /\ files = {} /\ naming = [now |-> 0, next |-> 0, loads |-> 0]
    BY DEF ClientInit
  <2>2. NotLoading \in Loads /\ NotLoading.at = "idle"
    BY DEF NotLoading, Loads
  <2>3. load \in [Loaders -> Loads] /\ \A l \in Loaders : ~HasFile(l)
    BY <2>1, <2>2 DEF HasFile
  <2> QED
    BY <2>1, <2>3 DEF FilesInv
<1> QED
  BY <1>2, <1>3, <1>4 DEF ClientInv

\* A table's rows are numbered from one, in either version.
Numbered(f) == DOMAIN f = 1..Len(f) /\ Len(f) \in Nat

\* The tables of numbers have rows from one on, in either version.
LEMMA TablesAreNumbered ==
    ASSUME NEW v \in Versions, NEW name PROVE Numbered(Family(name)[v]) /\ DOMAIN RequestIds[v] \subseteq Int
<1>1. v = "V5" \/ v = "V10"
  BY DEF Versions
<1>2. Numbered(MoveStatuses[v])
  BY <1>1 DEF MoveStatuses, Numbered
<1>3. Numbered(StopStatuses[v])
  BY <1>1 DEF StopStatuses, Rejected, Numbered
<1>4. Numbered(RecoveryStatuses[v])
  BY <1>1 DEF RecoveryStatuses, Rejected, Numbered
<1>5. Numbered(CommandStatuses[v])
  BY <1>1 DEF CommandStatuses, Rejected, Numbered
<1>6. Numbered(SetterStatuses[v])
  BY <1>1 DEF SetterStatuses, Rejected, Numbered
<1>7. DOMAIN RequestIds[v] \subseteq Int
  <2>1. CASE v = "V5"
    BY <2>1 DEF RequestIds
  <2>2. CASE v = "V10"
    BY <2>2 DEF RequestIds
  <2> QED
    BY <1>1, <2>1, <2>2
<1>8. Family(name) \in {MoveStatuses, StopStatuses, RecoveryStatuses, CommandStatuses, SetterStatuses}
  BY DEF Family
<1> QED
  BY <1>2, <1>3, <1>4, <1>5, <1>6, <1>7, <1>8

\* What a version's number means is what was asked, and what the robot meant by its answer.
LEMMA NumbersAgree ==
    ASSUME NEW v \in Versions, NEW name \in Calls, CommandId(v, name) # NoValue
    PROVE  /\ RequestIds[v][CommandId(v, name) + 1] = name
           /\ \A byte \in 0..(Len(Family(name)[v]) - 1) :
                Status(v, name, byte) = Family(name)[v][byte + 1]
<1>1. RequestIds[v][CommandId(v, name) + 1] = name
  <2> DEFINE at == {i \in DOMAIN RequestIds[v] : RequestIds[v][i] = name}
             i == CHOOSE i \in at : TRUE
  <2>1. at # {} /\ CommandId(v, name) = i - 1
    BY DEF CommandId
  <2>2. i \in at
    BY <2>1
  <2>3. DOMAIN RequestIds[v] \subseteq Int
    BY TablesAreNumbered
  <2>4. i \in Int /\ RequestIds[v][i] = name
    BY <2>2, <2>3
  <2> HIDE DEF i
  <2>5. CommandId(v, name) + 1 = i
    BY <2>1, <2>4
  <2> QED
    BY <2>4, <2>5
<1>2. ASSUME NEW byte \in 0..(Len(Family(name)[v]) - 1)
      PROVE  Status(v, name, byte) = Family(name)[v][byte + 1]
  <2>1. Numbered(Family(name)[v])
    BY TablesAreNumbered
  <2>2. byte + 1 \in DOMAIN Family(name)[v]
    BY <2>1 DEF Numbered
  <2> QED
    BY <2>2 DEF Status
<1> QED
  BY <1>1, <1>2

\* The naming of a file takes the next number.
LEMMA NamingSet ==
    ASSUME NEW now, NEW next, NEW loads, NEW newNow, NEW r, r = [now |-> now, next |-> next, loads |-> loads]
    PROVE  [r EXCEPT !.now = newNow, !.next = @ + 1] =
             [now |-> newNow, next |-> next + 1, loads |-> loads]
<1> DEFINE x == [r EXCEPT !.now = newNow, !.next = @ + 1]
<1>1. DOMAIN x = {"now", "next", "loads"}
  OBVIOUS
<1>2. x.now = newNow /\ x.next = next + 1 /\ x.loads = loads
  OBVIOUS
<1>3. x = [f \in {"now", "next", "loads"} |-> x[f]]
  BY <1>1
<1> HIDE DEF x
<1>4. x = [now |-> newNow, next |-> next + 1, loads |-> loads]
  BY <1>2, <1>3
<1> QED
  BY <1>4 DEF x

\* Each step of an opening, a call and a load keeps the client's invariant.
LEMMA ClientSteps == ClientInv /\ [ClientNext]_clientVars => ClientInv'
<1> SUFFICES ASSUME ClientInv, [ClientNext]_clientVars PROVE ClientInv'
  OBVIOUS
<1>0. /\ robot \in Robots /\ opening \in Openings /\ OneSession
      /\ opening.at \in {"accepted", "asking", "open"} => opening.version = robot.speaks
      /\ CallInv /\ FilesInv
  BY DEF ClientInv, OpeningInv
\* The steps of the opening.
<1>1. ASSUME UNCHANGED <<call, load, files, naming>>,
             robot' \in Robots, opening' \in Openings, OneSession',
             opening'.at \in {"accepted", "asking", "open"} => opening'.version = robot'.speaks
      PROVE  ClientInv'
  BY <1>0, <1>1 DEF ClientInv, OpeningInv, CallInv, FilesInv, HasFile
<1>a. /\ robot = [speaks |-> robot.speaks, lenient |-> robot.lenient, sessions |-> robot.sessions]
      /\ robot.sessions \in {0, 1} /\ robot.speaks \in Versions \cup {"other"} /\ robot.lenient \in BOOLEAN
  BY <1>0 DEF Robots
<1>b. /\ opening = [at |-> opening.at, policy |-> opening.policy, version |-> opening.version, enforce |-> opening.enforce]
      /\ opening.policy \in {"Auto"} \cup Versions /\ opening.version \in Versions /\ opening.enforce \in BOOLEAN
      /\ opening.at \in {"begin", "connected", "accepted", "asking", "open", "failed"}
  BY <1>0 DEF Openings
<1>c. ASSUME NEW n \in {0, 1} PROVE [robot EXCEPT !.sessions = n] \in Robots
  <2>1. [robot EXCEPT !.sessions = n] = [speaks |-> robot.speaks, lenient |-> robot.lenient, sessions |-> n]
    BY <1>a
  <2> QED
    BY <1>a, <2>1 DEF Robots
<1>d. ASSUME NEW at \in {"begin", "connected", "accepted", "asking", "open", "failed"}, NEW v \in Versions
      PROVE  [opening EXCEPT !.at = at, !.version = v] \in Openings
  <2> DEFINE x == [opening EXCEPT !.at = at, !.version = v]
  <2>1. DOMAIN x = {"at", "policy", "version", "enforce"}
    BY <1>b
  <2>2. x.at = at /\ x.version = v
    BY <1>b
  <2>3. x.policy = opening.policy /\ x.enforce = opening.enforce
    BY <1>b
  <2>4. x = [f \in {"at", "policy", "version", "enforce"} |-> x[f]]
    BY <2>1
  <2> HIDE DEF x
  <2>5. x = [at |-> at, policy |-> opening.policy, version |-> v, enforce |-> opening.enforce]
    BY <2>2, <2>3, <2>4
  <2>6. x \in Openings
    BY <1>b, <2>5 DEF Openings
  <2> QED
    BY <2>6 DEF x
<1>e. ASSUME NEW at \in {"begin", "connected", "accepted", "asking", "open", "failed"}
      PROVE  [opening EXCEPT !.at = at] \in Openings
  <2>1. [opening EXCEPT !.at = at] =
          [at |-> at, policy |-> opening.policy, version |-> opening.version, enforce |-> opening.enforce]
    BY <1>b
  <2> QED
    BY <1>b, <2>1 DEF Openings
<1>f. ASSUME NEW v \in Versions PROVE [opening EXCEPT !.version = v] \in Openings
  <2>1. [opening EXCEPT !.version = v] =
          [at |-> opening.at, policy |-> opening.policy, version |-> v, enforce |-> opening.enforce]
    BY <1>b
  <2> QED
    BY <1>b, <2>1 DEF Openings
<1>2. CASE NotRealtime
  <2>1. /\ opening.at = "begin" /\ opening' = [opening EXCEPT !.at = "failed"] /\ UNCHANGED <<robot, call, load, files, naming>>
    BY <1>2 DEF NotRealtime, OpeningFails
  <2> QED
    BY <1>0, <1>1, <1>b, <1>e, <2>1 DEF OneSession
<1>3. CASE FirstConnect
  <2>1. PICK v \in Versions :
          /\ robot' = [robot EXCEPT !.sessions = @ + 1]
          /\ opening' = [opening EXCEPT !.at = "connected", !.version = v]
          /\ UNCHANGED <<call, load, files, naming>>
    BY <1>3, <1>b DEF FirstConnect, ConnectAs, Versions
  <2>2. robot.sessions = 0
    BY <1>0, <1>3 DEF OneSession, FirstConnect
  <2>3. robot' = [robot EXCEPT !.sessions = 1]
    BY <2>1, <2>2
  <2>4. robot' \in Robots /\ robot'.sessions = 1
    BY <1>a, <1>c, <2>3
  <2>5. opening' \in Openings /\ opening'.at = "connected"
    BY <1>b, <1>d, <2>1
  <2> QED
    BY <1>1, <2>1, <2>4, <2>5 DEF OneSession
<1>4. CASE Fallback
  <2>1. /\ opening.at = "connected" /\ robot' = [robot EXCEPT !.sessions = robot.sessions]
        /\ opening' = [opening EXCEPT !.version = "V5"] /\ UNCHANGED <<call, load, files, naming>>
    BY <1>4 DEF Fallback, Reconnected
  <2>2. robot' = robot
    BY <1>a, <2>1
  <2>3. opening' \in Openings /\ opening'.at = "connected"
    BY <1>b, <1>f, <2>1 DEF Versions
  <2> QED
    BY <1>0, <1>1, <2>1, <2>2, <2>3 DEF OneSession
<1>5. ASSUME opening.at \notin {"begin", "failed"}, robot' = Closed, OpeningFails
      PROVE  ClientInv'
  <2>1. robot.sessions = 1
    BY <1>0, <1>5 DEF OneSession
  <2>2. robot' = [robot EXCEPT !.sessions = 0]
    BY <1>5, <2>1 DEF Closed
  <2>3. robot' \in Robots /\ robot'.sessions = 0
    BY <1>a, <1>c, <2>2
  <2>4. opening' = [opening EXCEPT !.at = "failed"] /\ UNCHANGED <<call, load, files, naming>>
    BY <1>5 DEF OpeningFails
  <2>5. opening' \in Openings /\ opening'.at = "failed"
    BY <1>b, <1>e, <2>4
  <2> QED
    BY <1>1, <2>3, <2>4, <2>5 DEF OneSession
<1>6. CASE Mismatched \/ NoState \/ NoModel \/ DropRobot
  BY <1>5, <1>6 DEF Mismatched, NoState, NoModel, DropRobot
<1>7. CASE Accepted \/ FirstState \/ ModelRead
  <2>1. PICK at \in {"accepted", "open", "asking"} :
          opening' = [opening EXCEPT !.at = at] /\ UNCHANGED <<robot, call, load, files, naming>>
    BY <1>7 DEF Accepted, FirstState, ModelRead
  <2>2. opening.at \in {"connected", "accepted", "asking"} /\ opening.version = robot.speaks
    BY <1>0, <1>7 DEF Accepted, FirstState, ModelRead, Accepts, Incompatible
  <2>3. opening' \in Openings /\ opening'.at = at /\ opening'.version = opening.version
    BY <1>b, <1>e, <2>1
  <2> QED
    BY <1>0, <1>1, <2>1, <2>2, <2>3 DEF OneSession
\* The calls.
<1>8. ASSUME UNCHANGED <<robot, opening, load, files, naming>>, CallInv' PROVE ClientInv'
  BY <1>0, <1>8 DEF ClientInv, OpeningInv, OneSession, FilesInv, HasFile
<1>9. CASE CallReturns
  <2>1. call' = NoCall
    BY <1>9 DEF CallReturns
  <2>2. CallInv'
    BY <2>1 DEF CallInv, NoCall
  <2> QED
    BY <1>8, <1>9, <2>2 DEF CallReturns
<1>10. ASSUME NEW name \in Calls, CallOn(name) PROVE ClientInv'
  <2>1. opening.at = "open" /\ UNCHANGED <<robot, opening, load, files, naming>>
    BY <1>10 DEF CallOn
  <2> DEFINE v == opening.version
             id == CommandId(v, name)
  <2>2. v \in Versions /\ robot.speaks = v
    BY <1>0, <1>b, <2>1
  <2>3. CASE CallRefused(name)
    <3>1. call' = [NoCall EXCEPT !.name = name, !.result = "InvalidOperation"]
      BY <1>10, <2>3 DEF CallOn
    <3>2. CallInv'
      BY <3>1 DEF CallInv, NoCall
    <3> QED
      BY <1>8, <2>1, <3>2
  <2>4. CASE ~CallRefused(name)
    <3>1. id # NoValue
      BY <2>4 DEF CallRefused
    <3>2. RequestIds[v][id + 1] = name
      BY <2>2, <3>1, NumbersAgree
    <3>3. PICK byte \in 0..(Len(Family(name)[v]) - 1) :
            call' = [name |-> name, did |-> name, meant |-> Family(name)[v][byte + 1],
                     result |-> Status(v, name, byte)]
      <4> HIDE DEF v, id
      <4>1. \E byte \in 0..(Len(Family(RequestIds[robot.speaks][id + 1])[robot.speaks]) - 1) :
              call' = [name |-> name, did |-> RequestIds[robot.speaks][id + 1],
                       meant |-> Family(RequestIds[robot.speaks][id + 1])[robot.speaks][byte + 1],
                       result |-> Status(v, name, byte)]
        BY <1>10, <2>4, Zenon DEF CallOn, v, id
      <4> QED
        BY <2>2, <3>2, <4>1
    <3>4. Status(v, name, byte) = Family(name)[v][byte + 1]
      BY <2>2, <3>1, NumbersAgree
    <3>5. CallInv'
      BY <3>3, <3>4 DEF CallInv
    <3> QED
      BY <1>8, <2>1, <3>5
  <2> QED
    BY <2>3, <2>4
\* The files of the model's library.
<1>11. ASSUME UNCHANGED <<robot, opening, call>>, FilesInv' PROVE ClientInv'
  BY <1>0, <1>11 DEF ClientInv, OpeningInv, OneSession, CallInv
<1>g. /\ load \in [Loaders -> Loads] /\ naming.now \in Int /\ naming.next \in Nat
      /\ naming = [now |-> naming.now, next |-> naming.next, loads |-> naming.loads]
      /\ files = {load[l].file : l \in {k \in Loaders : HasFile(k)}}
      /\ \A l \in Loaders : HasFile(l) => load[l].file \in Int \X Nat /\ load[l].file[2] < naming.next
      /\ \A l, k \in Loaders : HasFile(l) /\ HasFile(k) /\ l # k => load[l].file # load[k].file
  BY <1>0 DEF FilesInv
\* A step of one loader that takes no file and leaves none.
<1>12. ASSUME NEW l \in Loaders, NEW x \in Loads, load' = [load EXCEPT ![l] = x],
              UNCHANGED <<robot, opening, call, files>>,
              naming' = naming \/ \E n \in Nat : naming' = [naming EXCEPT !.loads = n]
                \/ naming' = [naming EXCEPT !.loads = @ + 1],
              x.at \in {"written", "loaded"} <=> HasFile(l),
              HasFile(l) => x.file = load[l].file
       PROVE  ClientInv'
  <2>1. naming'.now = naming.now /\ naming'.next = naming.next /\ naming' = [now |-> naming'.now, next |-> naming'.next, loads |-> naming'.loads]
    BY <1>12, <1>g
  <2>2. load' \in [Loaders -> Loads] /\ load'[l] = x /\ \A k \in Loaders : k # l => load'[k] = load[k]
    BY <1>12, <1>g
  <2>3. \A k \in Loaders : HasFile(k)' = HasFile(k) /\ (HasFile(k) => load'[k].file = load[k].file)
    BY <1>12, <2>2 DEF HasFile
  <2>4. files' = {load'[k].file : k \in {j \in Loaders : HasFile(j)'}}
    BY <1>12, <1>g, <2>3
  <2> QED
    BY <1>11, <1>12, <1>g, <2>1, <2>2, <2>3, <2>4 DEF FilesInv
<1>h. NotLoading \in Loads /\ NotLoading.at = "idle" /\ [NotLoading EXCEPT !.at = "asked"] \in Loads
  BY DEF NotLoading, Loads
<1>i. ASSUME NEW l \in Loaders, NEW at \in {"idle", "asked", "naming", "written", "loaded"}
      PROVE  /\ [load[l] EXCEPT !.at = at] \in Loads /\ [load[l] EXCEPT !.at = at].at = at
             /\ [load[l] EXCEPT !.at = at].file = load[l].file
  <2>1. load[l] \in Loads
    BY <1>g
  <2> QED
    BY <2>1 DEF Loads
<1>13. ASSUME NEW l \in Loaders, LoadModel(l) PROVE ClientInv'
  BY <1>12, <1>13, <1>h DEF LoadModel, HasFile, NotLoading
<1>14. ASSUME NEW l \in Loaders, LibraryReplied(l) PROVE ClientInv'
  <2>1. load' = [load EXCEPT ![l] = [load[l] EXCEPT !.at = "naming"]] /\ load[l].at = "asked" /\ UNCHANGED <<robot, opening, call, files, naming>>
    BY <1>14 DEF LibraryReplied
  <2> QED
    BY <1>12, <1>i, <2>1 DEF HasFile
<1>15. ASSUME NEW l \in Loaders, LibraryRefused(l) PROVE ClientInv'
  BY <1>12, <1>15, <1>h DEF LibraryRefused, HasFile
<1>16. ASSUME NEW l \in Loaders, OpenLibrary(l) PROVE ClientInv'
  <2>1. load' = [load EXCEPT ![l] = [load[l] EXCEPT !.at = "loaded"]] /\ load[l].at = "written" /\ UNCHANGED <<robot, opening, call, files, naming>>
    BY <1>16 DEF OpenLibrary
  <2> QED
    BY <1>12, <1>i, <2>1 DEF HasFile
<1>17. ASSUME NEW l \in Loaders, CreateFile(l) PROVE ClientInv'
  <2> DEFINE f == TempName
             x == [load[l] EXCEPT !.at = "written", !.file = f]
  <2>1. f \in Int \X Nat /\ f[2] = naming.next
    BY <1>g DEF TempName
  <2>2. \A g \in files : g[2] < naming.next
    BY <1>g
  <2>3. f \notin files
    BY <1>g, <2>1, <2>2
  <2>4. PICK tick \in {naming.now, 1} : naming' = [naming EXCEPT !.now = tick, !.next = @ + 1]
    BY <1>17 DEF CreateFile
  <2>5. load' = [load EXCEPT ![l] = x] /\ files' = files \cup {f} /\ load[l].at = "naming" /\ UNCHANGED <<robot, opening, call>>
    BY <1>17, <2>3 DEF CreateFile
  <2>6. x \in Loads /\ x.at = "written" /\ x.file = f
    <3>1. load[l] \in Loads
      BY <1>g
    <3> HIDE DEF f
    <3> QED
      BY <2>1, <3>1 DEF Loads
  <2> HIDE DEF f, x
  <2>7. /\ naming'.now \in Int /\ naming'.next = naming.next + 1
        /\ naming' = [now |-> naming'.now, next |-> naming'.next, loads |-> naming'.loads]
    <3>1. naming' = [now |-> tick, next |-> naming.next + 1, loads |-> naming.loads]
      <4> DEFINE n == naming.now
                 m == naming.next
                 c == naming.loads
      <4>1. naming = [now |-> n, next |-> m, loads |-> c]
        BY <1>g
      <4> HIDE DEF n, m, c
      <4>2. naming' = [now |-> tick, next |-> m + 1, loads |-> c]
        BY <2>4, <4>1, NamingSet
      <4> QED
        BY <4>2 DEF m, c
    <3> QED
      BY <1>g, <3>1
  <2>8. load' \in [Loaders -> Loads] /\ load'[l] = x /\ \A k \in Loaders : k # l => load'[k] = load[k]
    BY <1>g, <2>5, <2>6
  <2>9. ~HasFile(l) /\ HasFile(l)' /\ \A k \in Loaders : k # l => HasFile(k)' = HasFile(k)
    BY <2>5, <2>6, <2>8 DEF HasFile
  <2>10. files' = {load'[k].file : k \in {j \in Loaders : HasFile(j)'}}
    BY <1>g, <2>5, <2>6, <2>8, <2>9
  <2>11. \A k \in Loaders : HasFile(k) => load[k].file \in files
    BY <1>g
  <2>12. \A k \in Loaders : HasFile(k)' => load'[k].file \in Int \X Nat /\ load'[k].file[2] < naming'.next
    BY <1>g, <2>1, <2>6, <2>7, <2>8, <2>9
  <2>13. \A j, k \in Loaders : HasFile(j)' /\ HasFile(k)' /\ j # k => load'[j].file # load'[k].file
    BY <1>g, <2>3, <2>6, <2>8, <2>9, <2>11
  <2>14. FilesInv'
    BY <1>g, <2>7, <2>8, <2>10, <2>12, <2>13 DEF FilesInv
  <2> QED
    BY <1>11, <2>5, <2>14
<1>18. ASSUME NEW l \in Loaders, LibraryGone(l) PROVE ClientInv'
  <2>1. /\ HasFile(l) /\ load' = [load EXCEPT ![l] = NotLoading] /\ files' = files \ {load[l].file}
        /\ UNCHANGED <<robot, opening, call, naming>>
    BY <1>18 DEF LibraryGone, Removed, HasFile
  <2>2. load' \in [Loaders -> Loads] /\ load'[l] = NotLoading /\ \A k \in Loaders : k # l => load'[k] = load[k]
    BY <1>g, <1>h, <2>1
  <2>3. ~HasFile(l)' /\ \A k \in Loaders : k # l => HasFile(k)' = HasFile(k)
    BY <1>h, <2>2 DEF HasFile
  <2>4. files' = {load'[k].file : k \in {j \in Loaders : HasFile(j)'}}
    BY <1>g, <2>1, <2>2, <2>3
  <2>5. FilesInv'
    BY <1>g, <2>1, <2>2, <2>3, <2>4 DEF FilesInv
  <2> QED
    BY <1>11, <2>1, <2>5
<1>19. CASE UNCHANGED clientVars
  BY <1>19 DEF clientVars, ClientInv, OpeningInv, OneSession, CallInv, FilesInv, HasFile
<1> QED
  BY <1>2, <1>3, <1>4, <1>6, <1>7, <1>9, <1>10, <1>13, <1>14, <1>15, <1>16, <1>17, <1>18, <1>19 DEF ClientNext

\* So a robot is understood, opened once, and the files of its models are their own.
LEMMA ClientHolds == ClientInv => ClientTypeOK /\ MeaningIsKept /\ OneSession /\ LibrariesAreTheirOwn
<1> SUFFICES ASSUME ClientInv PROVE ClientTypeOK /\ MeaningIsKept /\ OneSession /\ LibrariesAreTheirOwn
  OBVIOUS
<1>1. ClientTypeOK
  <2>1. robot.sessions \in 0..2 /\ robot.speaks \in Versions \cup {"other"}
    BY DEF ClientInv, OpeningInv, Robots
  <2>2. /\ opening.at \in {"begin", "connected", "accepted", "asking", "open", "failed"}
        /\ opening.version \in Versions
    BY DEF ClientInv, OpeningInv, Openings
  <2>3. call.name \in Calls \cup {NoValue}
    BY DEF ClientInv, CallInv
  <2>4. ASSUME NEW l \in Loaders PROVE load[l].at \in {"idle", "asked", "naming", "written", "loaded"}
    <3>1. load[l] \in Loads
      BY DEF ClientInv, FilesInv
    <3> QED
      BY <3>1 DEF Loads
  <2> QED
    BY <2>1, <2>2, <2>3, <2>4 DEF ClientTypeOK
<1>2. MeaningIsKept /\ OneSession
  BY DEF ClientInv, OpeningInv, CallInv, MeaningIsKept
<1>3. LibrariesAreTheirOwn
  BY DEF ClientInv, FilesInv, HasFile, Loads, LibrariesAreTheirOwn
<1> QED
  BY <1>1, <1>2, <1>3

-----------------------------------------------------------------------------
(* A control loop. *)

\* What a quotient is, and a room: how much of a distance to a limit a cycle may take.
LEMMA Dividing ==
    ASSUME NEW x \in Nat, NEW y \in Nat \ {0}
    PROVE  x \div y \in Nat /\ y * (x \div y) <= x /\ x < y * (x \div y) + y
<1> DEFINE p == x \div y
           u == x % y
<1>1. p \in Int /\ u \in 0..(y - 1) /\ x = y * p + u
  OBVIOUS
<1> HIDE DEF p, u
<1>2. p >= 0
  <2> SUFFICES ASSUME p <= -1 PROVE FALSE
    BY <1>1
  <2>1. y * p <= y * (-1)
    BY <1>1
  <2> QED
    BY <1>1, <2>1
<1>3. p \in Nat /\ y * p <= x /\ x < y * p + y
  BY <1>1, <1>2
<1> QED
  BY <1>3 DEF p

Ratio == MaxAcceleration \div MaxJerk
LEMMA SlackTimesJerk == Ratio \in Nat \ {0} /\ Ratio * MaxJerk = MaxAcceleration
<1> DEFINE p == MaxAcceleration \div MaxJerk
           u == MaxAcceleration % MaxJerk
<1>0. p \in Int /\ MaxAcceleration = MaxJerk * p + u /\ u = 0
  BY LoopAssumption
<1>2. p \in Nat
  BY Dividing, LoopAssumption
<1> HIDE DEF p, u
<1>1. Ratio \in Nat /\ MaxAcceleration = MaxJerk * Ratio
  BY <1>0, <1>2, LoopAssumption DEF Ratio, p
<1> QED
  BY <1>1, LoopAssumption

LEMMA SafeIs ==
    ASSUME NEW d \in Int
    PROVE  /\ Safe(d) \in Int /\ (d >= 0 => Safe(d) >= 0) /\ (d <= 0 => Safe(d) <= 0)
           /\ Safe(d) >= 0 \/ d < 0
           /\ d >= 0 => Ratio * Safe(d) <= d /\ d < Ratio * Safe(d) + Ratio
           /\ d <= 0 => Ratio * Safe(d) >= d /\ d > Ratio * Safe(d) - Ratio
           /\ d >= 0 => Safe(d) <= d
           /\ d <= 0 => Safe(d) >= d
<1>1. CASE d >= 0
  <2>1. Safe(d) = d \div Ratio
    BY <1>1, SlackTimesJerk, Dividing DEF Safe, Size, Sign, Ratio
  <2>2. d \div Ratio \in Nat /\ Ratio * (d \div Ratio) <= d /\ d < Ratio * (d \div Ratio) + Ratio
    BY <1>1, SlackTimesJerk, Dividing
  <2>3. d \div Ratio <= Ratio * (d \div Ratio)
    BY <2>2, SlackTimesJerk
  <2> QED
    BY <1>1, <2>1, <2>2, <2>3, SlackTimesJerk
<1>2. CASE d < 0
  <2> DEFINE q == (-d) \div Ratio
  <2>0. -d \in Nat
    BY <1>2
  <2>2. q \in Nat /\ Ratio * q <= -d /\ -d < Ratio * q + Ratio
    BY <2>0, SlackTimesJerk, Dividing
  <2>1. Safe(d) = -q
    BY <1>2, <2>2 DEF Safe, Size, Sign, Ratio
  <2>3. q <= Ratio * q
    BY <2>2, SlackTimesJerk
  <2> HIDE DEF q
  <2>4. Ratio * (-q) = -(Ratio * q)
    BY <2>2, SlackTimesJerk
  <2> QED
    BY <1>2, <2>1, <2>2, <2>3, <2>4, SlackTimesJerk
<1> QED
  BY <1>1, <1>2

LEMMA SafeGrows ==
    ASSUME NEW c \in Int, NEW d \in Int, c <= d PROVE Safe(c) <= Safe(d)
<1> SUFFICES ASSUME Safe(c) >= Safe(d) + 1 PROVE FALSE
  BY SafeIs
<1> DEFINE p == Safe(c)
           q == Safe(d)
<1>1. p \in Int /\ q \in Int /\ p >= q + 1
  BY SafeIs
<1>2. /\ c >= 0 => p >= 0 /\ Ratio * p <= c
      /\ c <= 0 => p <= 0 /\ c > Ratio * p - Ratio
      /\ d >= 0 => q >= 0 /\ d < Ratio * q + Ratio
      /\ d <= 0 => q <= 0 /\ Ratio * q >= d
  BY SafeIs
<1> HIDE DEF p, q
<1>3. Ratio * p >= Ratio * q + Ratio
  <2>1. Ratio * p >= Ratio * (q + 1)
    BY <1>1, SlackTimesJerk
  <2> QED
    BY <2>1, <1>1, SlackTimesJerk
<1> QED
  BY <1>1, <1>2, <1>3, SlackTimesJerk

\* What is left of the room to a limit once the acceleration a was spent of it.
LEMMA RoomIsLeft ==
    ASSUME NEW d \in Int, NEW a \in Int, a <= Safe(d), a <= MaxAcceleration
    PROVE  Safe(d - a) >= a - MaxJerk
<1> SUFFICES ASSUME Safe(d - a) <= a - MaxJerk - 1 PROVE FALSE
  BY SafeIs, LoopAssumption
<1> DEFINE p == Safe(d)
           q == Safe(d - a)
<1>1. p \in Int /\ q \in Int /\ a <= p /\ q <= a - MaxJerk - 1
  BY SafeIs
<1>2. /\ d >= 0 => p >= 0 /\ Ratio * p <= d
      /\ d <= 0 => p <= 0 /\ d > Ratio * p - Ratio
      /\ d - a >= 0 => q >= 0 /\ d - a < Ratio * q + Ratio
      /\ d - a <= 0 => q <= 0 /\ Ratio * q >= d - a
  BY SafeIs
<1> HIDE DEF p, q
<1>3. Ratio * q <= Ratio * a - MaxAcceleration - Ratio
  <2>1. Ratio * q <= Ratio * (a - MaxJerk - 1)
    BY <1>1, SlackTimesJerk, LoopAssumption
  <2>2. Ratio * (a - MaxJerk - 1) = Ratio * a - Ratio * MaxJerk - Ratio
    BY SlackTimesJerk, LoopAssumption
  <2> QED
    BY <2>1, <2>2, SlackTimesJerk, <1>1
<1>4. Ratio * a <= Ratio * p
  BY <1>1, SlackTimesJerk
<1>5. Ratio * q \in Int /\ Ratio * p \in Int /\ Ratio * a \in Int
  BY <1>1, SlackTimesJerk
<1> QED
  BY <1>1, <1>2, <1>3, <1>4, <1>5, SlackTimesJerk, LoopAssumption

LEMMA SafeMirrors == ASSUME NEW d \in Int PROVE Safe(-d) = -Safe(d)
<1> DEFINE q == Size(d) \div (MaxAcceleration \div MaxJerk)
<1>1. q \in Int /\ Size(d) = Size(-d) /\ (d = 0 => q = 0)
  <2>1. Size(d) \in Nat /\ Size(d) = Size(-d) /\ (d = 0 => Size(d) = 0)
    BY DEF Size
  <2>2. Size(d) \div Ratio \in Nat /\ Ratio * (Size(d) \div Ratio) <= Size(d)
    BY <2>1, SlackTimesJerk, Dividing
  <2>3. Size(d) = 0 => Size(d) \div Ratio = 0
    BY <2>2, SlackTimesJerk
  <2> QED
    BY <2>1, <2>2, <2>3 DEF Ratio
<1>2. Safe(d) = Sign(d) * q /\ Safe(-d) = Sign(-d) * q
  BY <1>1 DEF Safe
<1> QED
  BY <1>1, <1>2 DEF Sign

LEMMA RoomIsLeftBelow ==
    ASSUME NEW d \in Int, NEW a \in Int, a >= Safe(d), a >= -MaxAcceleration
    PROVE  Safe(d - a) <= a + MaxJerk
<1>1. -a <= Safe(-d) /\ -a <= MaxAcceleration
  BY SafeMirrors, SafeIs, LoopAssumption
<1>2. Safe((-d) - (-a)) >= (-a) - MaxJerk
  BY <1>1, RoomIsLeft
<1>3. (-d) - (-a) = -(d - a) /\ Safe(-(d - a)) = -Safe(d - a) /\ Safe(d - a) \in Int
  BY SafeMirrors, SafeIs
<1> QED
  BY <1>2, <1>3, LoopAssumption

\* An acceleration that is bounded from both sides.
LEMMA JerkedIs ==
    ASSUME desired.v \in Int, desired.a \in Int, NEW w \in Int
    PROVE  /\ Jerked(w) \in Int
           /\ desired.a - MaxJerk <= Jerked(w) /\ Jerked(w) <= desired.a + MaxJerk
  BY LoopAssumption DEF Jerked, Clamp, Most, Least

-----------------------------------------------------------------------------
LoopRecords ==
    /\ fci \in {"V5", "V10"} /\ loop \in {"start", "spinning", "ok", "error", "reflex"}
    /\ motion \in Motions \cup {"none"}
    /\ command \in [motion: Int, elbow: {"none", "legal"}, tau: Int]
    /\ desired \in [at: Int, v: Int, a: Int, tau: Int]
    /\ cycle \in [done: 0..MaxCycles, skipped: 0..MaxSkips]
    /\ sent.elbow \in {"none", "legal"} /\ (sent.failed => loop = "error")
    /\ ~options.torques => command.tau = 0 /\ desired.tau = 0
    /\ motion = "none" => command.motion = 0

\* Where a motion can be after n cycles.
LoopRange(d, n) ==
    /\ Size(d.at) <= n * (2 * MaxVelocity + MaxAcceleration)
    /\ Size(d.at - d.v) <= n * (2 * MaxVelocity + MaxAcceleration)
    /\ Size(d.v) <= MaxVelocity + MaxAcceleration /\ Size(d.tau) <= n * MaxTorqueRate

\* The limits of the last cycle leave a room that the jerk can keep to.
Room(d) ==
    LET before == d.at - d.v
    IN  IF IsCartesian
        THEN Safe(MaxVelocity - d.v) >= d.a - MaxJerk /\ Safe(MaxVelocity + d.v) >= -d.a - MaxJerk
        ELSE /\ \/ Safe(Upper(before) - d.v) >= d.a - MaxJerk
                \/ d.a - MaxJerk <= -MaxAcceleration
             /\ Safe(LowerAt(before) - d.v) <= d.a + MaxJerk
             /\ Safe(LowerAt(before) - d.v) <= MaxAcceleration
Roomy(d) == Size(d.v) <= MaxVelocity /\ Size(d.a) <= MaxAcceleration /\ Room(d)

LimitsAreRight(at) ==
    /\ Upper(at) \in Int /\ LowerAt(at) \in Int /\ LowerAt(at) <= Upper(at)
    /\ Upper(at) <= MaxVelocity /\ LowerAt(at) >= -MaxVelocity
LEMMA LimitsInReach == \A at \in Reach : LimitsAreRight(at)
<1> SUFFICES ASSUME NEW at \in Reach PROVE LimitsAreRight(at)
  OBVIOUS
<1>1. at \in Int /\ -at \in Reach
  BY LoopAssumption DEF Reach
<1>2. /\ UpperAt(at) \in Int /\ UpperAt(at) <= MaxVelocity /\ -UpperAt(-at) <= UpperAt(at)
      /\ UpperAt(-at) \in Int /\ UpperAt(-at) <= MaxVelocity
  BY <1>1, LoopAssumption
<1> QED
  BY <1>2, LoopAssumption DEF LimitsAreRight, Upper, LowerAt

\* What the limiter makes of a joint's velocity.
LEMMA JointIsLimited ==
    ASSUME LoopRecords, Roomy(desired), ~IsCartesian, NEW w \in Int,
           LimitsAreRight(desired.at), LimitsAreRight(desired.at - desired.v),
           NEW d, d.v = LimitJoint(w, desired.at), d.a = d.v - desired.v, d.at = desired.at + d.v
    PROVE  /\ d.v \in Int /\ d.a \in Int
           /\ ~TooFast(d)
           /\ Jolts(d) => LimitsMoved
           /\ ~Jolts(d) => Room(d)
<1> DEFINE at == desired.at
           before == desired.at - desired.v
           U == Upper(at)
           L == LowerAt(at)
           dv == desired.v
           da == desired.a
           j == Jerked(w)
           up == Safe(U - dv)
           low == Safe(L - dv)
           a == d.v - dv
<1>1. /\ at \in Int /\ dv \in Int /\ da \in Int /\ U \in Int /\ L \in Int /\ L <= U
      /\ U <= MaxVelocity /\ L >= -MaxVelocity /\ before \in Int
      /\ Size(dv) <= MaxVelocity /\ Size(da) <= MaxAcceleration
  BY DEF LoopRecords, LimitsAreRight, Roomy
<1>2. j \in Int /\ da - MaxJerk <= j /\ j <= da + MaxJerk
  BY <1>1, JerkedIs
<1>3. up \in Int /\ low \in Int /\ low <= up
  BY <1>1, SafeIs, SafeGrows
<1>4. MaxAcceleration \in Nat /\ MaxJerk \in Nat /\ MaxVelocity \in Nat
  BY LoopAssumption
<1> DEFINE m == Most(Least(j, Least(up, MaxAcceleration)), Most(low, -MaxAcceleration))
<1>5. d.v = dv + m
  BY DEF LimitJoint
<1>6. m \in Int
  BY <1>2, <1>3, <1>4 DEF Most, Least
<1>7. d.v \in Int /\ a = m /\ a \in Int /\ d.a = a
  BY <1>1, <1>5, <1>6
<1>7a. a = Most(Least(j, Least(up, MaxAcceleration)), Most(low, -MaxAcceleration))
  BY <1>7
<1> HIDE DEF j, up, low, a, m
<1>8. /\ a \in Int /\ a >= low /\ a >= -MaxAcceleration /\ (a <= up \/ a = -MaxAcceleration)
      /\ (a <= MaxAcceleration \/ a = low)
      /\ a >= j \/ a >= up \/ a >= MaxAcceleration
      /\ a <= j \/ a = low \/ a = -MaxAcceleration
  BY <1>1, <1>2, <1>3, <1>4, <1>7a DEF Most, Least
<1> USE DEF up, low, j
<1>9. /\ U - dv >= 0 => up <= U - dv /\ up >= 0
      /\ U - dv <= 0 => up <= 0
      /\ L - dv <= 0 => low >= L - dv /\ low <= 0
      /\ L - dv >= 0 => low >= 0
  BY <1>1, SafeIs
<1>10. Room(desired)
  BY DEF Roomy
<1>11. /\ Safe(Upper(before) - dv) >= da - MaxJerk \/ da - MaxJerk <= -MaxAcceleration
       /\ Safe(LowerAt(before) - dv) <= da + MaxJerk
       /\ Safe(LowerAt(before) - dv) <= MaxAcceleration
  BY <1>10 DEF Room
<1>12. (Upper(before) = U /\ LowerAt(before) = L) \/ LimitsMoved
  BY DEF LimitsMoved
<1>13. d.at - d.v = at
  BY <1>1, <1>7
<1>14. d.v = dv + a
  BY <1>1, <1>7 DEF a
<1> HIDE DEF at, before, U, L, dv, da, j, up, low, a, m
<1>15. ~TooFast(d)
  <2>1. dv + a <= Most(dv, U)
    BY <1>1, <1>3, <1>4, <1>8, <1>9 DEF Most
  <2>2. dv + a >= Least(dv, L)
    BY <1>1, <1>3, <1>4, <1>8, <1>9 DEF Least
  <2>3. Most(dv, U) \in Int /\ Most(dv, U) <= MaxVelocity /\ Least(dv, L) \in Int /\ Least(dv, L) >= -MaxVelocity
    BY <1>1, <1>4, SMT DEF Most, Least, Size
  <2>4. dv + a \in Int
    BY <1>1, <1>8
  <2> DEFINE most == Most(dv, U)
             least == Least(dv, L)
             v == dv + a
  <2> HIDE DEF most, least, v
  <2>5. v \in Int /\ v <= most /\ v >= least /\ most <= MaxVelocity /\ least >= -MaxVelocity
        /\ most \in Int /\ least \in Int
    BY <2>1, <2>2, <2>3, <2>4 DEF v, most, least
  <2>6. Size(v) \in Int /\ Size(v) <= MaxVelocity
    BY <2>5, <1>4, SMT DEF Size
  <2>7. ~(Size(v) > MaxVelocity) /\ ~(v > most) /\ ~(v < least)
    BY <2>5, <2>6, <1>4, SMT
  <2>8. d.v = v
    BY <1>14 DEF v
  <2> QED
    BY <2>7, <2>8 DEF TooFast, most, least, dv, U, L, at
<1>16. Jolts(d) => LimitsMoved
  <2> SUFFICES ASSUME ~LimitsMoved PROVE ~Jolts(d)
    OBVIOUS
  <2>1. up >= da - MaxJerk \/ da - MaxJerk <= -MaxAcceleration
    BY <1>11, <1>12 DEF up
  <2>2. low <= da + MaxJerk /\ low <= MaxAcceleration
    BY <1>11, <1>12 DEF low
  <2>3. Size(a) <= MaxAcceleration
    BY <1>3, <1>4, <1>8, <2>2 DEF Size
  <2>4. a - da <= MaxJerk /\ a - da >= -MaxJerk
    BY <1>1, <1>2, <1>3, <1>4, <1>8, <2>1, <2>2 DEF Size
  <2>5. Size(a - da) <= MaxJerk
    BY <2>4, <1>4, <1>8, <1>1 DEF Size
  <2>6. Size(a) \in Int /\ Size(a - da) \in Int
    BY <1>1, <1>8 DEF Size
  <2>7. ~(Size(a) > MaxAcceleration) /\ ~(Size(a - da) > MaxJerk)
    BY <2>3, <2>5, <2>6, <1>4, SMT
  <2> QED
    BY <2>7, <1>7, Zenon DEF Jolts, da
<1>17. ~Jolts(d) => Room(d)
  <2> SUFFICES ASSUME ~Jolts(d) PROVE Room(d)
    OBVIOUS
  <2>1. a <= MaxAcceleration
    <3>1. ~(Size(a) > MaxAcceleration)
      BY <1>7, Zenon DEF Jolts
    <3> QED
      BY <3>1, <1>4, <1>8, SMT DEF Size
  <2>2. U - d.v = (U - dv) - a /\ L - d.v = (L - dv) - a
    BY <1>1, <1>8, <1>14
  <2>3. Safe((U - dv) - a) >= a - MaxJerk \/ a - MaxJerk <= -MaxAcceleration
    <3>1. a <= up => Safe((U - dv) - a) >= a - MaxJerk
      BY <1>1, <1>8, <2>1, RoomIsLeft DEF up
    <3> QED
      BY <3>1, <1>8, <1>4
  <2>4. Safe((L - dv) - a) <= a + MaxJerk
    BY <1>1, <1>8, RoomIsLeftBelow DEF low
  <2>5. Safe((L - dv) - a) <= MaxAcceleration
    <3>1. CASE a >= 0
      <4>1. Safe((L - dv) - a) <= low
        BY <1>1, <1>8, <3>1, SafeGrows DEF low
      <4> QED
        BY <4>1, <1>3, <1>4, <1>8, <2>1, <1>1, SafeIs
    <3>2. CASE a < 0
      <4>1. L - dv <= low
        BY <1>1, <1>3, <1>8, <1>9, <3>2, SafeIs DEF low
      <4>2. (L - dv) - a <= 0
        BY <4>1, <1>1, <1>3, <1>8
      <4> QED
        BY <4>2, <1>1, <1>4, <1>8, SafeIs
    <3> QED
      BY <3>1, <3>2, <1>8
  <2> QED
    BY <2>2, <2>3, <2>4, <2>5, <1>7, <1>13 DEF Room, U, L
<1> QED
  BY <1>7, <1>15, <1>16, <1>17

\* What the limiter makes of a velocity in space.
LEMMA VectorIsLimited ==
    ASSUME LoopRecords, Roomy(desired), IsCartesian, NEW w \in Int,
           NEW d, d.v = LimitVector(w), d.a = d.v - desired.v, d.at = desired.at + d.v
    PROVE  d.v \in Int /\ d.a \in Int /\ ~TooFast(d) /\ ~Jolts(d) /\ Room(d)
<1> DEFINE dv == desired.v
           da == desired.a
           j == Jerked(w)
           s == Sign(j)
           room == Safe(MaxVelocity - s * dv)
           m == s * Least(Size(j), Least(room, MaxAcceleration))
           a == d.v - dv
<1>1. /\ desired.at \in Int /\ dv \in Int /\ da \in Int
      /\ Size(dv) <= MaxVelocity /\ Size(da) <= MaxAcceleration
  BY DEF LoopRecords, Roomy
<1>2. j \in Int /\ da - MaxJerk <= j /\ j <= da + MaxJerk
  BY <1>1, JerkedIs
<1>4. MaxAcceleration \in Nat /\ MaxJerk \in Nat /\ MaxVelocity \in Nat
  BY LoopAssumption
<1>3. /\ Safe(MaxVelocity - dv) >= da - MaxJerk /\ Safe(MaxVelocity + dv) >= -da - MaxJerk
  BY DEF Roomy, Room
<1>5. d.v = dv + m
  BY DEF LimitVector
<1>6. /\ j >= 0 => s = 1 /\ Size(j) = j /\ room = Safe(MaxVelocity - dv)
      /\ j < 0 => s = -1 /\ Size(j) = -j /\ room = Safe(MaxVelocity + dv)
  <2>1. MaxVelocity - (-1) * dv = MaxVelocity + dv /\ 1 * dv = dv
    BY <1>1, <1>4
  <2> HIDE DEF j, dv
  <2>2. (j >= 0 => s = 1 /\ Size(j) = j) /\ (j < 0 => s = -1 /\ Size(j) = -j)
    BY <1>2 DEF Sign, Size
  <2> QED
    BY <2>1, <2>2, <1>2
<1>7. /\ MaxVelocity - dv >= 0 /\ MaxVelocity + dv >= 0
      /\ Safe(MaxVelocity - dv) \in Int /\ Safe(MaxVelocity - dv) >= 0 /\ Safe(MaxVelocity - dv) <= MaxVelocity - dv
      /\ Safe(MaxVelocity + dv) \in Int /\ Safe(MaxVelocity + dv) >= 0 /\ Safe(MaxVelocity + dv) <= MaxVelocity + dv
  <2>1. MaxVelocity - dv >= 0 /\ MaxVelocity + dv >= 0 /\ MaxVelocity - dv \in Int /\ MaxVelocity + dv \in Int
    BY <1>1, <1>4 DEF Size
  <2> QED
    BY <2>1, SafeIs
<1> HIDE DEF j, s, room, dv, da
<1>8. /\ m \in Int
      /\ j >= 0 => /\ m >= 0 /\ m <= j /\ m <= Safe(MaxVelocity - dv) /\ m <= MaxAcceleration
                   /\ m >= j \/ m >= Safe(MaxVelocity - dv) \/ m >= MaxAcceleration
      /\ j < 0 => /\ m <= 0 /\ m >= j /\ -m <= Safe(MaxVelocity + dv) /\ -m <= MaxAcceleration
                  /\ m <= j \/ -m >= Safe(MaxVelocity + dv) \/ -m >= MaxAcceleration
  BY <1>2, <1>4, <1>6, <1>7 DEF Least
<1> HIDE DEF m
<1>9. d.v \in Int /\ a = m /\ d.a = m /\ d.v = dv + m
  BY <1>1, <1>5, <1>8 DEF dv
<1>10. dv + m \in Int /\ Size(dv + m) \in Int /\ Size(dv + m) <= MaxVelocity
  <2>1. dv + m \in Int
    BY <1>1, <1>8
  <2>2. dv + m <= MaxVelocity
    BY <1>1, <1>2, <1>4, <1>7, <1>8 DEF Size
  <2>3. dv + m >= -MaxVelocity
    BY <1>1, <1>2, <1>4, <1>7, <1>8 DEF Size
  <2> QED
    BY <2>1, <2>2, <2>3, <1>4, SMT DEF Size
<1>11. ~TooFast(d)
  <2>1. ~(Size(dv + m) > MaxVelocity)
    BY <1>10, <1>4
  <2> QED
    BY <2>1, <1>9 DEF TooFast
<1>12. ~Jolts(d)
  <2>1. Size(m) <= MaxAcceleration
    BY <1>2, <1>4, <1>8 DEF Size
  <2>2. m - da <= MaxJerk /\ m - da >= -MaxJerk
    BY <1>1, <1>2, <1>3, <1>4, <1>7, <1>8 DEF Size
  <2>3. Size(m - da) <= MaxJerk
    BY <2>2, <1>1, <1>4, <1>8 DEF Size
  <2>4. Size(m) \in Int /\ Size(m - da) \in Int
    BY <1>1, <1>8 DEF Size
  <2>5. ~(Size(m) > MaxAcceleration) /\ ~(Size(m - da) > MaxJerk)
    BY <2>1, <2>3, <2>4, <1>4, SMT
  <2> QED
    BY <2>5, <1>9, Zenon DEF Jolts, da
<1>13. Room(d)
  <2>1. MaxVelocity - d.v = (MaxVelocity - dv) - m /\ MaxVelocity + d.v = (MaxVelocity + dv) - (-m)
    BY <1>1, <1>4, <1>8, <1>9
  <2>2. MaxVelocity - d.v >= 0 /\ MaxVelocity + d.v >= 0 /\ MaxVelocity - d.v \in Int /\ MaxVelocity + d.v \in Int
    BY <1>10, <1>9, <1>4 DEF Size
  <2>3. Safe(MaxVelocity - d.v) >= 0 /\ Safe(MaxVelocity + d.v) >= 0 /\ Safe(MaxVelocity - d.v) \in Int /\ Safe(MaxVelocity + d.v) \in Int
    BY <2>2, SafeIs
  <2>4. Safe(MaxVelocity - d.v) >= m - MaxJerk
    <3>1. CASE j >= 0
      BY <3>1, <2>1, <1>8, <1>7, RoomIsLeft, <1>1, <1>4
    <3>2. CASE j < 0
      BY <3>2, <2>3, <1>8, <1>4
    <3> QED
      BY <3>1, <3>2, <1>2
  <2>5. Safe(MaxVelocity + d.v) >= -m - MaxJerk
    <3>1. CASE j < 0
      <4>1. -m \in Int /\ -m <= Safe(MaxVelocity + dv) /\ -m <= MaxAcceleration /\ MaxVelocity + dv \in Int
        BY <3>1, <1>8, <1>1, <1>4
      <4> QED
        BY <4>1, <2>1, RoomIsLeft
    <3>2. CASE j >= 0
      BY <3>2, <2>3, <1>8, <1>4
    <3> QED
      BY <3>1, <3>2, <1>2
  <2> QED
    BY <2>4, <2>5, <1>9 DEF Room
<1> QED
  BY <1>1, <1>8, <1>9, <1>11, <1>12, <1>13

\* Products of a count grow with it.
LEMMA CountsGrow ==
    ASSUME NEW x \in Nat, NEW n \in Nat, NEW m \in Nat, n <= m
    PROVE  n * x \in Nat /\ n * x <= m * x /\ (n + 1) * x = n * x + x
  OBVIOUS

LEMMA InReach ==
    ASSUME NEW n \in 0..MaxCycles, NEW p \in Int, Size(p) <= n * (2 * MaxVelocity + MaxAcceleration)
    PROVE  p \in Reach
<1> DEFINE x == 2 * MaxVelocity + MaxAcceleration
<1>1. x \in Nat /\ n \in Nat /\ MaxCycles \in Nat /\ n <= MaxCycles
  BY LoopAssumption
<1>2. Reach = -MaxCycles * x..MaxCycles * x /\ Size(p) <= n * x
  BY DEF Reach
<1> HIDE DEF x
<1>3. n * x <= MaxCycles * x /\ n * x \in Nat /\ MaxCycles * x \in Nat /\ -MaxCycles * x = -(MaxCycles * x)
  BY <1>1, CountsGrow
<1> QED
  BY <1>2, <1>3 DEF Size

LEMMA TorqueIsLimited ==
    ASSUME LoopRecords, Size(desired.tau) <= cycle.done * MaxTorqueRate, NEW x \in Int, NEW p \in Published
    PROVE  /\ p \in Int /\ LimitTorque(x, p) \in Int
           /\ Size(LimitTorque(x, p) - desired.tau) <= MaxTorqueRate
<1>1. desired.tau \in Int /\ MaxTorqueRate \in Nat /\ cycle.done \in 0..MaxCycles /\ MaxCycles \in Nat
  BY LoopAssumption DEF LoopRecords
<1>2. cycle.done * MaxTorqueRate <= MaxCycles * MaxTorqueRate /\ MaxCycles * MaxTorqueRate \in Nat
      /\ -MaxCycles * MaxTorqueRate = -(MaxCycles * MaxTorqueRate) /\ cycle.done * MaxTorqueRate \in Nat
  BY <1>1, CountsGrow
<1> DEFINE t == desired.tau
           B == MaxCycles * MaxTorqueRate
<1>3. t \in Int /\ Size(t) <= B /\ B \in Nat
  BY <1>1, <1>2 DEF Size
<1>4. ReachOfTorques = -B - 1..B + 1
  BY <1>2 DEF ReachOfTorques
<1> HIDE DEF B
<1>5. p \in Int /\ p \in ReachOfTorques
  BY <1>3, <1>4 DEF Published, Size
<1>6. HalfUlp(p) \in 0..MaxTorqueRate /\ HalfUlp(0) = 0
  BY <1>5, LoopAssumption
<1>7. fci # "V5" => Size(p - t) <= HalfUlp(p)
  BY DEF Published
<1>8. fci = "V5" => p = t
  BY DEF Published
<1> DEFINE g == Margin(p)
<1>9. g \in 0..MaxTorqueRate /\ Size(p - t) <= g
  <2>1. CASE fci = "V5"
    BY <2>1, <1>8, <1>3, <1>1 DEF Margin, Size
  <2>2. CASE fci # "V5"
    BY <2>2, <1>6, <1>7, <1>1 DEF Margin, LoopRecords
  <2> QED
    BY <2>1, <2>2
<1> HIDE DEF g, t
<1> DEFINE r == MaxTorqueRate - g
<1>10. r \in Nat /\ r + g = MaxTorqueRate
  BY <1>9, <1>1
<1>11. LimitTorque(x, p) = p + Clamp(x - p, -r, r)
  BY DEF LimitTorque, g
<1> HIDE DEF r
<1>12. Clamp(x - p, -r, r) \in -r..r
  BY <1>5, <1>10 DEF Clamp, Most, Least
<1> QED
  BY <1>3, <1>5, <1>9, <1>10, <1>11, <1>12 DEF Size, t

LEMMA LimitedIsInt ==
    ASSUME LoopRecords, NEW w \in Int, NEW at \in Int, LimitsAreRight(at)
    PROVE  Limited(w, at) \in Int
<1>1. desired.v \in Int /\ MaxAcceleration \in Nat /\ MaxVelocity \in Nat
  BY LoopAssumption DEF LoopRecords
<1>2. Jerked(w) \in Int
  BY JerkedIs DEF LoopRecords
<1>3. LimitJoint(w, at) \in Int
  <2>1. Safe(Upper(at) - desired.v) \in Int /\ Safe(LowerAt(at) - desired.v) \in Int
    BY <1>1, SafeIs DEF LimitsAreRight
  <2> QED
    BY <2>1, <1>1, <1>2 DEF LimitJoint, Most, Least
<1>4. LimitVector(w) \in Int
  <2> DEFINE s == Sign(Jerked(w))
             r == Safe(MaxVelocity - s * desired.v)
  <2>1. s \in {-1, 1}
    BY DEF Sign
  <2>2. MaxVelocity - s * desired.v \in Int
    BY <1>1, <2>1
  <2>3. r \in Int
    BY <2>2, SafeIs
  <2>4. LimitVector(w) = desired.v + s * Least(Size(Jerked(w)), Least(r, MaxAcceleration))
    BY DEF LimitVector
  <2>5. Size(Jerked(w)) \in Int
    BY <1>2 DEF Size
  <2> HIDE DEF s, r
  <2> QED
    BY <1>1, <2>1, <2>3, <2>4, <2>5 DEF Least
<1> QED
  BY <1>3, <1>4 DEF Limited

LEMMA FilteredIsInt ==
    ASSUME NEW x \in Int, NEW was \in Int PROVE Filtered(x, was) \in Int
<1>1. Size(x - was) \div 2 \in Int /\ Sign(x - was) \in {-1, 1}
  BY DEF Size, Sign
<1> QED
  BY <1>1 DEF Filtered

\* A motion that goes on, as the robot takes it.
MotionGoes(c, x) ==
    IF motion = "none" THEN c.motion = command.motion ELSE x \in Int /\ c.motion = Converted(x)
TorqueGoes(c, publ) ==
    IF ~options.torques THEN c.tau = command.tau
    ELSE \E x \in Int : c.tau = IF options.limit THEN LimitTorque(x, publ) ELSE x

Commands == [motion: Int, elbow: {"none", "legal"}, tau: Int]
LEMMA SpinMotionIs ==
    ASSUME LoopRecords, NEW c \in Commands, NEW out \in MotionOutputs, LimitsAreRight(desired.at),
           IsPosition /\ out.x \in Int => LimitsAreRight(LastReference(out.x))
    PROVE  LET r == SpinMotion(c, out)
           IN  /\ r.command \in Commands /\ r.command.tau = c.tau /\ r.ends \in {"goes", "last", "error"}
               /\ motion = "none" => r.command.motion = c.motion /\ r.ends = "goes"
               /\ motion # "none" /\ r.ends = "goes" => out.x \in Int /\ r.command.motion = Converted(out.x)
<1> DEFINE r == SpinMotion(c, out)
<1>1. /\ motion = "none" => r = [command |-> c, ends |-> "goes"]
      /\ motion # "none" /\ NotAccepted(out.x) => r = [command |-> c, ends |-> "error"]
      /\ motion # "none" /\ ~NotAccepted(out.x) /\ ElbowFails(out.elbow) =>
           r = [command |-> [c EXCEPT !.motion = Converted(out.x)], ends |-> "error"]
      /\ motion # "none" /\ ~NotAccepted(out.x) /\ ~ElbowFails(out.elbow) =>
           r = [command |-> [c EXCEPT !.motion = Converted(out.x), !.elbow = out.elbow], ends |-> Ends(out)]
  BY DEF SpinMotion
<1> HIDE DEF r
<1>2. ~NotAccepted(out.x) => out.x \in Int
  <2> DEFINE ask == {NaN} \cup {(IF IsPosition THEN desired.at ELSE 0) + v : v \in Asked}
  <2>1. out.x \in {0} \cup ask
    BY DEF MotionOutputs
  <2>2. Asked \subseteq Int /\ desired.at \in Int
    BY LoopAssumption DEF Reach, LoopRecords
  <2>3. \A v \in Asked : (IF IsPosition THEN desired.at ELSE 0) + v \in Int
    BY <2>2
  <2>4. out.x = NaN \/ out.x \in Int
    BY <2>1, <2>3
  <2> QED
    BY <2>4 DEF NotAccepted
<1>3. ~ElbowFails(out.elbow) => out.elbow \in {"none", "legal"}
  BY DEF ElbowFails, MotionOutputs
<1>4. out.x \in Int => Converted(out.x) \in Int
  <2> SUFFICES ASSUME out.x \in Int PROVE Converted(out.x) \in Int
    OBVIOUS
  <2> DEFINE was == LastReference(out.x)
             value == Filtered(out.x, was)
  <2>1. was \in Int /\ desired.at \in Int
    BY DEF LastReference, LoopRecords
  <2>2. value \in Int
    BY <2>1, FilteredIsInt
  <2>4. Converted(out.x) = IF ~options.limit THEN value
        ELSE IF IsPosition THEN was + Limited(value - was, was) ELSE Limited(value, desired.at)
    BY DEF Converted
  <2> HIDE DEF value
  <2>5. Limited(value, desired.at) \in Int
    BY <2>1, <2>2, LimitedIsInt
  <2>6. IsPosition => Limited(value - was, was) \in Int
    BY <2>1, <2>2, LimitedIsInt
  <2> QED
    BY <2>1, <2>2, <2>4, <2>5, <2>6
<1>5. Ends(out) \in {"goes", "last"}
  BY DEF Ends
<1>6. CASE motion = "none"
  BY <1>1, <1>6 DEF r
<1>7. CASE motion # "none" /\ NotAccepted(out.x)
  BY <1>1, <1>7 DEF r
<1> DEFINE y == Converted(out.x)
<1>8. CASE motion # "none" /\ ~NotAccepted(out.x) /\ ElbowFails(out.elbow)
  <2>1. y \in Int
    BY <1>2, <1>4, <1>8
  <2>2. r = [command |-> [c EXCEPT !.motion = y], ends |-> "error"]
    BY <1>1, <1>8
  <2> HIDE DEF y, r
  <2> QED
    BY <2>1, <2>2, <1>8 DEF r, Commands
<1>9. CASE motion # "none" /\ ~NotAccepted(out.x) /\ ~ElbowFails(out.elbow)
  <2>1. y \in Int /\ out.x \in Int
    BY <1>2, <1>4, <1>9
  <2>2. r = [command |-> [c EXCEPT !.motion = y, !.elbow = out.elbow], ends |-> Ends(out)]
    BY <1>1, <1>9
  <2> DEFINE e == out.elbow
  <2>3. e \in {"none", "legal"}
    BY <1>3, <1>9
  <2> HIDE DEF r, e
  <2>4. [c EXCEPT !.motion = y, !.elbow = e] \in Commands /\ [c EXCEPT !.motion = y, !.elbow = e].tau = c.tau
        /\ [c EXCEPT !.motion = y, !.elbow = e].motion = y
    <3> HIDE DEF y
    <3> QED
      BY <2>1, <2>3 DEF Commands
  <2>5. r.command = [c EXCEPT !.motion = y, !.elbow = e] /\ r.ends = Ends(out)
    BY <2>2 DEF e
  <2> QED
    BY <2>1, <2>4, <2>5, <1>5, <1>9 DEF r
<1> QED
  BY <1>6, <1>7, <1>8, <1>9

LEMMA SpinControlIs ==
    ASSUME LoopRecords, NEW c \in Commands, NEW out \in TorqueOutputs, NEW publ \in Published,
           Size(desired.tau) <= cycle.done * MaxTorqueRate
    PROVE  LET r == SpinControl(c, out, publ)
           IN  /\ r.command \in Commands /\ r.ends \in {"goes", "last", "error"}
               /\ r.command.motion = c.motion /\ r.command.elbow = c.elbow
               /\ r.ends = "goes" =>
                    IF ~options.torques THEN r.command.tau = c.tau
                    ELSE \E x \in Int : r.command.tau = IF options.limit THEN LimitTorque(x, publ) ELSE x
               /\ ~options.torques => r.command.tau = c.tau
<1> DEFINE r == SpinControl(c, out, publ)
           x == Filtered(out.x, publ)
           t == IF options.limit THEN LimitTorque(x, publ) ELSE x
<1>1. /\ ~options.torques => r = [command |-> c, ends |-> "goes"]
      /\ options.torques /\ NotAccepted(out.x) => r = [command |-> c, ends |-> "error"]
      /\ options.torques /\ ~NotAccepted(out.x) => r = [command |-> [c EXCEPT !.tau = t], ends |-> Ends(out)]
  BY DEF SpinControl
<1>2. options.torques /\ ~NotAccepted(out.x) => out.x \in Int
  <2>1. options.torques => out.x = NaN \/ out.x \in Int
    BY LoopAssumption DEF TorqueOutputs
  <2> QED
    BY <2>1 DEF NotAccepted
<1>3. publ \in Int
  BY TorqueIsLimited
<1>4. options.torques /\ ~NotAccepted(out.x) => x \in Int
  BY <1>2, <1>3, FilteredIsInt
<1>5. x \in Int => t \in Int
  BY TorqueIsLimited
<1>6. Ends(out) \in {"goes", "last"}
  BY DEF Ends
<1> HIDE DEF r, x
<1>7. CASE ~options.torques
  BY <1>1, <1>7 DEF r
<1>8. CASE options.torques /\ NotAccepted(out.x)
  BY <1>1, <1>8 DEF r
<1>9. CASE options.torques /\ ~NotAccepted(out.x)
  BY <1>1, <1>4, <1>5, <1>6, <1>9 DEF r, Commands
<1> QED
  BY <1>7, <1>8, <1>9

LEMMA SpunIs ==
    ASSUME LoopRecords, NEW out \in MotionOutputs, NEW turning \in TorqueOutputs, NEW publ \in Published,
           Size(desired.tau) <= cycle.done * MaxTorqueRate, LimitsAreRight(desired.at),
           IsPosition /\ out.x \in Int => LimitsAreRight(LastReference(out.x))
    PROVE  LET r == Spun(out, turning, publ)
           IN  /\ r.command \in Commands /\ r.ends \in {"goes", "last", "error"}
               /\ r.ends = "goes" => MotionGoes(r.command, out.x) /\ TorqueGoes(r.command, publ)
               /\ ~options.torques => r.command.tau = command.tau
               /\ motion = "none" => r.command.motion = command.motion
<1>0. command \in Commands
  BY DEF LoopRecords, Commands
<1> DEFINE m == SpinMotion(command, out)
           n == SpinControl(m.command, turning, publ)
           t == SpinControl(command, turning, publ)
           u == SpinMotion(t.command, out)
<1>1. CASE MotionFirst
  <2>1. Spun(out, turning, publ) = IF m.ends # "goes" THEN m ELSE n
    BY <1>1 DEF Spun
  <2>2. /\ m.command \in Commands /\ m.command.tau = command.tau /\ m.ends \in {"goes", "last", "error"}
        /\ motion = "none" => m.command.motion = command.motion /\ m.ends = "goes"
        /\ motion # "none" /\ m.ends = "goes" => out.x \in Int /\ m.command.motion = Converted(out.x)
    BY <1>0, SpinMotionIs
  <2> HIDE DEF m
  <2>3. /\ n.command \in Commands /\ n.ends \in {"goes", "last", "error"}
        /\ n.command.motion = m.command.motion
        /\ n.ends = "goes" =>
             IF ~options.torques THEN n.command.tau = m.command.tau
             ELSE \E x \in Int : n.command.tau = IF options.limit THEN LimitTorque(x, publ) ELSE x
        /\ ~options.torques => n.command.tau = m.command.tau
    BY <2>2, SpinControlIs
  <2> HIDE DEF n
  <2> QED
    BY <2>1, <2>2, <2>3 DEF MotionGoes, TorqueGoes
<1>2. CASE ~MotionFirst
  <2>1. Spun(out, turning, publ) = IF t.ends # "goes" THEN t ELSE u
    BY <1>2 DEF Spun
  <2>2. /\ t.command \in Commands /\ t.ends \in {"goes", "last", "error"}
        /\ t.command.motion = command.motion
        /\ t.ends = "goes" =>
             IF ~options.torques THEN t.command.tau = command.tau
             ELSE \E x \in Int : t.command.tau = IF options.limit THEN LimitTorque(x, publ) ELSE x
        /\ ~options.torques => t.command.tau = command.tau
    BY <1>0, SpinControlIs
  <2> HIDE DEF t
  <2>3. /\ u.command \in Commands /\ u.command.tau = t.command.tau /\ u.ends \in {"goes", "last", "error"}
        /\ motion = "none" => u.command.motion = t.command.motion /\ u.ends = "goes"
        /\ motion # "none" /\ u.ends = "goes" => out.x \in Int /\ u.command.motion = Converted(out.x)
    BY <2>2, SpinMotionIs
  <2> HIDE DEF u
  <2> QED
    BY <2>1, <2>2, <2>3 DEF MotionGoes, TorqueGoes
<1> QED
  BY <1>1, <1>2

LoopInv ==
    /\ LoopRecords /\ LoopRange(desired, cycle.done)
    /\ IF cycle.done = 0
       THEN ~initialized /\ cycle.skipped = 0 /\ desired = [at |-> 0, v |-> 0, a |-> 0, tau |-> 0]
       ELSE initialized
    /\ motion = "none" => desired.v = 0 /\ desired.a = 0
    /\ options.limit /\ loop \in {"start", "spinning"} /\ cycle.skipped = 0 => Roomy(desired)
    /\ LimiterPreventsReflex

LEMMA ReachIsRight ==
    ASSUME NEW at \in Int, NEW n \in 0..MaxCycles, Size(at) <= n * (2 * MaxVelocity + MaxAcceleration)
    PROVE  LimitsAreRight(at)
  BY InReach, LimitsInReach

LEMMA MinusZero == -0 = 0
<1>1. \A z \in Int : (-z) = 0 - z
  OBVIOUS
<1>2. 0 \in Int /\ 0 - 0 = 0
  OBVIOUS
<1> QED
  BY <1>1, <1>2, Zenon

LEMMA ZeroIsRight == LimitsAreRight(0) /\ Upper(0) >= 0 /\ LowerAt(0) <= 0
<1> DEFINE x == 2 * MaxVelocity + MaxAcceleration
<1>1. x \in Nat /\ MaxCycles \in Nat /\ MaxVelocity \in Nat
  BY LoopAssumption
<1>2. Reach = -MaxCycles * x..MaxCycles * x
  BY DEF Reach
<1> HIDE DEF x
<1>3. MaxCycles * x \in Nat /\ -MaxCycles * x = -(MaxCycles * x)
  BY <1>1, CountsGrow
<1>4. 0 \in Reach
  BY <1>2, <1>3
<1>5. LimitsAreRight(0)
  BY <1>4, LimitsInReach
<1>6. UpperAt(0) \in Int /\ UpperAt(0) >= 0
  BY <1>4, LoopAssumption
<1>7. UpperAt(-0) = UpperAt(0)
  BY MinusZero, Zenon
<1>8. -UpperAt(-0) <= 0
  BY <1>6, <1>7
<1> QED
  BY <1>1, <1>5, <1>6, <1>8 DEF Upper, LowerAt

LEMMA LoopBegins == LoopInit => LoopInv
<1> SUFFICES ASSUME LoopInit PROVE LoopInv
  OBVIOUS
<1>1. /\ fci \in {"V5", "V10"} /\ loop = "start" /\ initialized = FALSE
      /\ command = [motion |-> 0, elbow |-> "none", tau |-> 0]
      /\ desired = [at |-> 0, v |-> 0, a |-> 0, tau |-> 0]
      /\ cycle = [done |-> 0, skipped |-> 0] /\ sent = [elbow |-> "none", failed |-> FALSE]
  BY DEF LoopInit
<1>2. motion \in Motions \cup {"none"}
  BY DEF LoopInit, Motions
<1>3. LoopRecords
  BY <1>1, <1>2, LoopAssumption DEF LoopRecords
<1>4. LoopRange(desired, cycle.done)
  BY <1>1, LoopAssumption DEF LoopRange, Size
<1>5. Roomy(desired)
  <2>1. LimitsAreRight(0)
    BY ZeroIsRight
  <2>2. Upper(0) >= 0 /\ LowerAt(0) <= 0
    BY ZeroIsRight
  <2>3. Safe(Upper(0)) >= 0 /\ Safe(LowerAt(0)) <= 0 /\ Safe(Upper(0)) \in Int /\ Safe(LowerAt(0)) \in Int
    BY <2>1, <2>2, SafeIs DEF LimitsAreRight
  <2>4. Safe(MaxVelocity) >= 0 /\ Safe(MaxVelocity) \in Int
    BY LoopAssumption, SafeIs
  <2>5. Upper(0) - 0 = Upper(0) /\ LowerAt(0) - 0 = LowerAt(0) /\ MaxVelocity - 0 = MaxVelocity /\ MaxVelocity + 0 = MaxVelocity
    BY <2>1, LoopAssumption DEF LimitsAreRight
  <2>6. desired.at = 0 /\ desired.v = 0 /\ desired.a = 0
    BY <1>1
  <2>8. desired.at - desired.v = 0 /\ -desired.a = 0
    <3>1. desired.at - desired.v = 0
      BY <2>6
    <3>2. -desired.a = 0
      BY <2>6, MinusZero, Zenon
    <3> QED
      BY <3>1, <3>2
  <2>7. Room(desired)
    BY <2>3, <2>4, <2>5, <2>6, <2>8, LoopAssumption DEF Room
  <2> QED
    BY <2>6, <2>7, LoopAssumption DEF Roomy, Size
<1> QED
  BY <1>1, <1>3, <1>4, <1>5 DEF LoopInv, LimiterPreventsReflex

\* The first position of an FR3 is not limited; what is no jump leaves room.
LEMMA FirstIsRoomy ==
    ASSUME NEW d, d \in [at: Int, v: Int, a: Int, tau: Int],
           desired = [at |-> 0, v |-> 0, a |-> 0, tau |-> 0],
           d.at = d.v, d.a = d.v, ~TooFast(d), ~Jolts(d), fci = "V10"
    PROVE  Roomy(d)
<1>2. Upper(0) >= 0 /\ LowerAt(0) <= 0 /\ Upper(0) \in Int /\ LowerAt(0) \in Int
  BY ZeroIsRight DEF LimitsAreRight
<1>3. MaxVelocity \in Nat /\ MaxJerk \in Nat /\ MaxAcceleration \in Nat
  BY LoopAssumption
<1>4. desired.at = 0 /\ desired.v = 0 /\ desired.a = 0
  OBVIOUS
<1> DEFINE v == d.v
<1>5. v \in Int /\ d.a = v /\ d.at - d.v = 0 /\ Size(v) <= MaxVelocity /\ Size(v) <= MaxAcceleration
  BY <1>3, <1>4 DEF TooFast, Jolts, Size
<1>6. Size(v) <= MaxJerk
  BY <1>3, <1>4 DEF Jolts, Size
<1>7. v <= MaxJerk /\ -v <= MaxJerk /\ v <= MaxVelocity /\ -v <= MaxVelocity
  BY <1>3, <1>5, <1>6 DEF Size
<1>8. Room(d)
  <2>1. CASE IsCartesian
    <3>1. Safe(MaxVelocity - v) >= 0 /\ Safe(MaxVelocity - v) \in Int /\ Safe(MaxVelocity + v) >= 0 /\ Safe(MaxVelocity + v) \in Int
      BY <1>3, <1>5, <1>7, SafeIs
    <3> QED
      BY <2>1, <3>1, <1>3, <1>5, <1>7 DEF Room
  <2>2. CASE ~IsCartesian
    <3>1. v <= Upper(0) /\ v >= LowerAt(0)
      BY <1>2, <1>3, <1>4, <1>5, <2>2 DEF TooFast, Most, Least
    <3>2. Safe(Upper(0) - v) >= 0 /\ Safe(Upper(0) - v) \in Int /\ Safe(LowerAt(0) - v) <= 0 /\ Safe(LowerAt(0) - v) \in Int
      BY <3>1, <1>2, <1>5, SafeIs
    <3> QED
      BY <2>2, <3>2, <1>3, <1>5, <1>7 DEF Room
  <2> QED
    BY <2>1, <2>2
<1> QED
  BY <1>3, <1>5, <1>8 DEF Roomy

\* What a command that is limited does to the robot.
LEMMA GoesWithinLimits ==
    ASSUME LoopInv, loop = "spinning", options.limit, cycle.skipped = 0,
           NEW out \in MotionOutputs, NEW publ \in Published, NEW c \in Commands,
           MotionGoes(c, out.x), TorqueGoes(c, publ),
           LimitsAreRight(desired.at), LimitsAreRight(desired.at - desired.v),
           IsPosition /\ out.x \in Int => LimitsAreRight(LastReference(out.x))
    PROVE  LET d == Taken(c)
               first == fci = "V10" /\ IsPosition /\ ~initialized
           IN  /\ first \/ (~TooFast(d) /\ (Jolts(d) => LimitsMoved))
               /\ first \/ ~TorqueJumps(d)
               /\ ~Jumps(d) => Roomy(d)
               /\ ~TorqueJumps(d)
<1> DEFINE d == Taken(c)
           first == fci = "V10" /\ IsPosition /\ ~initialized
<1>0. LoopRecords /\ Roomy(desired) /\ Size(desired.tau) <= cycle.done * MaxTorqueRate
  BY DEF LoopInv, LoopRange
<1>1. /\ desired.at \in Int /\ desired.v \in Int /\ desired.a \in Int /\ desired.tau \in Int
      /\ c.motion \in Int /\ c.tau \in Int
  BY <1>0 DEF LoopRecords, Commands
<1>2. ~TorqueJumps(d)
  <2>1. d.tau = c.tau
    BY DEF Taken
  <2>2. CASE options.torques
    <3>1. PICK x \in Int : c.tau = LimitTorque(x, publ)
      BY <2>2 DEF TorqueGoes
    <3> QED
      BY <3>1, <2>1, <1>0, <1>1, TorqueIsLimited, LoopAssumption DEF TorqueJumps, Size
  <2>3. CASE ~options.torques
    <3>1. c.tau = 0 /\ desired.tau = 0
      BY <2>3, <1>0 DEF TorqueGoes, LoopRecords
    <3> QED
      BY <3>1, <2>1, LoopAssumption DEF TorqueJumps, Size
  <2> QED
    BY <2>2, <2>3
<1>3. /\ d.v = IF motion = "none" THEN 0 ELSE IF IsPosition THEN c.motion - desired.at ELSE c.motion
      /\ d.at = desired.at + d.v /\ d.a = d.v - desired.v
  BY DEF Taken
<1>3a. d.v \in Int /\ d.a \in Int /\ d.at \in Int /\ d \in [at: Int, v: Int, a: Int, tau: Int]
  BY <1>1 DEF Taken
<1>4. CASE motion = "none"
  <2>1. d.v = 0 /\ d.a = 0 /\ desired.v = 0 /\ desired.a = 0 /\ d.at = desired.at /\ ~IsCartesian /\ ~IsPosition
    BY <1>1, <1>3, <1>4 DEF LoopInv, IsCartesian, IsPosition
  <2>2. LimitsAreRight(desired.at) /\ d.at - d.v = desired.at /\ desired.at - desired.v = desired.at
    BY <2>1, <1>1
  <2>3. ~TooFast(d) /\ ~Jolts(d)
    BY <2>1, <2>2, LoopAssumption DEF TooFast, Jolts, Size, Most, Least, LimitsAreRight
  <2>4. Roomy(d)
    <3>1. Room(desired) /\ Upper(desired.at) - 0 = Upper(desired.at) /\ LowerAt(desired.at) - 0 = LowerAt(desired.at)
      BY <1>0, <2>2 DEF Roomy, LimitsAreRight
    <3> QED
      BY <2>1, <2>2, <3>1, LoopAssumption DEF Roomy, Room, Size
  <2> QED
    BY <1>2, <2>3, <2>4
<1>5. CASE motion # "none" /\ first
  <2>1. desired = [at |-> 0, v |-> 0, a |-> 0, tau |-> 0]
    BY <1>5 DEF LoopInv
  <2>2. d.at = d.v /\ d.a = d.v
    BY <2>1, <1>3, <1>3a
  <2>3. ~Jumps(d) => Roomy(d)
    BY <1>3a, <1>5, <2>1, <2>2, FirstIsRoomy DEF Jumps
  <2> QED
    BY <2>3, <1>5, <1>2
<1>6. CASE motion # "none" /\ ~first
  <2>1. out.x \in Int /\ c.motion = Converted(out.x)
    BY <1>6 DEF MotionGoes
  <2> DEFINE was == LastReference(out.x)
             value == Filtered(out.x, was)
             w == IF IsPosition THEN value - was ELSE value
  <2>2. was \in Int /\ (IsPosition => was = desired.at)
    BY <1>1, <1>6, <2>1 DEF LastReference
  <2>3. value \in Int
    BY <2>1, <2>2, FilteredIsInt
  <2>4. c.motion = IF IsPosition THEN was + Limited(value - was, was) ELSE Limited(value, desired.at)
    BY <2>1 DEF Converted
  <2> HIDE DEF value, was
  <2>5. w \in Int
    BY <2>2, <2>3
  <2>6. Limited(w, desired.at) \in Int
    BY <2>5, <1>0, <1>1, LimitedIsInt
  <2>7. d.v = Limited(w, desired.at)
    <3>1. CASE IsPosition
      <4>1. c.motion = desired.at + Limited(w, desired.at)
        BY <3>1, <2>2, <2>4
      <4> QED
        BY <4>1, <3>1, <2>6, <1>1, <1>3, <1>6
    <3>2. CASE ~IsPosition
      <4>1. c.motion = Limited(w, desired.at)
        BY <3>2, <2>4
      <4> QED
        BY <4>1, <3>2, <2>6, <1>1, <1>3, <1>6
    <3> QED
      BY <3>1, <3>2
  <2> HIDE DEF w, d
  <2>8. CASE IsCartesian
    <3>1. d.v = LimitVector(w)
      BY <2>7, <2>8 DEF Limited
    <3>2. ~TooFast(d) /\ ~Jolts(d) /\ Room(d)
      BY <3>1, <2>5, <2>8, <1>0, <1>3, VectorIsLimited
    <3> QED
      BY <3>2, <1>2, <1>3a, LoopAssumption DEF Roomy, TooFast, Jolts, d, Size
  <2>9. CASE ~IsCartesian
    <3>1. d.v = LimitJoint(w, desired.at)
      BY <2>7, <2>9 DEF Limited
    <3>2. ~TooFast(d) /\ (Jolts(d) => LimitsMoved) /\ (~Jolts(d) => Room(d))
      BY <3>1, <2>5, <2>9, <1>0, <1>3, JointIsLimited
    <3> QED
      BY <3>2, <1>2, <1>3a, LoopAssumption DEF Roomy, TooFast, Jolts, Jumps, d, Size
  <2> QED
    BY <2>8, <2>9
<1> QED
  BY <1>4, <1>5, <1>6

\* Where a limiter looks a limit up.
LEMMA WhereLimitsAre ==
    ASSUME LoopInv, NEW out \in MotionOutputs
    PROVE  /\ LimitsAreRight(desired.at) /\ LimitsAreRight(desired.at - desired.v)
           /\ IsPosition /\ out.x \in Int => LimitsAreRight(LastReference(out.x))
<1>1. /\ desired.at \in Int /\ desired.v \in Int /\ desired.at - desired.v \in Int /\ cycle.done \in 0..MaxCycles
      /\ Size(desired.at) <= cycle.done * (2 * MaxVelocity + MaxAcceleration)
      /\ Size(desired.at - desired.v) <= cycle.done * (2 * MaxVelocity + MaxAcceleration)
  BY DEF LoopInv, LoopRecords, LoopRange
<1>2. LimitsAreRight(desired.at) /\ LimitsAreRight(desired.at - desired.v)
  BY <1>1, ReachIsRight
<1>3. ASSUME IsPosition, out.x \in Int PROVE LimitsAreRight(LastReference(out.x))
  <2>1. CASE fci = "V10" /\ ~initialized
    <3>1. desired.at = 0
      BY <2>1 DEF LoopInv
    <3>2. out.x = 0 \/ out.x = NaN \/ \E v \in Asked : out.x = desired.at + v
      BY <1>3 DEF MotionOutputs
    <3>3. Asked \subseteq Reach /\ Reach \subseteq Int
      BY LoopAssumption DEF Reach
    <3>4. CASE \E v \in Asked : out.x = desired.at + v
      <4>1. out.x \in Reach
        BY <3>1, <3>3, <3>4
      <4> QED
        BY <4>1, <2>1, <1>3, LimitsInReach DEF LastReference
    <3>5. CASE out.x = 0
      BY <3>5, <2>1, <1>3, ZeroIsRight DEF LastReference
    <3>6. CASE out.x = NaN
      BY <3>6, <1>3, LoopAssumption
    <3> QED
      BY <3>2, <3>4, <3>5, <3>6
  <2>2. CASE ~(fci = "V10" /\ ~initialized)
    BY <2>2, <1>2, <1>3 DEF LastReference
  <2> QED
    BY <2>1, <2>2
<1> QED
  BY <1>2, <1>3

\* What a robot's desired state is after a command that is no jump, and after a cycle without one.
LEMMA NextInRange ==
    ASSUME LoopRange(desired, cycle.done), cycle.done \in 0..MaxCycles,
           desired \in [at: Int, v: Int, a: Int, tau: Int],
           NEW c \in Commands, ~Jumps(Taken(c)), NEW e, e \in {Taken(c), Coasts(Taken(c))}
    PROVE  /\ e \in [at: Int, v: Int, a: Int, tau: Int] /\ e.tau = c.tau
           /\ LoopRange(e, cycle.done + 1)
           /\ motion = "none" /\ desired.v = 0 => e.v = 0 /\ e.a = 0
<1> DEFINE x == 2 * MaxVelocity + MaxAcceleration
           n == cycle.done
           d == Taken(c)
           v == d.v
           a == d.a
           at == desired.at
           t == desired.tau
           u == c.tau
<1>1. /\ at \in Int /\ t \in Int /\ u \in Int /\ c.motion \in Int /\ desired.v \in Int
      /\ MaxVelocity \in Nat /\ MaxAcceleration \in Nat /\ MaxTorqueRate \in Nat /\ n \in Nat
  BY LoopAssumption DEF Commands
<1>2. /\ d = [at |-> at + v, v |-> v, a |-> v - desired.v, tau |-> u]
      /\ v \in Int /\ a = v - desired.v /\ d.at = at + v /\ d.tau = u
      /\ motion = "none" => v = 0
  BY <1>1 DEF Taken
<1>3. Size(v) <= MaxVelocity /\ Size(a) <= MaxAcceleration /\ Size(u - t) <= MaxTorqueRate
  <2>1. ~TooFast(d) /\ ~Jolts(d) /\ ~TorqueJumps(d)
    BY DEF Jumps
  <2>2. ~(Size(v) > MaxVelocity) /\ ~(Size(a) > MaxAcceleration) /\ ~(Size(u - t) > MaxTorqueRate)
    BY <2>1, <1>2, Zenon DEF TooFast, Jolts, TorqueJumps
  <2>3. Size(v) \in Int /\ Size(a) \in Int /\ Size(u - t) \in Int
    <3>1. v \in Int /\ a \in Int /\ u - t \in Int
      BY <1>1, <1>2
    <3> HIDE DEF v, a, u, t
    <3> QED
      BY <3>1 DEF Size
  <2> HIDE DEF v, a, u, t
  <2> QED
    BY <2>2, <2>3, <1>1
<1>4. /\ x \in Nat /\ n * x \in Nat /\ (n + 1) * x = n * x + x
      /\ n * MaxTorqueRate \in Nat /\ (n + 1) * MaxTorqueRate = n * MaxTorqueRate + MaxTorqueRate
  <2>1. x \in Nat /\ n <= n
    BY <1>1
  <2> HIDE DEF x, n
  <2>2. n * x \in Nat /\ (n + 1) * x = n * x + x
    BY <1>1, <2>1, CountsGrow
  <2>3. n * MaxTorqueRate \in Nat /\ (n + 1) * MaxTorqueRate = n * MaxTorqueRate + MaxTorqueRate
    BY <1>1, <2>1, CountsGrow
  <2> QED
    BY <2>1, <2>2, <2>3
<1>5. Size(at) <= n * x /\ Size(t) <= n * MaxTorqueRate
  BY DEF LoopRange
<1>6. CASE e = d
  <2>1. e.at = at + v /\ e.v = v /\ e.a = a /\ e.tau = u
    BY <1>2, <1>6
  <2>2. e \in [at: Int, v: Int, a: Int, tau: Int]
    BY <1>1, <1>2, <1>6
  <2> HIDE DEF d, v, a, at, t, u, n
  <2>3. Size(at + v) <= n * x + x /\ Size((at + v) - v) <= n * x + x /\ Size(v) <= MaxVelocity + MaxAcceleration
        /\ Size(u) <= n * MaxTorqueRate + MaxTorqueRate
    <3> DEFINE y == n * x
               z == n * MaxTorqueRate
    <3>1. y \in Nat /\ z \in Nat /\ x = 2 * MaxVelocity + MaxAcceleration
      BY <1>4
    <3>2. Size(at) <= y /\ Size(t) <= z
      BY <1>5
    <3> HIDE DEF x, y, z
    <3>4. Size(at + v) <= y + x /\ Size((at + v) - v) <= y + x /\ Size(v) <= MaxVelocity + MaxAcceleration
          /\ Size(u) <= z + MaxTorqueRate
      BY <3>1, <3>2, <1>1, <1>2, <1>3 DEF Size
    <3> QED
      BY <3>4 DEF y, z
  <2> QED
    BY <2>1, <2>2, <2>3, <1>1, <1>2, <1>4 DEF LoopRange, n, u
<1>7. CASE e = Coasts(d)
  <2>1. e.at = (at + v) + v + a /\ e.v = v + a /\ e.a = a /\ e.tau = u
    <3>1. d \in [at: Int, v: Int, a: Int, tau: Int] /\ d.at = at + v /\ d.v = v /\ d.a = a /\ d.tau = u
      BY <1>1, <1>2
    <3> HIDE DEF d, v, a, at, u
    <3> QED
      BY <3>1, <1>7 DEF Coasts
  <2>2. e \in [at: Int, v: Int, a: Int, tau: Int]
    <3>1. d \in [at: Int, v: Int, a: Int, tau: Int] /\ d.at + d.v + d.a \in Int /\ d.v + d.a \in Int
      BY <1>1, <1>2
    <3> DEFINE p == d.at + d.v + d.a
               q == d.v + d.a
    <3>2. e = [d EXCEPT !.at = p, !.v = q] /\ p \in Int /\ q \in Int
      BY <3>1, <1>7 DEF Coasts
    <3> HIDE DEF d, p, q
    <3> QED
      BY <3>1, <3>2
  <2>4. desired.v = 0 /\ motion = "none" => v + a = 0 /\ a = 0
    <3>1. (motion = "none" => v = 0) /\ a = v - desired.v /\ v \in Int /\ desired.v \in Int
      BY <1>1, <1>2
    <3> HIDE DEF v, a
    <3> QED
      BY <3>1
  <2> HIDE DEF d, v, a, at, t, u, n
  <2>3. /\ Size((at + v) + v + a) <= n * x + x /\ Size(((at + v) + v + a) - (v + a)) <= n * x + x
        /\ Size(v + a) <= MaxVelocity + MaxAcceleration /\ Size(u) <= n * MaxTorqueRate + MaxTorqueRate
    <3> DEFINE y == n * x
               z == n * MaxTorqueRate
    <3>1. y \in Nat /\ z \in Nat /\ x = 2 * MaxVelocity + MaxAcceleration
      BY <1>4
    <3>2. Size(at) <= y /\ Size(t) <= z
      BY <1>5
    <3>3. a \in Int
      BY <1>1, <1>2
    <3> HIDE DEF x, y, z
    <3>4. /\ Size((at + v) + v + a) <= y + x /\ Size(((at + v) + v + a) - (v + a)) <= y + x
          /\ Size(v + a) <= MaxVelocity + MaxAcceleration /\ Size(u) <= z + MaxTorqueRate
      BY <3>1, <3>2, <3>3, <1>1, <1>2, <1>3 DEF Size
    <3> QED
      BY <3>4 DEF y, z
  <2> QED
    BY <2>1, <2>2, <2>3, <2>4, <1>1, <1>2, <1>4 DEF LoopRange, n, u
<1> QED
  BY <1>6, <1>7

LEMMA RangeGrows ==
    ASSUME NEW d, d \in [at: Int, v: Int, a: Int, tau: Int], NEW n \in Nat, LoopRange(d, n)
    PROVE  LoopRange(d, n + 1)
<1> DEFINE x == 2 * MaxVelocity + MaxAcceleration
<1>1. x \in Nat /\ MaxTorqueRate \in Nat /\ n <= n
  BY LoopAssumption
<1>2. /\ Size(d.at) <= n * x /\ Size(d.at - d.v) <= n * x
      /\ Size(d.v) <= MaxVelocity + MaxAcceleration /\ Size(d.tau) <= n * MaxTorqueRate
  BY DEF LoopRange
<1>3. Size(d.at) \in Int /\ Size(d.at - d.v) \in Int /\ Size(d.tau) \in Int
  BY DEF Size
<1> HIDE DEF x
<1>4. n * x \in Nat /\ (n + 1) * x = n * x + x
  BY <1>1, CountsGrow
<1>5. n * MaxTorqueRate \in Nat /\ (n + 1) * MaxTorqueRate = n * MaxTorqueRate + MaxTorqueRate
  BY <1>1, CountsGrow
<1>6. Size(d.at) <= (n + 1) * x /\ Size(d.at - d.v) <= (n + 1) * x /\ Size(d.tau) <= (n + 1) * MaxTorqueRate
  BY <1>1, <1>2, <1>3, <1>4, <1>5
<1> QED
  BY <1>2, <1>6 DEF LoopRange, x

LEMMA LoopSteps == LoopInv /\ [LoopNext]_loopVars => LoopInv'
<1> SUFFICES ASSUME LoopInv, [LoopNext]_loopVars PROVE LoopInv'
  OBVIOUS
<1>0. LoopRecords
  BY DEF LoopInv
<1>1. CASE StartLoop
  <2>1. /\ loop = "start" /\ loop' \in {"spinning", "error"}
        /\ fci' = fci /\ motion' = motion /\ options' = options /\ initialized' = initialized /\ command' = command
        /\ desired' = desired /\ cycle' = cycle /\ sent' = sent
    BY <1>1 DEF StartLoop
  <2>2. LoopRecords'
    BY <2>1, <1>0 DEF LoopRecords
  <2>3. LoopRange(desired, cycle.done)'
    BY <2>1 DEF LoopInv, LoopRange
  <2>4. options.limit /\ cycle.skipped = 0 => Roomy(desired)
    BY <2>1 DEF LoopInv
  <2>5. Roomy(desired)' <=> Roomy(desired)
    BY <2>1 DEF Roomy, Room, IsCartesian, Upper, LowerAt
  <2>6. LimiterPreventsReflex'
    BY <2>1 DEF LimiterPreventsReflex
  <2>7. /\ IF cycle'.done = 0
           THEN ~initialized' /\ cycle'.skipped = 0 /\ desired' = [at |-> 0, v |-> 0, a |-> 0, tau |-> 0]
           ELSE initialized'
        /\ motion' = "none" => desired'.v = 0 /\ desired'.a = 0
    BY <2>1 DEF LoopInv
  <2> QED
    BY <2>1, <2>2, <2>3, <2>4, <2>5, <2>6, <2>7 DEF LoopInv
<1>2. CASE Cycle
  <2>1. loop = "spinning" /\ cycle.done < MaxCycles /\ fci' = fci /\ motion' = motion /\ options' = options
    BY <1>2 DEF Cycle
  <2>2. PICK out \in MotionOutputs, turning \in TorqueOutputs, publ \in Published :
          /\ command' = Spun(out, turning, publ).command /\ initialized' = TRUE
          /\ loop' = IF Spun(out, turning, publ).ends = "error" THEN "error"
                     ELSE IF Spun(out, turning, publ).ends = "last" THEN "ok"
                     ELSE IF Jumps(Taken(Spun(out, turning, publ).command)) THEN "reflex" ELSE "spinning"
          /\ sent' = [elbow |-> IF Spun(out, turning, publ).ends = "error" THEN sent.elbow
                                ELSE Spun(out, turning, publ).command.elbow,
                      failed |-> Spun(out, turning, publ).ends = "error"]
          /\ \E skipped \in 0..(IF loop' = "spinning" THEN MaxSkips - cycle.skipped ELSE 0) :
               /\ cycle' = [done |-> cycle.done + 1, skipped |-> cycle.skipped + skipped]
               /\ desired' = IF loop' # "spinning" THEN desired
                             ELSE IF skipped = 0 THEN Taken(Spun(out, turning, publ).command)
                             ELSE Coasts(Taken(Spun(out, turning, publ).command))
    BY <1>2 DEF Cycle
  <2> DEFINE r == Spun(out, turning, publ)
             c == r.command
             d == Taken(c)
             ends == r.ends
  <2>3. PICK skipped \in 0..(IF loop' = "spinning" THEN MaxSkips - cycle.skipped ELSE 0) :
          /\ cycle' = [done |-> cycle.done + 1, skipped |-> cycle.skipped + skipped]
          /\ desired' = IF loop' # "spinning" THEN desired ELSE IF skipped = 0 THEN d ELSE Coasts(d)
    BY <2>2
  <2>4. /\ cycle.done \in 0..MaxCycles /\ cycle.skipped \in 0..MaxSkips /\ MaxCycles \in Nat /\ MaxSkips \in Nat
        /\ desired \in [at: Int, v: Int, a: Int, tau: Int] /\ sent.elbow \in {"none", "legal"}
        /\ fci \in {"V5", "V10"} /\ motion \in Motions \cup {"none"}
        /\ ~options.torques => command.tau = 0 /\ desired.tau = 0
        /\ motion = "none" => command.motion = 0
    BY <1>0, LoopAssumption DEF LoopRecords
  <2>5. LoopRange(desired, cycle.done) /\ Size(desired.tau) <= cycle.done * MaxTorqueRate
    BY DEF LoopInv, LoopRange
  <2>6. /\ LimitsAreRight(desired.at) /\ LimitsAreRight(desired.at - desired.v)
        /\ IsPosition /\ out.x \in Int => LimitsAreRight(LastReference(out.x))
    BY WhereLimitsAre
  <2>7. /\ c \in Commands /\ ends \in {"goes", "last", "error"}
        /\ ends = "goes" => MotionGoes(c, out.x) /\ TorqueGoes(c, publ)
        /\ ~options.torques => c.tau = command.tau
        /\ motion = "none" => c.motion = command.motion
    BY <1>0, <2>5, <2>6, SpunIs
  <2>8. /\ command' = c /\ initialized' = TRUE
        /\ loop' = IF ends = "error" THEN "error" ELSE IF ends = "last" THEN "ok"
                   ELSE IF Jumps(d) THEN "reflex" ELSE "spinning"
        /\ sent'.elbow = IF ends = "error" THEN sent.elbow ELSE c.elbow
        /\ sent'.failed = (ends = "error")
    BY <2>2
  <2> HIDE DEF r
  <2>9. cycle'.done = cycle.done + 1 /\ cycle'.skipped = cycle.skipped + skipped /\ skipped \in Nat
        /\ cycle' \in [done: 0..MaxCycles, skipped: 0..MaxSkips] /\ cycle'.done # 0
    <3>1. skipped \in 0..(MaxSkips - cycle.skipped)
      BY <2>4
    <3>2. cycle.done + 1 \in 0..MaxCycles /\ cycle.skipped + skipped \in 0..MaxSkips /\ skipped \in Nat
          /\ cycle.done + 1 # 0
      BY <3>1, <2>1, <2>4
    <3> QED
      BY <3>2, <2>3
  <2>10. loop' \in {"error", "ok", "reflex"} \/ (loop' = "spinning" /\ ends = "goes" /\ ~Jumps(d))
    BY <2>7, <2>8
  <2>11. (ends = "error" => loop' = "error") /\ (loop' = "reflex" => ends = "goes" /\ Jumps(d))
    BY <2>7, <2>8
  <2>12. sent'.elbow \in {"none", "legal"} /\ (sent'.failed => loop' = "error")
    BY <2>4, <2>7, <2>8, <2>11 DEF Commands
  <2>13. /\ desired' \in [at: Int, v: Int, a: Int, tau: Int]
         /\ LoopRange(desired', cycle.done + 1)
         /\ ~options.torques => desired'.tau = 0
         /\ motion = "none" => desired'.v = 0 /\ desired'.a = 0
    <3>1. CASE loop' # "spinning"
      <4>1. desired' = desired
        BY <2>3, <3>1
      <4>2. motion = "none" => desired.v = 0 /\ desired.a = 0
        BY DEF LoopInv
      <4>3. LoopRange(desired, cycle.done + 1)
        BY <2>4, <2>5, RangeGrows
      <4> QED
        BY <2>4, <4>1, <4>2, <4>3
    <3>2. CASE loop' = "spinning"
      <4>1. ~Jumps(d) /\ desired' \in {d, Coasts(d)}
        BY <2>3, <2>10, <3>2
      <4>2. motion = "none" => desired.v = 0
        BY DEF LoopInv
      <4>3. /\ desired' \in [at: Int, v: Int, a: Int, tau: Int] /\ desired'.tau = c.tau
            /\ LoopRange(desired', cycle.done + 1)
            /\ motion = "none" /\ desired.v = 0 => desired'.v = 0 /\ desired'.a = 0
        BY <2>4, <2>5, <2>7, <4>1, NextInRange
      <4> QED
        BY <2>4, <2>7, <4>2, <4>3
    <3> QED
      BY <3>1, <3>2
  <2>14. LoopRecords'
    <3>1. command' \in [motion: Int, elbow: {"none", "legal"}, tau: Int]
      BY <2>7, <2>8 DEF Commands
    <3>2. loop' \in {"start", "spinning", "ok", "error", "reflex"}
      BY <2>10
    <3>3. ~options'.torques => command'.tau = 0 /\ desired'.tau = 0
      BY <2>1, <2>4, <2>7, <2>8, <2>13
    <3>4. motion' = "none" => command'.motion = 0
      BY <2>1, <2>4, <2>7, <2>8
    <3> QED
      BY <2>1, <2>4, <2>9, <2>12, <2>13, <3>1, <3>2, <3>3, <3>4 DEF LoopRecords
  <2>15. options.limit /\ cycle.skipped = 0 /\ ends = "goes" =>
           LET first == fci = "V10" /\ IsPosition /\ ~initialized
           IN  /\ first \/ (~TooFast(d) /\ (Jolts(d) => LimitsMoved))
               /\ ~Jumps(d) => Roomy(d)
               /\ ~TorqueJumps(d)
    BY <2>1, <2>6, <2>7, GoesWithinLimits
  <2>16. options'.limit /\ loop' \in {"start", "spinning"} /\ cycle'.skipped = 0 => Roomy(desired)'
    <3> SUFFICES ASSUME options.limit, loop' = "spinning", cycle'.skipped = 0 PROVE Roomy(desired)'
      BY <2>1, <2>10
    <3>1. cycle.skipped = 0 /\ skipped = 0
      BY <2>4, <2>9
    <3>2. desired' = d /\ ends = "goes" /\ ~Jumps(d)
      BY <3>1, <2>3, <2>10
    <3>3. Roomy(d)
      BY <3>1, <3>2, <2>15
    <3> HIDE DEF d
    <3> QED
      BY <2>1, <3>2, <3>3 DEF Roomy, Room, IsCartesian, Upper, LowerAt
  <2>17. LimiterPreventsReflex'
    <3> SUFFICES ASSUME loop' = "reflex", options.limit, cycle'.skipped = 0,
                        ~(fci = "V10" /\ IsPosition /\ cycle'.done = 1)
                 PROVE  (LET e == Taken(command) IN LimitsMoved /\ ~TooFast(e) /\ ~TorqueJumps(e))'
      BY <2>1, <2>9 DEF LimiterPreventsReflex, IsPosition
    <3>1. cycle.skipped = 0 /\ ends = "goes" /\ Jumps(d) /\ desired' = desired
      BY <2>3, <2>4, <2>9, <2>11
    <3>2. ~(fci = "V10" /\ IsPosition /\ ~initialized)
      <4>1. cycle.done # 0 => initialized
        BY DEF LoopInv
      <4> QED
        BY <4>1, <2>4, <2>9
    <3>3. ~TooFast(d) /\ ~TorqueJumps(d) /\ LimitsMoved
      BY <3>1, <3>2, <2>15 DEF Jumps
    <3>4. Taken(command)' = d
      BY <2>1, <2>8, <3>1 DEF Taken, IsPosition
    <3> HIDE DEF d
    <3>5. LimitsMoved' <=> LimitsMoved
      BY <2>1, <3>1 DEF LimitsMoved, IsCartesian, Upper, LowerAt
    <3>6. TooFast(Taken(command))' <=> TooFast(d)
      BY <2>1, <3>1, <3>4 DEF TooFast, IsCartesian, Upper, LowerAt
    <3>7. TorqueJumps(Taken(command))' <=> TorqueJumps(d)
      BY <2>1, <3>1, <3>4 DEF TorqueJumps
    <3> QED
      BY <3>3, <3>5, <3>6, <3>7
  <2>18. LoopRange(desired, cycle.done)'
    BY <2>9, <2>13 DEF LoopRange
  <2> QED
    BY <2>1, <2>8, <2>9, <2>13, <2>14, <2>16, <2>17, <2>18 DEF LoopInv
<1>3. CASE UNCHANGED loopVars
  <2>1. /\ fci' = fci /\ motion' = motion /\ options' = options /\ initialized' = initialized /\ command' = command
        /\ desired' = desired /\ cycle' = cycle /\ sent' = sent /\ loop' = loop
    BY <1>3 DEF loopVars
  <2>2. LoopRecords'
    BY <2>1, <1>0 DEF LoopRecords
  <2>3. LoopRange(desired, cycle.done)'
    BY <2>1 DEF LoopInv, LoopRange
  <2>4. options.limit /\ loop \in {"start", "spinning"} /\ cycle.skipped = 0 => Roomy(desired)
    BY <2>1 DEF LoopInv
  <2>5. Roomy(desired)' <=> Roomy(desired)
    BY <2>1 DEF Roomy, Room, IsCartesian, Upper, LowerAt
  <2>6. LimiterPreventsReflex' <=> LimiterPreventsReflex
    BY <2>1 DEF LimiterPreventsReflex, LimitsMoved, IsPosition, IsCartesian, Upper, LowerAt, Taken, TooFast, TorqueJumps
  <2>7. /\ IF cycle'.done = 0
           THEN ~initialized' /\ cycle'.skipped = 0 /\ desired' = [at |-> 0, v |-> 0, a |-> 0, tau |-> 0]
           ELSE initialized'
        /\ motion' = "none" => desired'.v = 0 /\ desired'.a = 0
    BY <2>1 DEF LoopInv
  <2> QED
    BY <2>1, <2>2, <2>3, <2>4, <2>5, <2>6, <2>7 DEF LoopInv
<1> QED
  BY <1>1, <1>2, <1>3 DEF LoopNext

LEMMA LoopHolds == LoopInv => LoopSafety
  BY DEF LoopInv, LoopRecords, LoopSafety, OnlyChecked

-----------------------------------------------------------------------------
(* The torque loop. *)

\* Where an axis' limits are asked.
Span == -(LimitMargin + Drag)..Top

\* What the widths are.
LEMMA TorqueWidths ==
    /\ LimitMargin \in Nat /\ FadeBand \in Nat /\ 1 <= FadeBand /\ FadeBand <= LimitMargin
    /\ Top \in Nat /\ 2 * LimitMargin < Top /\ Leash \in Nat /\ MaxPlan \in Nat /\ Drag \in Nat
  BY TorqueAssumption

\* A limit at a place, and how it falls.
LEMMA LimitsFall ==
    ASSUME NEW x \in Span
    PROVE  /\ SpeedAt(x) \in Nat /\ Braking(x) \in Nat
           /\ x >= 0 => SpeedAt(x) <= x /\ Braking(x) <= x
           /\ \A y \in Span : y <= x => SpeedAt(y) <= SpeedAt(x) /\ Braking(y) <= Braking(x)
  BY TorqueAssumption DEF Span

\* Behind the margin there is nothing to brake from.
LEMMA NoBrakingBehind ==
    ASSUME NEW x \in Span, x <= 0
    PROVE  Braking(x) = 0
  <1>1. 0 \in Span
    BY TorqueAssumption DEF Span
  <1>2. Braking(0) \in Nat /\ Braking(0) <= 0 /\ Braking(x) <= Braking(0)
    BY <1>1, LimitsFall DEF Span
  <1>3. Braking(x) \in Nat
    BY LimitsFall
  <1> QED BY <1>2, <1>3

\* How far a goal may go to a side.
MostTo(from, side) == CycleBound(from, side).most

\* The distance to a limit.
LEMMA DistanceIs ==
    ASSUME NEW from \in Axis, NEW side \in {-1, 1}
    PROVE  /\ Distance(from, side) \in 0..Top /\ Distance(from, side) - LimitMargin \in Span
           /\ \A u \in Int : Distance(from + side * u, side) = Distance(from, side) - u
  BY TorqueAssumption DEF Distance, Axis, Span

\* A step is no longer than the way to the margin, and no faster than what is allowed, and what can
\* be braked from, where it ends.
LEMMA BoundIs ==
    ASSUME NEW from \in Axis, NEW side \in {-1, 1}
    PROVE  /\ MostTo(from, side) \in Nat
           /\ MostTo(from, side) <= Higher(0, Distance(from, side) - LimitMargin)
           /\ \A u \in 1..MostTo(from, side) :
                /\ u <= SpeedAt(Distance(from, side) - u)
                /\ u <= Braking(Distance(from, side) - LimitMargin - u)
  <1> DEFINE D == Distance(from, side)
             x == D - LimitMargin
             start == SpeedAt(D)
             speed == SpeedAt(D - start)
             b == Braking(x)
             braking == Braking(x - b)
  <1>0. D \in 0..Top /\ x \in Span
    BY DistanceIs
  <1>0a. Distance(from + side * start, side) = D - start
    <2>1. D \in Span
      BY <1>0, TorqueWidths DEF Span
    <2>2. start \in Int
      BY <2>1, LimitsFall
    <2> QED BY <2>2, DistanceIs
  <1>7. MostTo(from, side) = Lower(speed, Higher(0, Lower(x, braking)))
    BY <1>0a DEF MostTo, CycleBound
  <1>0b. x = D - LimitMargin
    OBVIOUS
  <1> HIDE DEF D, x
  <1>1. D \in 0..Top /\ x \in Span /\ D \in Span
    BY <1>0, TorqueWidths DEF Span
  <1>2. start \in Nat /\ start <= D /\ D - start \in Span
    BY <1>1, LimitsFall, TorqueWidths DEF Span
  <1>3. speed \in Nat /\ speed <= start
    BY <1>1, <1>2, LimitsFall
  <1>4. b \in Nat /\ x - b \in Span
    <2>1. b \in Nat
      BY <1>1, LimitsFall
    <2>2. CASE x >= 0
      BY <2>1, <2>2, <1>1, LimitsFall, TorqueWidths DEF Span
    <2>3. CASE x < 0
      BY <2>1, <2>3, <1>1, NoBrakingBehind DEF Span
    <2> QED BY <2>2, <2>3, <1>1 DEF Span
  <1>5. braking \in Nat /\ braking <= b
    BY <1>1, <1>4, LimitsFall
  <1>6. x \in Int /\ D \in Int
    BY <1>1 DEF Span
  <1>6a. MostTo(from, side) \in Nat /\ MostTo(from, side) <= Higher(0, x)
    BY <1>3, <1>5, <1>7, <1>6 DEF Lower, Higher
  <1>8. ASSUME NEW u \in 1..MostTo(from, side)
        PROVE  u <= SpeedAt(D - u) /\ u <= Braking(x - u)
    <2>0. u \in Nat /\ u >= 1 /\ u <= Lower(speed, Higher(0, Lower(x, braking)))
      BY <1>6a, <1>7
    <2>1. u <= speed /\ u <= x /\ u <= braking
      <3> HIDE DEF speed, braking
      <3> QED BY <2>0, <1>6, <1>3, <1>5 DEF Lower, Higher
    <2>2. D - u \in Span /\ D - start <= D - u
      BY <1>6, <2>0, <2>1, <1>1, <1>2, <1>3, TorqueWidths DEF Span
    <2>3. speed <= SpeedAt(D - u) /\ SpeedAt(D - u) \in Nat
      BY <2>2, <1>2, LimitsFall
    <2>4. x - u \in Span /\ x - b <= x - u
      BY <1>6, <2>0, <2>1, <1>1, <1>4, <1>5, TorqueWidths DEF Span
    <2>5. braking <= Braking(x - u) /\ Braking(x - u) \in Nat
      BY <2>4, <1>4, LimitsFall
    <2> QED BY <2>1, <2>3, <2>5, <1>3, <1>5
  <1> QED BY <1>8, <1>6a, <1>0b DEF D, x

\* A step that the box lets out is a part of the one planned.
LEMMA BoxedIs ==
    ASSUME NEW from \in Axis, NEW planned \in Int
    PROVE  /\ Boxed(from, planned) \in Int
           /\ -MostTo(from, -1) <= Boxed(from, planned) /\ Boxed(from, planned) <= MostTo(from, 1)
           /\ planned >= 0 => 0 <= Boxed(from, planned) /\ Boxed(from, planned) <= planned
           /\ planned <= 0 => planned <= Boxed(from, planned) /\ Boxed(from, planned) <= 0
  <1>1. MostTo(from, -1) \in Nat /\ MostTo(from, 1) \in Nat
    BY BoundIs
  <1>2. Boxed(from, planned) = Between(planned, -MostTo(from, -1), MostTo(from, 1))
    BY DEF Boxed, MostTo
  <1> QED BY <1>1, <1>2 DEF Between, Lower, Higher

\* GoalKeepsTheMargin and GoalCanBrake, of a goal.
Margined(goal, start) ==
    \/ LimitMargin <= goal /\ goal <= Top - LimitMargin
    \/ goal < LimitMargin /\ goal >= start
    \/ goal > Top - LimitMargin /\ goal <= start
Brakeable(from, goal) ==
    goal # from =>
      LET ahead == Distance(goal, Side(goal - from))
      IN  Abs(goal - from) <= Lower(SpeedAt(ahead), Braking(ahead - LimitMargin))

\* What a goal's step keeps.
LEMMA GoalStep ==
    ASSUME NEW from \in Axis, NEW planned \in Int, NEW start \in Axis, NEW goal,
           goal = from + Boxed(from, planned), Margined(from, start)
    PROVE  goal \in Axis /\ Margined(goal, start) /\ Brakeable(from, goal)
  <1> DEFINE w == Boxed(from, planned)
             up == MostTo(from, 1)
             down == MostTo(from, -1)
  <1>1. w \in Int /\ -down <= w /\ w <= up
    BY BoxedIs
  <1>2. up \in Nat /\ up <= Higher(0, Top - from - LimitMargin)
    BY BoundIs DEF Distance
  <1>3. down \in Nat /\ down <= Higher(0, from - LimitMargin)
    BY BoundIs DEF Distance
  <1>4. \A u \in 1..up : u <= SpeedAt(Top - from - u) /\ u <= Braking(Top - from - LimitMargin - u)
    BY BoundIs DEF Distance
  <1>5. \A u \in 1..down : u <= SpeedAt(from - u) /\ u <= Braking(from - LimitMargin - u)
    BY BoundIs DEF Distance
  <1>6. from \in Nat /\ from <= Top /\ Top \in Nat /\ LimitMargin \in Nat /\ goal = from + w /\ 2 * LimitMargin < Top
    BY TorqueAssumption DEF Axis
  <1> HIDE DEF w, up, down
  <1>7. goal \in Axis
    BY <1>1, <1>2, <1>3, <1>6 DEF Higher, Axis
  <1>8. Margined(goal, start)
    BY <1>1, <1>2, <1>3, <1>6 DEF Higher, Axis, Margined
  <1>9. CASE w > 0
    <2>1. Side(goal - from) = 1 /\ Abs(goal - from) = w /\ Distance(goal, 1) = Top - from - w
      BY <1>9, <1>1, <1>6 DEF Side, Abs, Distance
    <2>2. w <= SpeedAt(Top - from - w) /\ w <= Braking(Top - from - LimitMargin - w)
      BY <1>9, <1>1, <1>2, <1>4
    <2>3. Distance(goal, 1) - LimitMargin = Top - from - LimitMargin - w
      BY <2>1, <1>1, <1>6
    <2> QED BY <1>7, <1>8, <2>1, <2>2, <2>3 DEF Brakeable, Lower
  <1>10. CASE w < 0
    <2>1. Side(goal - from) = -1 /\ Abs(goal - from) = -w /\ Distance(goal, -1) = from - (-w)
      BY <1>10, <1>1, <1>6 DEF Side, Abs, Distance
    <2>2. -w \in 1..down
      BY <1>10, <1>1, <1>3
    <2>3. -w <= SpeedAt(from - (-w)) /\ -w <= Braking(from - LimitMargin - (-w))
      BY <2>2, <1>5
    <2>4. Distance(goal, -1) - LimitMargin = from - LimitMargin - (-w)
      BY <2>1, <1>1, <1>6
    <2> QED BY <1>7, <1>8, <2>1, <2>3, <2>4 DEF Brakeable, Lower
  <1>11. CASE w = 0
    BY <1>7, <1>8, <1>11, <1>6 DEF Brakeable
  <1> QED BY <1>9, <1>10, <1>11, <1>1

\* Nothing, divided.
LEMMA NothingDivided ==
    ASSUME NEW y \in Nat \ {0}
    PROVE  0 \div y = 0
  <1> DEFINE d == 0 \div y
  <1>1. d \in Nat /\ y * d <= 0
    BY Dividing
  <1> HIDE DEF d
  <1>2. SUFFICES ASSUME d >= 1 PROVE FALSE
    BY <1>1 DEF d
  <1>3. y * d >= y * 1
    BY <1>1, <1>2
  <1> QED BY <1>1, <1>3

\* What the leash leaves of a reference.
LEMMA LeashHolds ==
    ASSUME NEW r \in Int, NEW q \in Axis, NEW kept, kept = Between(r, q - Leash, q + Leash)
    PROVE  /\ kept \in Int /\ Abs(kept - q) <= Leash
           /\ r \in Axis => kept \in Axis
           /\ Abs(r - q) <= Leash => kept = r
  BY TorqueWidths DEF Between, Higher, Lower, Abs, Axis

\* A goal is not moved away from the arm beyond the leash and a step.
LEMMA GoalStaysNear ==
    ASSUME NEW from \in Axis, NEW q \in Axis, NEW kept \in Int, Abs(kept - q) <= Leash,
           NEW v \in -MaxPlan..MaxPlan
    PROVE  Abs(from + Boxed(from, kept + v - from) - q) <= Higher(Leash + MaxPlan, Abs(from - q))
  <1> DEFINE planned == kept + v - from
             w == Boxed(from, planned)
  <1>1. planned \in Int
    BY TorqueWidths DEF Axis
  <1>2. /\ w \in Int
        /\ planned >= 0 => 0 <= w /\ w <= planned
        /\ planned <= 0 => planned <= w /\ w <= 0
    BY <1>1, BoxedIs
  <1>3. planned = kept + v - from
    OBVIOUS
  <1> HIDE DEF planned, w
  <1>4. Abs(from + w - q) <= Higher(Leash + MaxPlan, Abs(from - q))
    BY <1>1, <1>2, <1>3, TorqueWidths DEF Abs, Higher, Axis
  <1> QED BY <1>4 DEF w, planned

\* What the envelope has to do with.
LEMMA TorqueGains ==
    /\ Stiffness \in Nat /\ Damping \in Nat /\ TauMax \in Nat /\ BarrierGain \in Nat
    /\ SpringStiffness \in Nat /\ RampCycles \in Nat \ {0} /\ FadeBand \in Nat \ {0}
    /\ Onset \in Nat /\ Onset < LimitMargin /\ 2 * Onset < Top
  BY TorqueAssumption DEF Onset

\* Where the barrier on a velocity starts.
LEMMA OnsetIs ==
    ASSUME NEW q \in Axis, NEW dq \in -Drag..Drag
    PROVE  OnsetNow(q, dq) \in Int /\ StartNow(q, dq) \in Int
  <1>1. ASSUME NEW p \in {q, q + dq}
        PROVE  OnsetAt(p, dq) \in Int /\ StartAt(p, dq) \in Int
    <2> DEFINE s == Distance(p, IF dq < 0 THEN -1 ELSE 1)
    <2>1. s \in Span /\ s - Onset \in Span /\ s - LimitMargin \in Span
      BY <1>1, TorqueWidths, TorqueGains DEF Distance, Axis, Span
    <2>2. SpeedAt(s) \in Nat /\ Braking(s - Onset) \in Nat /\ Braking(s - LimitMargin) \in Nat
      BY <2>1, LimitsFall
    <2> HIDE DEF s
    <2>3. Lower(SpeedAt(s), Braking(s - Onset)) \in Int
      BY <2>2 DEF Lower
    <2>4. Higher(0, Lower(Lower(SpeedAt(s), Braking(s - LimitMargin)),
                          Lower(SpeedAt(s), Braking(s - Onset)) - 1)) \in Int
      BY <2>2 DEF Lower, Higher
    <2> QED BY <2>3, <2>4 DEF OnsetAt, StartAt, s
  <1> QED BY <1>1 DEF OnsetNow, StartNow, Lower

\* A push that fades is a number.
LEMMA FadePushIs ==
    ASSUME NEW law \in Int, NEW q \in Axis, NEW dq \in -Drag..Drag
    PROVE  FadePush(law, q, dq) \in Int
  <1> DEFINE start == StartNow(q, dq)
             onset == OnsetNow(q, dq)
             share == Abs(law) * (onset - Abs(dq))
  <1>1. start \in Int /\ onset \in Int /\ Abs(dq) \in Nat /\ Abs(law) \in Nat /\ Side(law) \in {-1, 0, 1}
    BY OnsetIs DEF Abs, Side
  <1>2. CASE law * dq <= 0 \/ Abs(dq) <= start \/ Abs(dq) >= onset
    BY <1>2 DEF FadePush
  <1>3. CASE ~(law * dq <= 0 \/ Abs(dq) <= start) /\ ~(Abs(dq) >= onset)
    <2>1. FadePush(law, q, dq) = Side(law) * (share \div (onset - start))
      BY <1>3 DEF FadePush
    <2> HIDE DEF start, onset
    <2>2. onset - start \in Nat \ {0} /\ onset - Abs(dq) \in Nat
      BY <1>1, <1>3
    <2>3. share \in Nat
      BY <1>1, <2>2
    <2>4. share \div (onset - start) \in Nat
      BY <2>2, <2>3, Dividing
    <2> HIDE DEF share
    <2> QED BY <2>1, <2>4, <1>1
  <1> QED BY <1>2, <1>3

\* Beyond its onset nothing of the law is left that pushes toward a limit.
LEMMA FadeTowardIs ==
    ASSUME NEW x \in Int, NEW q \in Axis
    PROVE  /\ FadeToward(x, q) \in Int
           /\ Top - q <= Onset => FadeToward(x, q) <= 0
           /\ q <= Onset => FadeToward(x, q) >= 0
  <1> DEFINE s == Distance(q, IF x < 0 THEN -1 ELSE 1)
             k == Between(s - Onset, 0, FadeBand)
             n == (Abs(x) * k) \div FadeBand
  <1>1. s \in Int /\ (x < 0 => s = q) /\ (x >= 0 => s = Top - q)
    BY TorqueWidths DEF Distance, Axis
  <1> HIDE DEF s
  <1>2. k \in Nat /\ (s <= Onset => k = 0)
    BY <1>1, TorqueGains DEF Between, Higher, Lower
  <1> HIDE DEF k
  <1>3. Abs(x) \in Nat /\ Abs(x) * k \in Nat
    BY <1>2 DEF Abs
  <1>4. n \in Nat
    BY <1>3, TorqueGains, Dividing
  <1>5. s <= Onset => n = 0
    <2>1. ASSUME s <= Onset PROVE Abs(x) * k = 0
      BY <2>1, <1>2, <1>3
    <2> QED BY <2>1, NothingDivided, TorqueGains
  <1>6. FadeToward(x, q) = Side(x) * n
    BY DEF FadeToward, s, k
  <1> HIDE DEF n
  <1>7. CASE x < 0
    <2>0. Side(x) = -1
      BY <1>7 DEF Side
    <2>1. FadeToward(x, q) = -1 * n
      BY <1>6, <2>0, <1>4
    <2> QED BY <2>1, <1>1, <1>4, <1>5, <1>7, TorqueGains, TorqueWidths DEF Axis
  <1>8. CASE x = 0
    <2>1. FadeToward(x, q) = 0 * n
      BY <1>6, <1>8 DEF Side
    <2> QED BY <2>1, <1>4
  <1>9. CASE x > 0
    <2>1. FadeToward(x, q) = 1 * n
      BY <1>6, <1>9 DEF Side
    <2> QED BY <2>1, <1>1, <1>4, <1>5, <1>9, TorqueGains, TorqueWidths DEF Axis
  <1> QED BY <1>7, <1>8, <1>9

\* The barrier on the velocity never drives on.
LEMMA BarrierIs ==
    ASSUME NEW q \in Axis, NEW dq \in -Drag..Drag
    PROVE  /\ Barrier(q, dq) \in Int
           /\ dq >= 0 => Barrier(q, dq) <= 0
           /\ dq <= 0 => Barrier(q, dq) >= 0
  <1> DEFINE excess == Abs(dq) - OnsetNow(q, dq)
             most == Lower(BarrierGain * excess, TauMax)
  <1>1. excess \in Int /\ dq \in Int
    BY OnsetIs, TorqueWidths DEF Abs
  <1>2. CASE excess > 0
    <2>1. Barrier(q, dq) = -Side(dq) * most
      BY <1>2 DEF Barrier
    <2> HIDE DEF excess
    <2>2. BarrierGain * excess \in Nat
      BY <1>1, <1>2, TorqueGains
    <2>3. most \in Nat
      BY <2>2, TorqueGains DEF Lower
    <2> HIDE DEF most
    <2>4. CASE dq > 0
      <3>0. Side(dq) = 1
        BY <2>4 DEF Side
      <3>1. Barrier(q, dq) = -1 * most
        BY <2>1, <3>0
      <3> QED BY <3>1, <2>3, <2>4, <1>1
    <2>5. CASE dq < 0
      <3>0. Side(dq) = -1
        BY <2>5, <1>1 DEF Side
      <3>1. Barrier(q, dq) = 1 * most
        BY <2>1, <2>3, <3>0
      <3> QED BY <3>1, <2>3, <2>5, <1>1
    <2>6. CASE dq = 0
      <3>0. Side(dq) = 0
        BY <2>6 DEF Side
      <3>1. Barrier(q, dq) = 0 * most
        BY <2>1, <2>3, <3>0
      <3> QED BY <3>1, <2>3, <2>6
    <2> QED BY <2>4, <2>5, <2>6, <1>1
  <1>3. CASE ~(excess > 0)
    BY <1>3 DEF Barrier
  <1> QED BY <1>2, <1>3

\* Nor does the spring, which pushes from a limit inside its onset.
LEMMA SpringPushIs ==
    ASSUME NEW s \in Int, NEW ramp \in Nat
    PROVE  SpringPush(s, ramp) \in Nat /\ (s >= Onset => SpringPush(s, ramp) = 0)
  <1> DEFINE k == Higher(0, Onset - s)
             x == ramp * SpringStiffness * k
             n == x \div RampCycles
  <1>1. k \in Nat /\ (s >= Onset => k = 0)
    BY TorqueGains DEF Higher
  <1>2. SpringPush(s, ramp) = Lower(n, TauMax)
    BY DEF SpringPush
  <1> HIDE DEF k
  <1>3. ramp * SpringStiffness \in Nat
    BY TorqueGains
  <1>4. x \in Nat
    BY <1>1, <1>3
  <1>5. ASSUME s >= Onset PROVE x = 0
    <2>1. k = 0
      BY <1>1, <1>5
    <2> QED BY <2>1, <1>3
  <1> HIDE DEF x
  <1>6. n \in Nat /\ (s >= Onset => n = 0)
    BY <1>4, <1>5, TorqueGains, Dividing, NothingDivided
  <1> HIDE DEF n
  <1> QED BY <1>2, <1>6, TorqueGains DEF Lower

\* A torque that goes out is within its limit, and past the onset pushes no arm that stays there out.
LEMMA TorqueTurnsBack ==
    ASSUME NEW law \in Int, NEW m, m.q \in Axis, m.dq \in -Drag..Drag, NEW ramp \in Nat
    PROVE  /\ Enveloped(law, m, ramp) \in -TauMax..TauMax
           /\ Top - m.q <= Onset /\ m.dq >= 0 => Enveloped(law, m, ramp) <= 0
           /\ m.q <= Onset /\ m.dq <= 0 => Enveloped(law, m, ramp) >= 0
  <1> DEFINE fade == FadeToward(FadePush(law, m.q, m.dq), m.q)
             bar == Barrier(m.q, m.dq)
             low == SpringPush(m.q, ramp)
             high == SpringPush(Top - m.q, ramp)
  <1>1. /\ fade \in Int /\ (Top - m.q <= Onset => fade <= 0) /\ (m.q <= Onset => fade >= 0)
    BY FadePushIs, FadeTowardIs
  <1>2. bar \in Int /\ (m.dq >= 0 => bar <= 0) /\ (m.dq <= 0 => bar >= 0)
    BY BarrierIs
  <1>3. m.q \in Int /\ Top - m.q \in Int
    BY TorqueWidths DEF Axis
  <1>4. /\ low \in Nat /\ (m.q >= Onset => low = 0)
        /\ high \in Nat /\ (Top - m.q >= Onset => high = 0)
    BY <1>3, SpringPushIs
  <1>5. Enveloped(law, m, ramp) = Between(fade + bar + (low - high), -TauMax, TauMax)
    BY DEF Enveloped, Spring, Distance
  <1> HIDE DEF fade, bar, low, high
  <1>6. /\ Top - m.q <= Onset /\ m.dq >= 0 => fade + bar + (low - high) <= 0
        /\ m.q <= Onset /\ m.dq <= 0 => fade + bar + (low - high) >= 0
    BY <1>1, <1>2, <1>3, <1>4, TorqueGains, TorqueWidths
  <1>7. fade + bar + (low - high) \in Int /\ TauMax \in Nat
    BY <1>1, <1>2, <1>4, TorqueGains
  <1> QED BY <1>5, <1>6, <1>7 DEF Between, Higher, Lower

\* The law is a number.
LEMMA LawIs ==
    ASSUME NEW goal \in Int, NEW dqGoal \in Int, NEW m, m.q \in Axis, m.dq \in -Drag..Drag
    PROVE  Law(goal, dqGoal, m) \in Int
  <1>1. goal - m.q \in Int /\ dqGoal - m.dq \in Int
    BY TorqueWidths DEF Axis
  <1>2. Stiffness * (goal - m.q) \in Int /\ Damping * (dqGoal - m.dq) \in Int
    BY <1>1, TorqueGains
  <1>3. Stiffness * (goal - m.q) + Damping * (dqGoal - m.dq) \in Int
    BY <1>2
  <1> QED BY <1>3, TorqueGains DEF Law, Between, Higher, Lower

\* What a goal at rest at a wall restarts from.
LEMMA RestartAtRest ==
    ASSUME NEW step, step.v \in Int, step.a \in Int, NEW plan \in Int, NEW went \in Int,
           NEW wall, wall.side \in {-1, 1}, NEW out, Rests(out, wall.side)
    PROVE  LET again == Restarted(step, plan, went, wall, out)
           IN  again.v * wall.side <= 0 \/ (plan = went /\ again.v = step.v)
  <1> DEFINE n == wall.side
             Into(x) == IF x * n <= 0 THEN x ELSE 0
             again == Restarted(step, plan, went, wall, out)
  <1>1. n # 0 /\ n \in {-1, 1}
    OBVIOUS
  <1>2. CASE plan = went
    <2>1. again = [v |-> step.v, a |-> step.a]
      BY <1>1, <1>2 DEF Restarted
    <2> QED BY <1>2, <2>1
  <1>3. CASE plan # went
    <2>1. again = [v |-> WentOut(Into(step.v), Into(step.a), went), a |-> Into(step.a)]
      BY <1>1, <1>3 DEF Restarted
    <2>2. again.v = WentOut(Into(step.v), Into(step.a), went)
      BY <2>1
    <2>3. Into(step.v) \in Int /\ Into(step.v) * n <= 0 /\ Into(step.a) \in Int
      BY <1>1
    <2>4. ASSUME NEW v \in Int, v * n <= 0, NEW a \in Int
          PROVE  WentOut(v, a, went) * n <= 0
      <3>1. CASE went = 0
        BY <1>1, <2>4, <3>1 DEF WentOut, Between, Higher, Lower, Abs
      <3>2. CASE went > 0
        BY <1>1, <2>4, <3>2 DEF WentOut, Lower, Abs, Side
      <3>3. CASE went < 0
        BY <1>1, <2>4, <3>3 DEF WentOut, Lower, Abs, Side
      <3> QED BY <3>1, <3>2, <3>3
    <2> QED BY <2>2, <2>3, <2>4
  <1> QED BY <1>2, <1>3

\* No lead into a wall is kept.
LEMMA NoLeadIntoWall ==
    ASSUME NEW step, step.position \in Int, NEW kept \in Int, NEW from \in Int, NEW out \in Int,
           NEW wall, wall.side \in {-1, 0, 1}
    PROVE  /\ Ahead(step, kept, from, out, wall) \in Int
           /\ (Ahead(step, kept, from, out, wall) - out) * wall.side <= 0
  <1> DEFINE most == Abs(step.position - kept)
             lead == (kept + Between(out - from, -most, most)) - out
  <1>1. most \in Nat
    BY DEF Abs
  <1>2. lead \in Int
    <2> HIDE DEF most
    <2> QED BY <1>1 DEF Between, Higher, Lower
  <1>3a. Ahead_WithLead(step, kept, from, out, wall) - out = lead
    BY DEF Ahead_WithLead
  <1>3. Ahead(step, kept, from, out, wall) = out + IF lead * wall.side > 0 THEN 0 ELSE lead
    BY <1>3a, Zenon DEF Ahead
  <1> HIDE DEF lead
  <1>4. CASE wall.side = 1
    BY <1>2, <1>3, <1>4
  <1>5. CASE wall.side = -1
    BY <1>2, <1>3, <1>5
  <1>6. CASE wall.side = 0
    BY <1>2, <1>3, <1>6
  <1> QED BY <1>4, <1>5, <1>6

\* A tracker that is anchored, for an interface.
Walls == [side : -1..1, off : 0..QuietCycles]
TrackerFields ==
    {"anchored", "start", "goal", "desired", "frozen", "wall", "still", "closest", "target",
     "restart", "blocked"}
TrackerIs(t) ==
    /\ DOMAIN t = TrackerFields /\ t.anchored = TRUE
    /\ t.start \in Axis /\ t.goal \in Axis /\ t.desired \in Int /\ t.frozen \in Int \cup {None}
    /\ t.wall \in Walls /\ t.still \in 0..Dwell
    /\ interface = "joint" => t.wall = NoWall /\ t.frozen \in Axis \cup {None}

\* The runner, which holds for good.
RunnerFields == {"v", "a", "target", "slot", "stop", "deviated", "cycles", "hold", "sent"}
RunnerIs(r) ==
    /\ DOMAIN r = RunnerFields
    /\ r.v \in -MaxPlan..MaxPlan /\ r.a \in -MaxTurn..MaxTurn /\ r.cycles \in 0..StopTimeout
    /\ r.hold \in BOOLEAN /\ (~r.hold => r.cycles < StopTimeout)

\* A step of the runner, from an anchor.
StepIs(step, kept) ==
    /\ RunnerIs(step.runner) /\ step.hold \in BOOLEAN /\ step.runner.hold = step.hold
    /\ runner.hold => step.hold
    /\ step.v \in -MaxPlan..MaxPlan /\ step.a \in Int
    /\ step.position = IF step.hold THEN kept ELSE kept + step.v

\* What a tracker's cycle does to the goal.
GoalIsRight(t, next, step, q) ==
    /\ TrackerIs(next)
    /\ ~(interface = "joint" /\ step.hold) =>
         Margined(next.goal, next.start) /\ Brakeable(t.goal, next.goal)
    /\ Abs(next.goal - q) <= Higher(Leash + MaxPlan, Abs(t.goal - q))
    /\ (next.wall.side # 0 /\ next.wall.off = 0 /\ next.restart # None
          /\ Rests(next.goal, next.wall.side)) =>
         /\ (next.desired - next.goal) * next.wall.side <= 0
         /\ next.restart.v * next.wall.side <= 0 \/ next.restart.v = next.goal - t.goal
    /\ step.hold =>
         /\ next.frozen # None
         /\ Abs(next.frozen - q) <= Leash =>
              (IF interface = "joint" THEN next.goal ELSE next.desired) = next.frozen

\* The tracker that a cycle begins with.
LEMMA AnchoredIs ==
    ASSUME NEW q \in Axis
    PROVE  TrackerIs(AnchoredAt(q)) /\ AnchoredAt(q).goal = q /\ AnchoredAt(q).frozen = None
             /\ Margined(AnchoredAt(q).goal, AnchoredAt(q).start)
  <1> DEFINE t == AnchoredAt(q)
  <1>1. /\ t.start = q /\ t.goal = q /\ t.desired = q /\ t.frozen = None /\ t.wall = NoWall
        /\ t.still = 0 /\ t.closest = None /\ t.target = None /\ t.restart = None
        /\ t.blocked = FALSE
    BY DEF AnchoredAt
  <1>2. NoWall \in Walls /\ 0 \in 0..Dwell
    BY TorqueAssumption DEF NoWall, Walls
  <1>3. DOMAIN t = TrackerFields /\ t.anchored = TRUE
    BY DEF AnchoredAt, TrackerFields
  <1>4. Margined(q, q)
    BY TorqueWidths DEF Margined, Axis
  <1>5. q \in Int
    BY TorqueWidths DEF Axis
  <1> HIDE DEF t
  <1>6. TrackerIs(t) /\ t.goal = q /\ t.frozen = None /\ Margined(t.goal, t.start)
    BY <1>1, <1>2, <1>3, <1>4, <1>5 DEF TrackerIs
  <1> QED BY <1>6 DEF t

LEMMA RefittedIs ==
    ASSUME NEW t, TrackerIs(t), interface = "pose"
    PROVE  /\ TrackerIs(Refitted(t)) /\ Refitted(t).goal = t.goal /\ Refitted(t).start = t.start
           /\ (t.frozen # None => Refitted(t).frozen # None)
  <1> DEFINE y == Refitted(t)
             held == IF t.frozen = None THEN None ELSE t.goal
  <1>1. /\ DOMAIN y = TrackerFields /\ y.anchored = TRUE /\ y.start = t.start /\ y.goal = t.goal
        /\ y.desired = t.goal /\ y.frozen = held /\ y.wall = NoWall /\ y.still = t.still
    <2>1. DOMAIN t = TrackerFields /\ t.anchored = TRUE
      BY DEF TrackerIs
    <2> QED BY <2>1 DEF Refitted, TrackerFields
  <1>2. NoWall \in Walls
    BY TorqueAssumption DEF NoWall, Walls
  <1>3. held \in Int \cup {None} /\ t.goal \in Int /\ (t.frozen # None => held # None)
    BY TorqueAssumption DEF TrackerIs, Axis
  <1> HIDE DEF y, held
  <1>4. TrackerIs(y) /\ y.goal = t.goal /\ y.start = t.start /\ (t.frozen # None => y.frozen # None)
    BY <1>1, <1>2, <1>3 DEF TrackerIs
  <1> QED BY <1>4 DEF y

\* The anchor that the leash gives.
LEMMA AnchorIs ==
    ASSUME NEW t, TrackerIs(t), interface \in {"joint", "pose"}, NEW q \in Axis
    PROVE  /\ Leashed(t, q) \in Int /\ Abs(Leashed(t, q) - q) <= Leash
           /\ interface = "joint" => Leashed(t, q) \in Axis
           /\ t.frozen # None /\ Abs(t.frozen - q) <= Leash => Leashed(t, q) = t.frozen
  <1> DEFINE r == Reference(t)
  <1>1. r \in Int /\ (interface = "joint" => r \in Axis) /\ (t.frozen # None => r = t.frozen)
    BY TorqueWidths DEF Reference, Reference_Goal, TrackerIs, Axis
  <1>2. Leashed(t, q) = Between(r, q - Leash, q + Leash)
    BY DEF Leashed
  <1> HIDE DEF r
  <1> QED BY <1>1, <1>2, LeashHolds

\* The runner's steps.
LEMMA StepsAre ==
    ASSUME RunnerIs(runner), NEW t, NEW kept \in Int, NEW strayed, NEW step \in Steps(t, kept, strayed)
    PROVE  StepIs(step, kept)
  <1> DEFINE from == IF t.restart # None THEN t.restart ELSE [v |-> runner.v, a |-> runner.a]
             first == runner.target = None
             deviated == runner.deviated \/ strayed
             target == IF first THEN kept
                       ELSE IF runner.deviated THEN runner.target
                       ELSE IF strayed THEN kept ELSE runner.slot
             stopping == runner.stop \/ deviated
             Holding(r) == [runner |-> r, position |-> kept, v |-> 0, a |-> 0, hold |-> TRUE]
  <1>0. 0 \in -MaxPlan..MaxPlan /\ StopTimeout \in Nat \ {0} /\ MaxPlan \in Nat
    BY TorqueAssumption
  <1>1. ASSUME NEW r, RunnerIs(r), r.hold
        PROVE  StepIs(Holding(r), kept)
    <2> DEFINE h == Holding(r)
    <2>1. h.runner = r /\ h.position = kept /\ h.v = 0 /\ h.a = 0 /\ h.hold = TRUE
      OBVIOUS
    <2> HIDE DEF h
    <2>2. r.hold = TRUE
      BY <1>1 DEF RunnerIs
    <2>4. RunnerIs(h.runner) /\ h.hold \in BOOLEAN /\ h.runner.hold = h.hold
            /\ (runner.hold => h.hold)
      BY <2>1, <2>2, <1>1, Zenon
    <2>5. h.v \in -MaxPlan..MaxPlan /\ h.a \in Int
      BY <2>1, <1>0
    <2>6. h.position = IF h.hold THEN kept ELSE kept + h.v
      BY <2>1, Zenon
    <2>3. StepIs(h, kept)
      BY <2>4, <2>5, <2>6, Zenon DEF StepIs
    <2> QED BY <2>3 DEF h
  <1>2. CASE runner.hold
    <2> DEFINE r == [runner EXCEPT !.sent = Lower(@ + 1, SettleCycles + 1)]
    <2>1. step = Holding(r)
      BY <1>2 DEF Steps
    <2>0. DOMAIN runner = RunnerFields
      BY DEF RunnerIs
    <2>3. /\ DOMAIN r = RunnerFields /\ r.v = runner.v /\ r.a = runner.a /\ r.cycles = runner.cycles
          /\ r.hold = runner.hold
      BY <2>0 DEF RunnerFields
    <2> HIDE DEF r
    <2>2. RunnerIs(r) /\ r.hold
      BY <1>2, <2>3 DEF RunnerIs
    <2> HIDE DEF r
    <2> QED BY <2>1, <2>2, <1>1
  <1>3. CASE ~runner.hold
    <2> DEFINE R(p) == [runner EXCEPT !.v = p.v, !.a = p.a, !.target = target,
                         !.slot = IF first THEN kept ELSE @, !.deviated = deviated,
                         !.cycles = IF stopping THEN @ + 1 ELSE @]
               Lands(p) == \/ t.blocked /\ target = runner.target
                           \/ Landed(kept + p.v, p, target)
    <2>1. PICK p \in Plans(IF first THEN 0 ELSE from.v, IF first THEN 0 ELSE from.a) :
            step = IF stopping /\ (Lands(p) \/ R(p).cycles = StopTimeout)
                   THEN Holding([R(p) EXCEPT !.hold = TRUE, !.sent = 1])
                   ELSE [runner |-> R(p), position |-> kept + p.v, v |-> p.v, a |-> p.a,
                         hold |-> FALSE]
      BY <1>3 DEF Steps
    <2>2. p.v \in -MaxPlan..MaxPlan /\ p.a \in -MaxTurn..MaxTurn
      BY DEF Plans
    <2> DEFINE r == R(p)
               cyc == IF stopping THEN runner.cycles + 1 ELSE runner.cycles
    <2>0. DOMAIN runner = RunnerFields
      BY DEF RunnerIs
    <2>3. /\ DOMAIN r = RunnerFields /\ r.v = p.v /\ r.a = p.a /\ r.cycles = cyc
          /\ r.hold = runner.hold
      <3> HIDE DEF target, stopping, deviated, first
      <3> QED BY <2>0 DEF RunnerFields
    <2>4. cyc \in 0..StopTimeout /\ (~stopping => cyc < StopTimeout)
      BY <1>3, <1>0 DEF RunnerIs
    <2>5. step = IF stopping /\ (Lands(p) \/ r.cycles = StopTimeout)
                 THEN Holding([r EXCEPT !.hold = TRUE, !.sent = 1])
                 ELSE [runner |-> r, position |-> kept + p.v, v |-> p.v, a |-> p.a, hold |-> FALSE]
      BY <2>1
    <2> HIDE DEF r, cyc, target, stopping, deviated, Lands, R, from, first
    <2>6. CASE stopping /\ (Lands(p) \/ r.cycles = StopTimeout)
      <3> DEFINE h == [r EXCEPT !.hold = TRUE, !.sent = 1]
      <3>1. /\ DOMAIN h = RunnerFields /\ h.v = p.v /\ h.a = p.a /\ h.cycles = cyc /\ h.hold = TRUE
        BY <2>3 DEF RunnerFields
      <3> HIDE DEF h
      <3>2. RunnerIs(h) /\ h.hold
        BY <3>1, <2>2, <2>4 DEF RunnerIs
      <3>3. step = Holding(h)
        BY <2>5, <2>6 DEF h
      <3> HIDE DEF Holding
      <3> QED BY <3>2, <3>3, <1>1
    <2>7. CASE ~(stopping /\ (Lands(p) \/ r.cycles = StopTimeout))
      <3>1. step = [runner |-> r, position |-> kept + p.v, v |-> p.v, a |-> p.a, hold |-> FALSE]
        BY <2>5, <2>7
      <3>2. r.cycles = cyc /\ cyc < StopTimeout /\ r.hold = FALSE
        BY <2>3, <2>4, <2>7, <1>3, <1>0 DEF RunnerIs
      <3>3. RunnerIs(r)
        BY <2>3, <3>2, <2>2, <2>4 DEF RunnerIs
      <3>4. /\ step.runner = r /\ step.position = kept + p.v /\ step.v = p.v /\ step.a = p.a
            /\ step.hold = FALSE
        BY <3>1
      <3>5. RunnerIs(step.runner) /\ step.hold \in BOOLEAN /\ step.runner.hold = step.hold
              /\ (runner.hold => step.hold)
        BY <3>2, <3>3, <3>4, <1>3, Zenon
      <3>6. step.v \in -MaxPlan..MaxPlan /\ step.a \in Int
        BY <3>4, <2>2, TorqueAssumption
      <3>7. step.position = IF step.hold THEN kept ELSE kept + step.v
        BY <3>4, Zenon
      <3> QED BY <3>5, <3>6, <3>7, Zenon DEF StepIs
    <2> QED BY <2>6, <2>7
  <1> QED BY <1>2, <1>3

\* A wall after a pin or none.
LEMMA WallIs ==
    ASSUME NEW w \in Walls, NEW pin \in {-1, 0, 1}
    PROVE  WallAfter(w, pin) \in Walls
  <1>1. QuietCycles \in Nat /\ w.side \in -1..1 /\ w.off \in 0..QuietCycles
    BY TorqueAssumption DEF Walls
  <1>2. [side |-> pin, off |-> 0] \in Walls /\ NoWall \in Walls
    BY <1>1 DEF Walls, NoWall
  <1>3. w.off < QuietCycles => [w EXCEPT !.off = @ + 1] \in Walls
    BY <1>1 DEF Walls
  <1> QED BY <1>2, <1>3 DEF WallAfter

\* The joint's goal after a cycle.
LEMMA JointGoalIsRight ==
    ASSUME interface = "joint", NEW t, TrackerIs(t), NEW q \in Axis, NEW step, NEW next,
           StepIs(step, Leashed(t, q)), ~step.hold => Margined(t.goal, t.start),
           next = JointGoal(t, Leashed(t, q), step)
    PROVE  GoalIsRight(t, next, step, q)
  <1> DEFINE kept == Leashed(t, q)
  <1>1. kept \in Axis /\ kept \in Int /\ Abs(kept - q) <= Leash
          /\ (t.frozen # None /\ Abs(t.frozen - q) <= Leash => kept = t.frozen)
    BY AnchorIs
  <1>2. DOMAIN t = TrackerFields /\ t.anchored = TRUE
    BY DEF TrackerIs
  <1>3. /\ t.start \in Axis /\ t.goal \in Axis /\ t.desired \in Int /\ t.frozen \in Axis \cup {None}
        /\ t.wall \in Walls /\ t.wall = NoWall /\ t.still \in 0..Dwell
    BY DEF TrackerIs
  <1>4. Axis \subseteq Int /\ None \notin Int /\ t.goal \in Int /\ q \in Int
    BY <1>3, TorqueAssumption DEF Axis
  <1>5. StepIs(step, kept) /\ next = JointGoal(t, kept, step)
    OBVIOUS
  <1> HIDE DEF kept
  <1>6. CASE step.hold
    <2> DEFINE held == IF t.frozen = None THEN kept ELSE t.frozen
    <2>1. /\ DOMAIN next = TrackerFields /\ next.anchored = TRUE /\ next.start = t.start
          /\ next.goal = kept /\ next.desired = t.desired /\ next.frozen = held
          /\ next.wall = t.wall /\ next.still = t.still
      BY <1>2, <1>5, <1>6 DEF JointGoal, TrackerFields
    <2>2. held \in Axis /\ held # None /\ (Abs(held - q) <= Leash => kept = held)
      BY <1>1, <1>3, <1>4
    <2> HIDE DEF held
    <2>3. TrackerIs(next)
      BY <2>1, <2>2, <1>1, <1>3, <1>4 DEF TrackerIs
    <2>4. Abs(kept - q) <= Higher(Leash + MaxPlan, Abs(t.goal - q))
      BY <1>1, <1>3, TorqueWidths DEF Higher, Abs, Axis
    <2>5. next.wall.side = 0
      BY <2>1, <1>3 DEF NoWall
    <2> QED BY <2>1, <2>2, <2>3, <2>4, <2>5, <1>6, Zenon DEF GoalIsRight
  <1>7. CASE ~step.hold
    <2> DEFINE planned == step.position - t.goal
               out == t.goal + Boxed(t.goal, planned)
    <2>0. step.v \in -MaxPlan..MaxPlan /\ step.position = kept + step.v
      BY <1>5, <1>7 DEF StepIs
    <2>1. /\ DOMAIN next = TrackerFields /\ next.anchored = TRUE /\ next.start = t.start
          /\ next.goal = out /\ next.desired = t.desired /\ next.frozen = t.frozen
          /\ next.wall = t.wall /\ next.still = t.still
      BY <1>2, <1>5, <1>7 DEF JointGoal, TrackerFields
    <2>2. planned \in Int /\ planned = kept + step.v - t.goal
      BY <2>0, <1>1, <1>3, <1>4, TorqueWidths
    <2>3. out \in Axis /\ Margined(out, t.start) /\ Brakeable(t.goal, out)
      <3> HIDE DEF planned
      <3> QED BY <2>2, <1>3, <1>7, GoalStep
    <2>4. Abs(out - q) <= Higher(Leash + MaxPlan, Abs(t.goal - q))
      <3>1. Abs(t.goal + Boxed(t.goal, kept + step.v - t.goal) - q)
              <= Higher(Leash + MaxPlan, Abs(t.goal - q))
        BY <2>0, <1>1, <1>3, GoalStaysNear
      <3>2. Boxed(t.goal, planned) \in Int
        BY <2>2, <1>3, BoxedIs
      <3>3. out - q = t.goal + Boxed(t.goal, planned) - q
        <4> HIDE DEF planned
        <4> QED BY <3>2, <1>4
      <3> QED BY <3>1, <3>3, <2>2
    <2> HIDE DEF out
    <2>5. TrackerIs(next)
      BY <2>1, <2>3, <1>3, <1>4 DEF TrackerIs
    <2>6. next.wall.side = 0
      BY <2>1, <1>3 DEF NoWall
    <2> QED BY <2>1, <2>3, <2>4, <2>5, <2>6, <1>7, Zenon DEF GoalIsRight
  <1> QED BY <1>6, <1>7

\* The pose's goal after a cycle.
LEMMA PoseGoalIsRight ==
    ASSUME interface = "pose", NEW t, TrackerIs(t), NEW q \in Axis, NEW step, NEW next,
           StepIs(step, Leashed(t, q)), Margined(t.goal, t.start),
           next = PoseGoal(t, Leashed(t, q), step)
    PROVE  GoalIsRight(t, next, step, q)
  <1> DEFINE kept == Leashed(t, q)
             wish == IF step.hold THEN kept ELSE step.position
             planned == wish - t.goal
             out == t.goal + Boxed(t.goal, planned)
             pin == Pin(t.goal, planned)
             wall == WallAfter(t.wall, Side(pin) * IF Abs(pin) = 1 THEN 1 ELSE 0)
             restart == Restarted(step, step.position - kept, out - t.goal, wall, out)
             gap == Abs(step.runner.target - out)
             still == IF Closer(t, step.runner.target, gap) THEN 0 ELSE Lower(t.still + 1, Dwell)
             y == [t EXCEPT !.goal = out, !.desired = wish, !.wall = wall, !.restart = None,
                            !.blocked = FALSE]
  <1>1. kept \in Int /\ Abs(kept - q) <= Leash
          /\ (t.frozen # None /\ Abs(t.frozen - q) <= Leash => kept = t.frozen)
    BY AnchorIs
  <1>2. DOMAIN t = TrackerFields /\ t.anchored = TRUE
    BY DEF TrackerIs
  <1>3. /\ t.start \in Axis /\ t.goal \in Axis /\ t.desired \in Int /\ t.frozen \in Int \cup {None}
        /\ t.wall \in Walls /\ t.still \in 0..Dwell
    BY DEF TrackerIs
  <1>4. /\ Axis \subseteq Int /\ None \notin Int /\ Dwell \in Nat
        /\ t.goal \in Int /\ q \in Int
    BY <1>3, TorqueAssumption DEF Axis
  <1>5. /\ step.hold \in BOOLEAN /\ step.v \in -MaxPlan..MaxPlan /\ step.a \in Int
        /\ step.position = IF step.hold THEN kept ELSE kept + step.v
    BY DEF StepIs
  <1> HIDE DEF kept
  <1>6. \E v \in -MaxPlan..MaxPlan : wish = kept + v
    <2>1. CASE step.hold
      <3>1. wish = kept + 0 /\ 0 \in -MaxPlan..MaxPlan
        BY <2>1, <1>1, TorqueWidths
      <3> QED BY <3>1, Zenon
    <2>2. CASE ~step.hold
      <3>1. wish = kept + step.v
        BY <2>2, <1>5
      <3> QED BY <3>1, <1>5, Zenon
    <2> QED BY <2>1, <2>2
  <1>6a. wish \in Int /\ step.position \in Int /\ step.v \in Int
    BY <1>1, <1>5, TorqueWidths
  <1> HIDE DEF wish
  <1>7. planned \in Int
    BY <1>6a, <1>3, <1>4
  <1>8. out \in Axis /\ Margined(out, t.start) /\ Brakeable(t.goal, out)
    <2> HIDE DEF planned
    <2> QED BY <1>7, <1>3, GoalStep
  <1>9. Abs(out - q) <= Higher(Leash + MaxPlan, Abs(t.goal - q))
    <2>1. PICK v \in -MaxPlan..MaxPlan : wish = kept + v
      BY <1>6
    <2>2. planned = kept + v - t.goal
      BY <2>1, <1>1, <1>3, <1>4, TorqueWidths
    <2>3. Abs(t.goal + Boxed(t.goal, kept + v - t.goal) - q)
            <= Higher(Leash + MaxPlan, Abs(t.goal - q))
      BY <1>1, <1>3, GoalStaysNear
    <2>4. Boxed(t.goal, planned) \in Int
      BY <1>7, <1>3, BoxedIs
    <2>5. out - q = t.goal + Boxed(t.goal, planned) - q
      <3> HIDE DEF planned
      <3> QED BY <2>4, <1>4
    <2> QED BY <2>2, <2>3, <2>5
  <1>10. wall \in Walls
    <2>1. pin \in Int
      BY <1>7 DEF Pin, Side
    <2>2. Side(pin) * (IF Abs(pin) = 1 THEN 1 ELSE 0) \in {-1, 0, 1}
      <3> HIDE DEF pin
      <3> QED BY <2>1 DEF Side
    <2> HIDE DEF pin
    <2> QED BY <2>2, <1>3, WallIs
  <1>11. out \in Int /\ t.goal \in Int /\ wall.side \in {-1, 0, 1} /\ still \in 0..Dwell
    <2>1. still \in 0..Dwell
      <3> HIDE DEF gap
      <3> QED BY <1>3, <1>4 DEF Lower
    <2>2. wall.side \in {-1, 0, 1}
      <3> HIDE DEF wall
      <3> QED BY <1>10 DEF Walls
    <2> HIDE DEF out
    <2> QED BY <2>1, <2>2, <1>3, <1>4, <1>8
  <1>12. /\ DOMAIN y = TrackerFields /\ y.anchored = TRUE /\ y.start = t.start /\ y.goal = out
         /\ y.desired = wish /\ y.frozen = t.frozen /\ y.wall = wall /\ y.still = t.still
         /\ y.restart = None
    <2> HIDE DEF out, wall
    <2> QED BY <1>2 DEF TrackerFields
  <1>13. next = IF step.hold THEN [y EXCEPT !.frozen = IF @ = None THEN kept ELSE @]
                ELSE IF wall.side # 0 \/ Abs(pin) = 2
                THEN [y EXCEPT
                        !.desired = Ahead(step, kept, t.goal, out, wall), !.restart = restart,
                        !.target = step.runner.target, !.still = still,
                        !.closest = IF still = 0 THEN gap ELSE @,
                        !.blocked = still >= Dwell
                                      /\ LandsAtWall(step.runner.target, out, wall, restart.v)]
                ELSE [y EXCEPT !.still = 0, !.closest = None]
    BY DEF PoseGoal, kept, wish
  <1> HIDE DEF y, out, wall, pin, gap, still
  <1>14. CASE step.hold
    <2> DEFINE held == IF t.frozen = None THEN kept ELSE t.frozen
    <2>1. /\ DOMAIN next = TrackerFields /\ next.anchored = TRUE /\ next.start = t.start
          /\ next.goal = out /\ next.desired = wish /\ next.frozen = held /\ next.wall = wall
          /\ next.still = t.still /\ next.restart = None
      BY <1>12, <1>13, <1>14 DEF TrackerFields
    <2>2. held \in Int /\ held # None /\ (Abs(held - q) <= Leash => kept = held)
      BY <1>1, <1>3, <1>4
    <2>3. wish = kept
      BY <1>14 DEF wish
    <2> HIDE DEF held
    <2>4. TrackerIs(next)
      BY <2>1, <2>2, <1>3, <1>4, <1>6a, <1>8, <1>10 DEF TrackerIs
    <2>5. Margined(next.goal, next.start) /\ Brakeable(t.goal, next.goal)
            /\ Abs(next.goal - q) <= Higher(Leash + MaxPlan, Abs(t.goal - q))
      BY <2>1, <1>8, <1>9
    <2>6. next.frozen # None /\ (Abs(next.frozen - q) <= Leash => next.desired = next.frozen)
      BY <2>1, <2>2, <2>3
    <2> QED BY <2>1, <2>4, <2>5, <2>6, Zenon DEF GoalIsRight
  <1>15. CASE ~step.hold /\ (wall.side # 0 \/ Abs(pin) = 2)
    <2> DEFINE ahead == Ahead(step, kept, t.goal, out, wall)
    <2>1. /\ DOMAIN next = TrackerFields /\ next.anchored = TRUE /\ next.start = t.start
          /\ next.goal = out /\ next.desired = ahead /\ next.frozen = t.frozen /\ next.wall = wall
          /\ next.still = still /\ next.restart = restart
      <3> HIDE DEF ahead, restart
      <3> QED BY <1>12, <1>13, <1>15 DEF TrackerFields, ahead
    <2>2. ahead \in Int /\ (ahead - out) * wall.side <= 0
      BY <1>1, <1>6a, <1>11, NoLeadIntoWall
    <2> HIDE DEF ahead
    <2>3. TrackerIs(next)
      BY <2>1, <2>2, <1>3, <1>4, <1>8, <1>10, <1>11 DEF TrackerIs
    <2>4. Margined(next.goal, next.start) /\ Brakeable(t.goal, next.goal)
            /\ Abs(next.goal - q) <= Higher(Leash + MaxPlan, Abs(t.goal - q))
      BY <2>1, <1>8, <1>9
    <2>5. ASSUME wall.side # 0, Rests(out, wall.side)
          PROVE  restart.v * wall.side <= 0 \/ restart.v = out - t.goal
      <3>1. step.position - kept = step.v
        BY <1>1, <1>5, <1>15, <1>6a
      <3>2. wall.side \in {-1, 1} /\ out - t.goal \in Int /\ step.position - kept \in Int
        BY <2>5, <1>11, <1>6a, <1>1
      <3>3. restart.v * wall.side <= 0
              \/ (step.position - kept = out - t.goal /\ restart.v = step.v)
        BY <3>2, <2>5, <1>5, <1>6a, RestartAtRest
      <3> HIDE DEF restart
      <3> QED BY <3>1, <3>3
    <2> HIDE DEF restart
    <2>6. next.wall.side # 0 /\ Rests(next.goal, next.wall.side) =>
            /\ (next.desired - next.goal) * next.wall.side <= 0
            /\ next.restart.v * next.wall.side <= 0 \/ next.restart.v = next.goal - t.goal
      BY <2>1, <2>2, <2>5, Zenon
    <2> QED BY <2>3, <2>4, <2>6, <1>15, Zenon DEF GoalIsRight
  <1>16. CASE ~step.hold /\ ~(wall.side # 0 \/ Abs(pin) = 2)
    <2>1. /\ DOMAIN next = TrackerFields /\ next.anchored = TRUE /\ next.start = t.start
          /\ next.goal = out /\ next.desired = wish /\ next.frozen = t.frozen /\ next.wall = wall
          /\ next.still = 0 /\ next.restart = None
      BY <1>12, <1>13, <1>16 DEF TrackerFields
    <2>2. TrackerIs(next)
      BY <2>1, <1>3, <1>4, <1>6a, <1>8, <1>10 DEF TrackerIs
    <2>3. Margined(next.goal, next.start) /\ Brakeable(t.goal, next.goal)
            /\ Abs(next.goal - q) <= Higher(Leash + MaxPlan, Abs(t.goal - q))
      BY <2>1, <1>8, <1>9
    <2> QED BY <2>1, <2>2, <2>3, <1>16, Zenon DEF GoalIsRight
  <1> QED BY <1>14, <1>15, <1>16

\* What holds of the torque loop between its cycles.
TorqueHolds ==
    /\ interface \in {"joint", "pose"} /\ arm.q \in Axis /\ arm.dq \in Int
    /\ tracker.anchored \in BOOLEAN /\ (tracker.anchored => TrackerIs(tracker))
    /\ RunnerIs(runner) /\ (runner.hold => tracker.anchored /\ tracker.frozen # None)
    /\ torque.cycles \in Nat /\ torque.tau \in -TauMax..TauMax
    /\ SpringIsBounded /\ GoalKeepsTheMargin /\ GoalCanBrake /\ NothingWindsUp /\ HoldComesBack
    /\ NothingPushesOut

LEMMA TorqueBegins == TorqueInit => TorqueHolds
  <1> SUFFICES ASSUME TorqueInit PROVE TorqueHolds
    OBVIOUS
  <1>1. interface \in {"joint", "pose"} /\ arm.q \in Axis /\ arm.dq \in Int
    <2>1. interface \in {"joint", "pose"} /\ arm \in [q : Starts, dq : {0}]
      BY DEF TorqueInit
    <2>2. arm.q \in Starts /\ arm.dq = 0
      BY <2>1
    <2>3. Starts \subseteq Axis
      BY TorqueAssumption, Zenon DEF Axis
    <2>4. arm.q \in Axis
      BY <2>2, <2>3, Zenon
    <2> QED BY <2>1, <2>2, <2>4
  <1>2. tracker.anchored = FALSE
    BY DEF TorqueInit
  <1>3. /\ DOMAIN runner = RunnerFields /\ runner.v = 0 /\ runner.a = 0 /\ runner.cycles = 0
        /\ runner.hold = FALSE
    BY DEF TorqueInit, RunnerFields
  <1>4. RunnerIs(runner)
    <2>1. /\ 0 \in -MaxPlan..MaxPlan /\ 0 \in -MaxTurn..MaxTurn /\ 0 \in 0..StopTimeout
          /\ 0 < StopTimeout
      BY TorqueAssumption
    <2>2. runner.hold \in BOOLEAN
      BY <1>3, Zenon
    <2> QED BY <1>3, <2>1, <2>2, Zenon DEF RunnerIs
  <1>5. torque.cycles = 0 /\ torque.tau = 0
    BY DEF TorqueInit
  <1>6. 0 \in Nat /\ 0 \in -TauMax..TauMax
    BY TorqueAssumption
  <1>7. NothingPushesOut
    BY <1>5 DEF NothingPushesOut
  <1>8. SpringIsBounded /\ GoalKeepsTheMargin /\ GoalCanBrake /\ NothingWindsUp /\ HoldComesBack
    BY <1>2, <1>3, Zenon
    DEF SpringIsBounded, GoalKeepsTheMargin, GoalCanBrake, NothingWindsUp, HoldComesBack
  <1> QED BY <1>1, <1>2, <1>3, <1>4, <1>5, <1>6, <1>7, <1>8, Zenon DEF TorqueHolds

\* A goal published, or a stop, is the runner's alone.
LEMMA TorqueCallKeeps ==
    ASSUME TorqueHolds, PublishGoal \/ StopTorque
    PROVE  TorqueHolds'
  <1>1. UNCHANGED <<interface, arm, tracker, torque>>
    BY DEF PublishGoal, StopTorque
  <1>2. DOMAIN runner = RunnerFields
    BY DEF TorqueHolds, RunnerIs
  <1>3. /\ DOMAIN runner' = RunnerFields /\ runner'.v = runner.v /\ runner'.a = runner.a
        /\ runner'.cycles = runner.cycles /\ runner'.hold = runner.hold
    BY <1>2 DEF PublishGoal, StopTorque, RunnerFields
  <1>4. RunnerIs(runner')
    BY <1>3 DEF TorqueHolds, RunnerIs
  <1>5. tracker.anchored => TrackerIs(tracker)'
    BY <1>1 DEF TorqueHolds, TrackerIs
  <1>6. /\ SpringIsBounded' /\ NothingWindsUp' /\ NothingPushesOut'
    BY <1>1 DEF TorqueHolds, SpringIsBounded, NothingWindsUp, NothingPushesOut
  <1>7. GoalKeepsTheMargin' /\ GoalCanBrake' /\ HoldComesBack'
    BY <1>1, <1>3 DEF TorqueHolds, GoalKeepsTheMargin, GoalCanBrake, HoldComesBack
  <1> QED BY <1>1, <1>3, <1>4, <1>5, <1>6, <1>7, Zenon DEF TorqueHolds

\* A cycle, whatever the arm did.
LEMMA TorqueCycleKeeps ==
    ASSUME TorqueHolds, TorqueCycle
    PROVE  TorqueHolds'
  <1> DEFINE known(q) == IF tracker.anchored THEN tracker ELSE AnchoredAt(q)
             begun(q, refit) == IF refit THEN Refitted(known(q)) ELSE known(q)
             after(t, q, step) == IF interface = "joint" THEN JointGoal(t, Leashed(t, q), step)
                                  ELSE PoseGoal(t, Leashed(t, q), step)
             met(q) == [q |-> q, dq |-> q - arm.q]
             settled(step) == step.hold /\ step.runner.sent > SettleCycles
             Outcome(t, q, step) ==
               /\ tracker' = after(t, q, step) /\ runner' = step.runner
               /\ torque' =
                    [cycles |-> Lower(torque.cycles + 1, RampCycles),
                     waited |-> IF settled(step) THEN Lower(torque.waited + 1, StopTimeout)
                                ELSE torque.waited,
                     tau |-> Enveloped(Law(after(t, q, step).goal,
                                           IF step.hold THEN 0 ELSE after(t, q, step).goal - t.goal,
                                           met(q)),
                                       met(q), torque.cycles),
                     finished |-> settled(step)
                                    /\ (met(q).dq = 0 \/ torque.waited >= StopTimeout),
                     from |-> t.goal]
  <1>0. interface' = interface
    BY DEF TorqueCycle
  <1>1. PICK q \in Axis, refit \in BOOLEAN :
          /\ Abs(met(q).dq) <= Drag /\ (refit => interface = "pose" /\ tracker.anchored)
          /\ arm' = met(q)
          /\ \E step \in Steps(begun(q, refit), Leashed(begun(q, refit), q),
                               Abs(q - begun(q, refit).start) > MaxDeviation) :
               Outcome(begun(q, refit), q, step)
    BY DEF TorqueCycle
  <1> DEFINE t == begun(q, refit)
             m == met(q)
             kept == Leashed(t, q)
  <1>2. PICK step \in Steps(t, kept, Abs(q - t.start) > MaxDeviation) : Outcome(t, q, step)
    BY <1>1, Zenon
  <1> DEFINE next == after(t, q, step)
             dqGoal == IF step.hold THEN 0 ELSE next.goal - t.goal
  <1>3. /\ tracker' = next /\ runner' = step.runner /\ arm' = m
        /\ torque'.cycles = Lower(torque.cycles + 1, RampCycles) /\ torque'.from = t.goal
        /\ torque'.tau = Enveloped(Law(next.goal, dqGoal, m), m, torque.cycles)
    <2> HIDE DEF m, t, settled, after
    <2> QED BY <1>1, <1>2 DEF m
  <1>4. interface \in {"joint", "pose"} /\ arm.q \in Axis /\ RunnerIs(runner) /\ torque.cycles \in Nat
    BY DEF TorqueHolds
  <1>5. TrackerIs(t) /\ (~(interface = "joint" /\ runner.hold) => Margined(t.goal, t.start))
    <2>1. CASE tracker.anchored
      <3>1. TrackerIs(tracker)
              /\ (~(interface = "joint" /\ runner.hold) => Margined(tracker.goal, tracker.start))
        BY <2>1 DEF TorqueHolds, GoalKeepsTheMargin, Margined
      <3>2. CASE refit
        <4>1. t = Refitted(tracker)
          BY <2>1, <3>2
        <4>2. interface = "pose"
          BY <1>1, <3>2
        <4> HIDE DEF t
        <4> QED BY <3>1, <4>1, <4>2, RefittedIs
      <3>3. CASE ~refit
        <4>1. t = tracker
          BY <2>1, <3>3
        <4> HIDE DEF t
        <4> QED BY <3>1, <4>1
      <3> QED BY <3>2, <3>3
    <2>2. CASE ~tracker.anchored
      <3>1. t = AnchoredAt(q)
        BY <2>2, <1>1
      <3> HIDE DEF t
      <3> QED BY <3>1, AnchoredIs
    <2> QED BY <2>1, <2>2
  <1> HIDE DEF t
  <1>6. kept \in Int
    BY <1>4, <1>5, AnchorIs
  <1>7. StepIs(step, kept)
    <2> HIDE DEF kept
    <2> QED BY <1>2, <1>4, <1>6, StepsAre
  <1>8. GoalIsRight(t, next, step, q)
    <2>0. runner.hold => step.hold
      BY <1>7 DEF StepIs
    <2>1. CASE interface = "joint"
      <3>1. next = JointGoal(t, Leashed(t, q), step)
        BY <2>1
      <3> HIDE DEF next
      <3> QED BY <2>0, <2>1, <3>1, <1>5, <1>7, JointGoalIsRight
    <2>2. CASE interface = "pose"
      <3>1. next = PoseGoal(t, Leashed(t, q), step)
        BY <2>2
      <3> HIDE DEF next
      <3>2. Margined(t.goal, t.start)
        BY <2>2, <1>5
      <3> QED BY <2>2, <3>1, <3>2, <1>5, <1>7, PoseGoalIsRight
    <2> QED BY <2>1, <2>2, <1>4
  <1> HIDE DEF next, kept
  <1>9. TrackerIs(next) /\ next.goal \in Int /\ t.goal \in Int /\ next.anchored = TRUE
    BY <1>5, <1>8, TorqueWidths DEF GoalIsRight, TrackerIs, Axis
  <1>10. m.q = q /\ m.dq = q - arm.q /\ m.q \in Axis /\ m.dq \in -Drag..Drag
    BY <1>1, <1>4, TorqueWidths DEF Abs, Axis
  <1>11. dqGoal \in Int
    BY <1>9
  <1> HIDE DEF m, dqGoal
  <1>12. /\ torque'.tau \in -TauMax..TauMax
         /\ Top - m.q <= Onset /\ m.dq >= 0 => torque'.tau <= 0
         /\ m.q <= Onset /\ m.dq <= 0 => torque'.tau >= 0
    <2>1. Law(next.goal, dqGoal, m) \in Int
      BY <1>9, <1>10, <1>11, LawIs
    <2> QED BY <2>1, <1>3, <1>4, <1>10, TorqueTurnsBack
  <1>13. NothingPushesOut'
    BY <1>3, <1>12 DEF NothingPushesOut
  <1>14. SpringIsBounded'
    BY <1>3, <1>8, <1>10 DEF SpringIsBounded, GoalIsRight
  <1>15. runner'.hold = step.hold /\ RunnerIs(runner')
    BY <1>3, <1>7 DEF StepIs
  <1>16. GoalKeepsTheMargin'
    BY <1>0, <1>3, <1>8, <1>15, Zenon DEF GoalKeepsTheMargin, GoalIsRight, Margined
  <1>17. GoalCanBrake'
    BY <1>0, <1>3, <1>8, <1>15, Zenon DEF GoalCanBrake, GoalIsRight, Brakeable
  <1>18. NothingWindsUp'
    BY <1>3, <1>8, Zenon DEF NothingWindsUp, GoalIsRight
  <1>19. HoldComesBack' /\ (runner'.hold => tracker'.frozen # None)
    BY <1>0, <1>3, <1>8, <1>10, <1>15, Zenon DEF HoldComesBack, GoalIsRight
  <1>20. torque'.cycles \in Nat
    BY <1>3, <1>4, TorqueAssumption DEF Lower
  <1>21. TrackerIs(tracker)' /\ tracker'.anchored = TRUE
    BY <1>0, <1>3, <1>9, Zenon DEF TrackerIs
  <1>22. arm'.q \in Axis /\ arm'.dq \in Int
    BY <1>3, <1>10, TorqueWidths
  <1> QED
    BY <1>0, <1>4, <1>12, <1>13, <1>14, <1>15, <1>16, <1>17, <1>18, <1>19, <1>20, <1>21, <1>22, Zenon
    DEF TorqueHolds

LEMMA TorqueStands ==
    ASSUME TorqueHolds, UNCHANGED torqueVars
    PROVE  TorqueHolds'
  <1>1. UNCHANGED <<interface, arm, tracker, runner, torque>>
    BY DEF torqueVars
  <1>2. (tracker.anchored => TrackerIs(tracker)) => (tracker'.anchored => TrackerIs(tracker)')
    BY <1>1 DEF TrackerIs
  <1>3. RunnerIs(runner) => RunnerIs(runner')
    BY <1>1
  <1> QED
    BY <1>1, <1>2, <1>3
    DEF TorqueHolds, SpringIsBounded, GoalKeepsTheMargin, GoalCanBrake, NothingWindsUp,
        HoldComesBack, NothingPushesOut

LEMMA TorqueSteps == TorqueHolds /\ [TorqueNext]_torqueVars => TorqueHolds'
  BY TorqueCallKeeps, TorqueCycleKeeps, TorqueStands DEF TorqueNext

-----------------------------------------------------------------------------
(* What the parts' states are made of. *)

\* The stream: a budget is walked within the limits, and places are what the cycle's guard lets by.
LEMMA BudgetsAreLimits ==
    ASSUME budget.now \in Limits, budget.tuned \in Limits
    PROVE  Retuned \in Limits
  <1>1. /\ budget.now.v \in 1..MaxBudget.v /\ budget.now.a \in 1..MaxBudget.a
        /\ budget.tuned.v \in 1..MaxBudget.v /\ budget.tuned.a \in 1..MaxBudget.a
    BY DEF Limits
  <1>2. MaxBudget.v \in Nat /\ MaxBudget.a \in Nat
    BY StreamAssumption
  <1>3. WalkedDown \in Limits
    BY <1>1, <1>2 DEF WalkedDown, Limits
  <1> QED
    BY <1>3 DEF Retuned

StreamIs ==
    /\ session \in Streams /\ budget.now \in Limits /\ budget.tuned \in Limits
    /\ DOMAIN budget = {"now", "tuned", "retunes"}
    /\ DOMAIN ending = {"asked", "deviated", "cycles", "hold", "held", "end"}
    /\ \A x \in StreamAxes : gens[x].p \in Places /\ told[x].at \in Places
    /\ ending.asked \in BOOLEAN /\ ending.deviated \in BOOLEAN
    /\ ending.end \in {"none", "ok", "deviation"}

LEMMA StreamBegins == StreamInit => StreamIs
<1> SUFFICES ASSUME StreamInit PROVE StreamIs
  OBVIOUS
<1>1. MaxBudget \in Limits /\ 0 \in Places
  BY StreamAssumption DEF Limits, Places
<1>2. \A x \in StreamAxes : gens[x].p \in Places /\ told[x].at \in Places
  BY <1>1 DEF StreamInit, AtRest
<1>3. /\ budget.now = MaxBudget /\ budget.tuned = MaxBudget /\ DOMAIN budget = {"now", "tuned", "retunes"}
  BY DEF StreamInit
<1>4. /\ DOMAIN ending = {"asked", "deviated", "cycles", "hold", "held", "end"}
      /\ ending.asked = FALSE /\ ending.deviated = FALSE /\ ending.end = "none"
  BY DEF StreamInit
<1> QED
  BY <1>1, <1>2, <1>3, <1>4 DEF StreamInit, StreamIs

LEMMA StreamSteps == StreamIs /\ [StreamNext]_streamVars => StreamIs'
<1> SUFFICES ASSUME StreamIs, [StreamNext]_streamVars PROVE StreamIs'
  OBVIOUS
<1>1. CASE SetStreamTarget
  BY <1>1 DEF SetStreamTarget, StreamIs
<1>2. CASE StopStream
  <2>1. /\ UNCHANGED <<session, gens, budget, told>>
        /\ DOMAIN ending' = DOMAIN ending /\ ending'.asked = TRUE
        /\ ending'.deviated = ending.deviated /\ ending'.end = ending.end
    BY <1>2 DEF StopStream, StreamIs
  <2> QED
    BY <2>1 DEF StreamIs
<1>3. CASE TuneBudget
  <2>1. /\ UNCHANGED <<session, gens, told, ending>>
        /\ DOMAIN budget' = DOMAIN budget /\ budget'.now = budget.now /\ budget'.tuned \in Limits
    BY <1>3 DEF TuneBudget, StreamIs
  <2> QED
    BY <2>1 DEF StreamIs
<1>4. CASE TargetCycle
  <2>1. /\ UNCHANGED session
        /\ DOMAIN budget' = DOMAIN budget /\ budget'.now = Retuned /\ budget'.tuned = budget.tuned
    BY <1>4 DEF TargetCycle, StreamIs
  <2> DEFINE Off(strays) == ending.deviated \/ strays
             Goal(strays) == IF ending.deviated THEN aim.target
                             ELSE IF strays THEN [x \in StreamAxes |-> told[x].at] ELSE aim.slot
             now == [x \in StreamAxes |-> Anchored(Retuned, gens[x], told[x].at)]
             Done(strays, next) ==
               /\ ending.asked \/ Off(strays)
               /\ AllLanded(next, Goal(strays)) \/ ending.cycles + 1 >= Patience
             To(strays, next) == IF Done(strays, next) THEN Held(next)
                                 ELSE [x \in StreamAxes |-> Command(x, next[x].p)]
             Planned(strays, next) ==
               /\ \A x \in StreamAxes : next[x].p \in Places /\ To(strays, next)[x] \in Places
               /\ gens' = next /\ Sends(To(strays, next))
               /\ aim' = [aim EXCEPT !.target = Goal(strays)]
               /\ ending' = [ending EXCEPT !.deviated = Off(strays), !.hold = Done(strays, next),
                                !.cycles = IF ending.asked \/ Off(strays) THEN @ + 1 ELSE @]
               /\ leg' = [Followed(Retuned, now, Goal(strays), next) EXCEPT
                            !.jumped = Done(strays, next) /\ ~AllLanded(next, Goal(strays)),
                            !.allowed = IF Retuned.v < budget.now.v THEN budget.now.a + Retuned.a
                                        ELSE Retuned.a]
  <2>2. \E strays \in BOOLEAN :
          /\ strays => aim.set = MaxTargetsSet
          /\ \E next \in Stepped(Retuned, now, Goal(strays)) : Planned(strays, next)
    BY <1>4, Zenon DEF TargetCycle
  <2> HIDE DEF now, Goal, Done, To
  <2>3. PICK strays \in BOOLEAN : \E next : Planned(strays, next)
    <3> HIDE DEF Planned
    <3> QED
      BY <2>2
  <2>4. PICK next : Planned(strays, next)
    <3> HIDE DEF Planned
    <3> QED
      BY <2>3
  <2>5. \A x \in StreamAxes : gens'[x].p \in Places /\ told'[x].at \in Places
    BY <2>4 DEF Sends
  <2>6. /\ DOMAIN ending' = DOMAIN ending /\ ending'.asked = ending.asked
        /\ ending'.deviated = Off(strays) /\ ending'.end = ending.end
    BY <2>4 DEF StreamIs
  <2>7. Off(strays) \in BOOLEAN
    BY DEF StreamIs
  <2> QED
    BY <2>1, <2>5, <2>6, <2>7, BudgetsAreLimits DEF StreamIs
<1>5. CASE HoldCycle
  <2>1. UNCHANGED <<session, gens, budget>>
    BY <1>5 DEF HoldCycle
  <2>2. \A x \in StreamAxes : told'[x].at = told[x].at
    BY <1>5 DEF HoldCycle, Sends
  <2>3. /\ DOMAIN ending' = DOMAIN ending /\ ending'.asked = ending.asked
        /\ ending'.deviated = ending.deviated /\ ending'.end \in {"none", "ok", "deviation"}
    BY <1>5 DEF HoldCycle, StreamIs
  <2> QED
    BY <2>1, <2>2, <2>3 DEF StreamIs
<1>6. CASE UNCHANGED streamVars
  BY <1>6 DEF streamVars, StreamIs
<1> QED
  BY <1>1, <1>2, <1>3, <1>4, <1>5, <1>6 DEF StreamNext

LEMMA LoopIsTyped == LoopInv => LoopTypeOK
<1> SUFFICES ASSUME LoopInv PROVE LoopTypeOK
  OBVIOUS
<1>1. LoopRecords
  BY DEF LoopInv
<1> QED
  BY <1>1 DEF LoopRecords, LoopTypeOK

LEMMA TorqueIsTyped == TorqueHolds => TorqueTypeOK
<1> SUFFICES ASSUME TorqueHolds PROVE TorqueTypeOK
  OBVIOUS
<1>1. /\ interface \in {"joint", "pose"} /\ arm.q \in Axis /\ torque.tau \in -TauMax..TauMax
      /\ tracker.anchored \in BOOLEAN /\ (tracker.anchored => TrackerIs(tracker)) /\ RunnerIs(runner)
  BY DEF TorqueHolds
<1>2. tracker.anchored =>
         /\ {tracker.start, tracker.goal} \subseteq Axis /\ tracker.frozen \in Int \cup {None}
         /\ tracker.wall \in [side : -1..1, off : 0..QuietCycles] /\ tracker.still \in 0..Dwell
  BY <1>1 DEF TrackerIs, Walls
<1> QED
  BY <1>1, <1>2 DEF TorqueTypeOK, RunnerIs

-----------------------------------------------------------------------------
(* The theorems. *)

(* Who drives an arm is right about it: a stall of its own process is      *)
(* never taken for a silent node, a silent node is given up in bounded     *)
(* time, and the grip that proves a hand is the only one held              *)
(* (_SilenceCheck, find_hands).                                            *)
THEOREM DriversAreRight == LibrarySpec => []DriverSafety
<1>1. LibraryInit => SilenceInv /\ HandsInv
  BY SilenceBegins, HandsBegin DEF LibraryInit
<1>2. [LibraryNext]_libraryVars => [SilenceNext]_silenceVars /\ [HandsNext]_handsVars
  BY DEF LibraryNext, libraryVars
<1>3. SilenceInv /\ HandsInv => DriverSafety
  BY SilenceHolds, HandsHold DEF DriverSafety
<1> QED
  BY <1>1, <1>2, <1>3, SilenceSteps, HandsStep, PTL DEF LibrarySpec

(* A panel shows what is now: accepted knobs drive and are published under *)
(* their version, and numbers are of the stream that runs                  *)
(* (LiveTeleopParams, PanelMetrics).                                       *)
THEOREM PanelIsCurrent == LibrarySpec => []PanelSafety
<1>1. LibraryInit => TeleopParamsInv /\ NumbersInv
  BY KnobsBegin, NumbersInit DEF LibraryInit
<1>2. [LibraryNext]_libraryVars => [VrParamsNext]_vrParamsVars /\ [PanelMetricsNext]_panelMetricsVars
  BY DEF LibraryNext, libraryVars
<1>3. TeleopParamsInv /\ NumbersInv => PanelSafety
  BY KnobsHold, NumbersHold DEF PanelSafety
<1> QED
  BY <1>1, <1>2, <1>3, KnobsStep, NumbersStep, PTL DEF LibrarySpec

(* The robot does what was asked and its answer is read as it was meant,   *)
(* in the one version both speak; it has one session at most, and each     *)
(* loaded model a file of its own (RobotImpl, wire/robot, temp_file).      *)
THEOREM RobotIsUnderstood == LibrarySpec => []ClientSafety
<1>1. LibraryInit => ClientInv
  BY ClientBegins DEF LibraryInit
<1>2. [LibraryNext]_libraryVars => [ClientNext]_clientVars
  BY DEF LibraryNext, libraryVars
<1>3. ClientInv => ClientSafety
  BY ClientHolds DEF ClientSafety
<1> QED
  BY <1>1, <1>2, <1>3, ClientSteps, PTL DEF LibrarySpec

(* What goes to a robot from a control loop with limit_rate is no jump of  *)
(* its velocity, acceleration, jerk or torque, from any callback, filter,  *)
(* limits that move with the joint and rounding of the published torque,   *)
(* but in the cases that LimiterPreventsReflex names; an elbow that is     *)
(* none never goes out (spin_motion, limit_rate_*, convert_elbow).         *)
THEOREM LoopsAreLimited == LibrarySpec => []LoopSafety
<1>1. LibraryInit => LoopInv
  BY LoopBegins DEF LibraryInit
<1>2. [LibraryNext]_libraryVars => [LoopNext]_loopVars
  BY DEF LibraryNext, libraryVars
<1> QED
  BY <1>1, <1>2, LoopHolds, LoopSteps, PTL DEF LibrarySpec

(* Whatever the arm does, held, pushed or moved by hand, and whatever is   *)
(* asked: a goal stays near it, off its margins and slow enough to brake,  *)
(* does not wind up at a wall, and no torque pushes out what is past the   *)
(* barrier's onset (torque, position.rs, velocity.rs).                     *)
THEOREM TorquesAreSafe == LibrarySpec => []TorqueSafety
  <1>1. LibraryInit => TorqueHolds
    BY TorqueBegins DEF LibraryInit
  <1>2. [LibraryNext]_libraryVars => [TorqueNext]_torqueVars
    BY DEF LibraryNext, libraryVars
  <1>3. TorqueHolds => TorqueSafety
    BY Zenon DEF TorqueHolds, TorqueSafety
  <1> QED
    BY <1>1, <1>2, <1>3, TorqueSteps, PTL DEF LibrarySpec

(* Whatever part moves, its state is what its module says a state is:      *)
(* places stay on the axis, velocities and torques within their limits,    *)
(* budgets and knobs within their bounds (the parts' TypeOK).              *)
THEOREM LibraryIsTyped == LibrarySpec => []LibraryTypeOK
<1> DEFINE AllHold == /\ ClientInv /\ LoopInv /\ TorqueHolds /\ StreamIs /\ SilenceInv /\ HandsInv
                      /\ TeleopParamsInv /\ NumbersInv
<1>1. LibraryInit => AllHold
  BY ClientBegins, LoopBegins, TorqueBegins, StreamBegins, SilenceBegins, HandsBegin, KnobsBegin,
     NumbersInit DEF LibraryInit
<1>2. AllHold /\ [LibraryNext]_libraryVars => AllHold'
  <2>1. [LibraryNext]_libraryVars =>
          /\ [ClientNext]_clientVars /\ [LoopNext]_loopVars /\ [TorqueNext]_torqueVars
          /\ [StreamNext]_streamVars /\ [SilenceNext]_silenceVars /\ [HandsNext]_handsVars
          /\ [VrParamsNext]_vrParamsVars /\ [PanelMetricsNext]_panelMetricsVars
    BY DEF LibraryNext, libraryVars
  <2> QED
    BY <2>1, ClientSteps, LoopSteps, TorqueSteps, StreamSteps, SilenceSteps, HandsStep, KnobsStep,
       NumbersStep
<1>3. AllHold => LibraryTypeOK
  <2> SUFFICES ASSUME AllHold PROVE LibraryTypeOK
    OBVIOUS
  <2>1. ClientTypeOK /\ LoopTypeOK /\ TorqueTypeOK
    BY ClientHolds, LoopIsTyped, TorqueIsTyped
  <2>2. StreamTypeOK
    BY DEF StreamIs, StreamTypeOK
  <2>3. SilenceTypeOK /\ HandsTypeOK /\ VrParamsTypeOK /\ PanelMetricsTypeOK
    BY Zenon DEF SilenceInv, HandsInv, TeleopParamsInv, NumbersInv
  <2> QED
    BY <2>1, <2>2, <2>3 DEF LibraryTypeOK
<1> QED
  BY <1>1, <1>2, <1>3, PTL DEF LibrarySpec
=============================================================================
