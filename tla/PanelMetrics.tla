---------------------------- MODULE PanelMetrics ----------------------------
(***************************************************************************)
(* The numbers the tuning panel shows of one arm (franka-node's Python     *)
(* panel: bridge.py's ArmMonitor and SourceRate, metrics.py's engine):     *)
(* the state subscriber pushes, the ticker and the HTTP handlers take      *)
(* snapshots and keep the last one, and a marker starts the peak anew.     *)
(*                                                                         *)
(* A row stands for the stream it is of: the ring is cleared whenever the  *)
(* decimation or the node's clock changes, and `resets` counts that.  The  *)
(* engine's lock makes each of its critical sections one step.             *)
(***************************************************************************)
EXTENDS Integers

CONSTANTS
    Readers,    \* the ticker and the HTTP threads
    MaxResets,  \* bound: changes of the stream
    MaxMarks,   \* bound: markers
    Nothing     \* no rows, no peak, no snapshot

ASSUME PanelMetricsAssumption == MaxResets \in Nat /\ MaxMarks \in Nat

VARIABLES
    measured,   \* rate.source_hz is known
    resets,     \* MetricsEngine.resets
    rows,       \* the ring: whether it has any
    markerEpoch,    \* marker_epoch
    peak,       \* peak_since_marker: the epoch of the window it is of
    cached,     \* ArmMonitor._event: the snapshot, and the resets before it; its age may be any
    reader,     \* what each reader does, and what it has read
    feeding,    \* where on_state is
    marks       \* bound

panelMetricsVars == <<measured, resets, rows, markerEpoch, peak, cached, reader, feeding, marks>>

Snaps == {Nothing} \cup 0..MaxResets
Epochs == 0..(MaxResets + MaxMarks)
Reading == [at : {"idle", "copy", "fold", "keep", "serve"}, since : 0..MaxResets,
            takenAt : 0..MaxResets, snap : Snaps, epoch : Epochs, ok : BOOLEAN]

PanelMetricsTypeOK ==
    /\ measured \in BOOLEAN /\ resets \in 0..MaxResets /\ rows \in BOOLEAN /\ markerEpoch \in Epochs
    /\ peak \in Epochs \cup {Nothing} /\ cached \in [snap : Snaps, resets : 0..MaxResets]
    /\ reader \in [Readers -> Reading] /\ feeding \in {"idle", "reset", "push"}
    /\ marks \in 0..MaxMarks

PanelMetricsInit ==
    /\ measured = FALSE /\ resets = 0 /\ rows = FALSE /\ markerEpoch = 0 /\ peak = Nothing
    /\ cached = [snap |-> Nothing, resets |-> 0] /\ feeding = "idle" /\ marks = MaxMarks
    /\ reader = [r \in Readers |-> [at |-> "idle", since |-> 0, takenAt |-> 0, snap |-> Nothing,
                                    epoch |-> 0, ok |-> FALSE]]

-----------------------------------------------------------------------------
(* The state subscriber. on_state: decimated and undecodable messages change nothing.              *)

\* on_state: SourceRate.update says nothing, or a fresh rate, at another decimation or not.
OnState ==
    /\ feeding = "idle"
    /\ \/ feeding' = "push" /\ measured' \in {measured, TRUE}
       \/ feeding' = "reset" /\ measured' = TRUE /\ resets < MaxResets
    /\ UNCHANGED <<resets, rows, markerEpoch, peak, cached, reader, marks>>

\* _reset: the ring, the filters and the markers go.
Reset ==
    /\ resets' = resets + 1 /\ markerEpoch' = markerEpoch + 1 /\ peak' = Nothing

OnRate ==
    /\ feeding = "reset" /\ feeding' = "push" /\ Reset /\ rows' = FALSE
    /\ UNCHANGED <<measured, cached, reader, marks>>

\* push: the node's clock may have jumped.
Push ==
    /\ feeding = "push" /\ feeding' = "idle" /\ rows' = TRUE
    /\ \/ UNCHANGED <<resets, markerEpoch, peak>>
       \/ rows /\ resets < MaxResets /\ Reset
    /\ UNCHANGED <<measured, cached, reader, marks>>

\* mark, and clear_markers, which marks nothing.
Mark ==
    /\ marks > 0 /\ marks' = marks - 1
    /\ markerEpoch' = markerEpoch + 1 /\ peak' = Nothing
    /\ UNCHANGED <<measured, resets, rows, cached, reader, feeding>>

-----------------------------------------------------------------------------
(* metrics_event, on the ticker or for a poll.                                                     *)
ReaderAt(r, at) == [reader[r] EXCEPT !.at = at]

\* No number before the rate is known; then the cache, if it is of this stream and young enough.
Usable == cached.snap # Nothing /\ cached.resets = resets

MetricsEvent(r) ==
    /\ reader[r].at = "idle"
    /\ \/ /\ ~measured
          /\ reader' = [reader EXCEPT ![r] = [@ EXCEPT !.at = "serve", !.since = resets, !.ok = FALSE]]
       \/ /\ measured /\ Usable
          /\ reader' = [reader EXCEPT ![r] = [@ EXCEPT !.at = "serve", !.since = resets,
                                                       !.snap = cached.snap, !.ok = TRUE]]
       \/ /\ measured
          /\ reader' = [reader EXCEPT ![r] = [@ EXCEPT !.at = "copy", !.since = resets,
                                                       !.takenAt = resets]]
    /\ UNCHANGED <<measured, resets, rows, markerEpoch, peak, cached, feeding, marks>>

\* snapshot: the ring is copied under the lock, the maths is done outside it. No rows, or none for
\* a second, is a snapshot that says so.
Copy(r) ==
    /\ reader[r].at = "copy"
    /\ \/ /\ rows
          /\ reader' = [reader EXCEPT ![r] = [@ EXCEPT !.at = "fold", !.snap = resets,
                                                       !.epoch = markerEpoch, !.ok = TRUE]]
       \/ reader' = [reader EXCEPT ![r] = [@ EXCEPT !.at = "keep", !.snap = resets, !.ok = FALSE]]
    /\ UNCHANGED <<measured, resets, rows, markerEpoch, peak, cached, feeding, marks>>

\* A mark that landed meanwhile stands.
Peaks_Always(r) == peak' = reader[r].epoch
Peaks(r) == peak' = IF markerEpoch = reader[r].epoch THEN reader[r].epoch ELSE peak

Fold(r) ==
    /\ reader[r].at = "fold" /\ Peaks(r)
    /\ reader' = [reader EXCEPT ![r] = ReaderAt(r, "keep")]
    /\ UNCHANGED <<measured, resets, rows, markerEpoch, cached, feeding, marks>>

KeptWith_Resets(r) == resets
KeptWith(r) == reader[r].takenAt

KeepSnapshot(r) ==
    /\ reader[r].at = "keep" /\ cached' = [snap |-> reader[r].snap, resets |-> KeptWith(r)]
    /\ reader' = [reader EXCEPT ![r] = ReaderAt(r, "serve")]
    /\ UNCHANGED <<measured, resets, rows, markerEpoch, peak, feeding, marks>>

Served(r) ==
    /\ reader[r].at = "serve"
    /\ reader' = [reader EXCEPT ![r] = [at |-> "idle", since |-> 0, takenAt |-> 0,
                                        snap |-> Nothing, epoch |-> 0, ok |-> FALSE]]
    /\ UNCHANGED <<measured, resets, rows, markerEpoch, peak, cached, feeding, marks>>

PanelMetricsNext ==
    \/ OnState \/ OnRate \/ Push \/ Mark
    \/ \E r \in Readers : MetricsEvent(r) \/ Copy(r) \/ Fold(r) \/ KeepSnapshot(r) \/ Served(r)

PanelMetricsSpec == PanelMetricsInit /\ [][PanelMetricsNext]_panelMetricsVars

-----------------------------------------------------------------------------
(* A call never answers with numbers of a stream that had ended before it, *)
(* though snapshots overlap with resets and with each other; and the peak  *)
(* since the marker is of windows computed since that marker               *)
(* (metrics_event, snapshot).                                              *)
NumbersOfThisStream ==
    /\ \A r \in Readers : reader[r].at = "serve" /\ reader[r].ok => reader[r].snap >= reader[r].since
    /\ peak \in {Nothing, markerEpoch}
=============================================================================
