------------------------------ MODULE PySilence ------------------------------
(***************************************************************************)
(* How a target session of the Python client tells a silent node from a    *)
(* process that was itself stalled (_note_silence of _targets.py, with     *)
(* _on_sample and _silent_after_ns of _arm.py).  The streamer and Zenoh's  *)
(* callback are two threads of one process: when the process stalls,       *)
(* neither runs, and when it resumes they compete.                         *)
(***************************************************************************)
EXTENDS Integers

CONSTANTS
    Period,       \* the node's state period
    SilentAfter,  \* _silent_after_ns: at least three periods
    Grace,        \* STALL_GRACE_NS
    MaxClock,     \* bound: ticks
    NoTime

ASSUME SilenceAssumption ==
    /\ Period \in Nat \ {0} /\ SilentAfter \in Nat /\ SilentAfter >= 3 * Period
    /\ Grace \in Nat /\ Grace > Period /\ MaxClock \in Nat /\ NoTime \notin Int

VARIABLES
    clock,       \* time.monotonic_ns()
    awake,       \* external: the process runs, since when, and if StallsAreForgiven is off
    talks,       \* external: the node publishes, and when it last did
    received,    \* state.received_ns of the latest state
    waiting,     \* external: a state the callback has not run for
    lastTick,    \* last_tick
    resumeBy,    \* _resume_deadline_ns
    lostAt,      \* when the session ended here, and whether the node talked then
    firstLate    \* history: the first cycle that found the latest state too old

silenceVars == <<clock, awake, talks, received, waiting, lastTick, resumeBy, lostAt, firstLate>>

Clock == 0..MaxClock
Times == Clock \cup {NoTime}
SilenceTypeOK ==
    /\ clock \in Clock /\ received \in Clock /\ lastTick \in Times
    /\ resumeBy \in 0..(MaxClock + Grace) \cup {NoTime}
    /\ lostAt \in Times /\ firstLate \in Times /\ waiting \in BOOLEAN
    /\ awake \in [is : BOOLEAN, since : Clock, soon : BOOLEAN]
    /\ talks \in [is : BOOLEAN, last : Clock]

\* After the first cycle, before which no stall is told from a silent node.
SilenceInit ==
    /\ clock = 0 /\ received = 0 /\ waiting = FALSE /\ lastTick = 0 /\ resumeBy = NoTime
    /\ awake = [is |-> TRUE, since |-> 0, soon |-> FALSE] /\ talks = [is |-> TRUE, last |-> 0]
    /\ lostAt = NoTime /\ firstLate = NoTime

-----------------------------------------------------------------------------
Silent == clock - received > SilentAfter

\* The streamer itself was late by half of the deadline: this process stalled.
Stalled_Never == FALSE
Stalled == lastTick # NoTime /\ 2 * (clock - lastTick) >= SilentAfter

\* One grace for as long as the latest state stays what it is.
GraceUntil_Extended == IF Stalled THEN clock + Grace ELSE resumeBy
GraceUntil == IF Stalled /\ resumeBy = NoTime THEN clock + Grace ELSE resumeBy

\* A cycle of _stream, up to the target it sends: lastTick is set after the check.
StreamCycle ==
    /\ awake.is /\ lostAt = NoTime /\ lastTick # clock
    /\ lastTick' = clock
    /\ IF ~Silent THEN resumeBy' = NoTime /\ firstLate' = NoTime /\ UNCHANGED lostAt
       ELSE /\ resumeBy' = GraceUntil
            /\ firstLate' = IF firstLate = NoTime THEN clock ELSE firstLate
            /\ lostAt' = IF GraceUntil # NoTime /\ clock < GraceUntil THEN NoTime ELSE clock
    /\ UNCHANGED <<clock, awake, talks, received, waiting>>

\* _on_sample: received_ns is when the callback runs, not when the node sent.
OnSample ==
    /\ awake.is /\ waiting /\ waiting' = FALSE /\ received' = clock
    /\ UNCHANGED <<clock, awake, talks, lastTick, resumeBy, lostAt, firstLate>>

-----------------------------------------------------------------------------
(* External. The streamer runs in every tick it is awake; the callback by the next one.           *)
Stall ==
    /\ awake.is /\ awake' = [is |-> FALSE, since |-> clock,
                             soon |-> awake.soon \/ waiting \/ resumeBy # NoTime]
    /\ UNCHANGED <<clock, talks, received, waiting, lastTick, resumeBy, lostAt, firstLate>>

Resume ==
    /\ ~awake.is /\ awake' = [is |-> TRUE, since |-> clock, soon |-> awake.soon \/ (waiting /\ ~Silent)]
    /\ UNCHANGED <<clock, talks, received, waiting, lastTick, resumeBy, lostAt, firstLate>>

NodePublishes ==
    /\ talks.is /\ talks' = [talks EXCEPT !.last = clock] /\ waiting' = TRUE
    /\ UNCHANGED <<clock, awake, received, lastTick, resumeBy, lostAt, firstLate>>

NodeDies ==
    /\ talks.is /\ talks' = [talks EXCEPT !.is = FALSE]
    /\ UNCHANGED <<clock, awake, received, waiting, lastTick, resumeBy, lostAt, firstLate>>

Tick ==
    /\ clock < MaxClock /\ clock' = clock + 1
    /\ talks.is => clock - talks.last < Period
    /\ awake.is => (lastTick = clock \/ lostAt # NoTime) /\ ~(waiting /\ awake.since < clock)
    /\ UNCHANGED <<awake, talks, received, waiting, lastTick, resumeBy, lostAt, firstLate>>

SilenceNext ==
    \/ StreamCycle \/ OnSample \/ Stall \/ Resume \/ NodePublishes \/ NodeDies \/ Tick

SilenceSpec == SilenceInit /\ [][SilenceNext]_silenceVars

-----------------------------------------------------------------------------
(* A session is not lost to a stall of its own process: as long as the     *)
(* node publishes, however long and often the process stalls, provided it  *)
(* runs its callback and a cycle before it stalls again, and slept past    *)
(* the deadline: one that resumes just before that has no grace.           *)
StallsAreForgiven == lostAt # NoTime => ~talks.is \/ awake.soon

(* Targets end a grace after the first cycle that saw a silent node,       *)
(* whatever stalls follow: a process that keeps stalling does not drive an *)
(* arm it knows nothing of (_resume_deadline_ns).                          *)
SilenceIsBounded ==
    lastTick # NoTime /\ firstLate # NoTime /\ lostAt = NoTime => lastTick < firstLate + Grace
=============================================================================
