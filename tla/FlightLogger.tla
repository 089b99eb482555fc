---------------------------- MODULE FlightLogger ----------------------------
(***************************************************************************)
(* The streaming core of the flight recorder (franka-rerun                 *)
(* flight/logger.rs, flight/view.rs): records come in batches, cut where   *)
(* the recorder's thread happened to drain, and what is written for one    *)
(* depends on those before it.                                             *)
(*                                                                         *)
(* A record keeps what the logger compares: its robot time, errors, mode,  *)
(* the flag of one joint, whether its torque is above the noise floor once *)
(* the baseline is taken off, and its orientation.  An orientation is a    *)
(* half turn angle of Turn steps per sign: q and -q are Turn apart.        *)
(***************************************************************************)
EXTENDS Integers, Sequences, FiniteSets, SequencesExt

CONSTANTS
    Every,      \* FlightOptions::every
    Turn,       \* half the circle of unit quaternions, in steps
    NoTurn,     \* a pose that carries no rotation
    FlightRecords, \* the records a log may hold
    MaxBatch,   \* bound: records of a batch
    MaxLog      \* bound: records of a log

Orientations == 0..(2 * Turn - 1) \cup {NoTurn}

(* Records are drawn one in so many; a rotation has two spellings, and a   *)
(* pose without one has none.                                              *)
ASSUME FlightAssumption ==
    /\ Every \in Nat \ {0} /\ Turn \in Nat \ {0} /\ NoTurn \notin Int
    /\ MaxBatch \in Nat /\ MaxLog \in Nat
    /\ FlightRecords \subseteq [time : Int, errors : BOOLEAN, mode : BOOLEAN, contact : BOOLEAN,
                              loud : BOOLEAN, turn : Orientations]

VARIABLES
    log,        \* the records so far
    timebase,   \* Timebase
    stamped,    \* the timeline value of each record
    logger      \* what FlightLogger keeps between records, and what it has written

flightVars == <<log, timebase, stamped, logger>>

Happenings == {"start", "errors", "mode", "contact"}

\* previous and flags (`any' once there is a previous record), joint_contact_seen,
\* last_orientation, contact_shown, the summary's counts; and the stream: event lines,
\* orientation rows, the records drawn in 3D, what each record did to the contact marker.
FlightTypeOK ==
    /\ log \in Seq(FlightRecords) /\ Len(log) <= MaxLog
    /\ timebase \in {"undecided", "robot", "index"} /\ Len(stamped) = Len(log)
    /\ logger.any = (log # <<>>) /\ logger.last \in Orientations
    /\ {logger.errors, logger.contact, logger.seen, logger.shown} \subseteq BOOLEAN
    /\ logger.events \subseteq (DOMAIN log) \X Happenings /\ logger.drawn \subseteq DOMAIN log
    /\ logger.turns \in Seq(Orientations) /\ Len(logger.turns) = Len(log)
    /\ logger.marks \in Seq({"estimate", "clear", "none"}) /\ Len(logger.marks) = Len(log)

FlightInit ==
    /\ log = <<>> /\ timebase = "undecided" /\ stamped = <<>>
    /\ logger = [any |-> FALSE, errors |-> FALSE, mode |-> FALSE, contact |-> FALSE, seen |-> FALSE,
                 last |-> NoTurn, shown |-> FALSE, errorChanges |-> 0, modeChanges |-> 0,
                 contacts |-> 0, events |-> {}, turns |-> <<>>, drawn |-> {}, marks |-> <<>>]

-----------------------------------------------------------------------------
One(b) == IF b THEN 1 ELSE 0

\* times: the first batch decides, on the index if it has two records of one time.
Decided_EachBatch(batch) ==
    IF Len(batch) >= 2 /\ \A i \in DOMAIN batch : batch[i].time = batch[1].time
      THEN "index" ELSE "robot"

Decided(batch) ==
    IF timebase # "undecided" THEN timebase
    ELSE IF Len(batch) >= 2 /\ \A i \in DOMAIN batch : batch[i].time = batch[1].time
      THEN "index" ELSE "robot"

\* quaternion: of q and -q the one that is nearer to the last.
Apart(p, q) == LET d == (p - q) % (2 * Turn) IN IF d <= Turn THEN d ELSE 2 * Turn - d
Quaternion(q, last) ==
    IF q # NoTurn /\ last # NoTurn /\ 2 * Apart(q, last) > Turn THEN (q + Turn) % (2 * Turn) ELSE q

\* continued: a pose that is no rotation does not reset the sign that is continued.
Continued_Resets(q, last) == q
Continued(q, last) == IF q = NoTurn THEN last ELSE q

\* log_events, rising_edges: the changes of the errors and the mode, and the first rising edge
\* of the flag, are event lines; the first record starts the log.
Rises_Anew(s, r) == r.contact
Rises(s, r) == r.contact /\ ~s.contact

Happened(s, r) ==
    {e \in Happenings :
       \/ e = "start" /\ ~s.any
       \/ e = "errors" /\ (IF s.any THEN r.errors # s.errors ELSE r.errors)
       \/ e = "mode" /\ s.any /\ r.mode # s.mode
       \/ e = "contact" /\ Rises(s, r) /\ ~s.seen}

\* log_contact: an estimate is due while the flag is set, and of the loud records for those
\* that are drawn; there is one of a loud record only.
Mark(s, r, index) ==
    IF r.loud /\ (r.contact \/ index % Every = 0) THEN "estimate"
    ELSE IF s.shown THEN "clear" ELSE "none"

\* log_batch for one record, the next one after everything logged so far.
LogRecord(s, r) ==
    LET index == Len(s.marks)
        q == Quaternion(r.turn, s.last)
        mark == Mark(s, r, index)
    IN  [any |-> TRUE, errors |-> r.errors, mode |-> r.mode, contact |-> r.contact,
         seen |-> s.seen \/ Rises(s, r), last |-> Continued(q, s.last),
         shown |-> mark = "estimate",
         errorChanges |-> s.errorChanges + One(s.any /\ r.errors # s.errors),
         modeChanges |-> s.modeChanges + One(s.any /\ r.mode # s.mode),
         contacts |-> s.contacts + One(Rises(s, r)),
         events |-> s.events \cup ({index + 1} \X Happened(s, r)),
         turns |-> Append(s.turns, q),
         drawn |-> IF index % Every = 0 THEN s.drawn \cup {index + 1} ELSE s.drawn,
         marks |-> Append(s.marks, mark)]

LogBatch(batch) ==
    /\ Len(log) + Len(batch) <= MaxLog
    /\ log' = log \o batch
    /\ timebase' = Decided(batch)
    /\ stamped' = stamped \o [i \in DOMAIN batch |-> IF Decided(batch) = "index"
                                                     THEN Len(log) + i - 1 ELSE batch[i].time]
    /\ logger' = FoldLeft(LogRecord, logger, batch)

\* The robot's time never goes back within a session.
InOrder(batch) == \A i, j \in DOMAIN batch : i < j => batch[i].time <= batch[j].time

FlightNext ==
    \E n \in 1..MaxBatch : \E batch \in [1..n -> FlightRecords] :
      InOrder(log \o batch) /\ LogBatch(batch)

FlightSpec == FlightInit /\ [][FlightNext]_flightVars

-----------------------------------------------------------------------------
(* How the records were cut into batches does not show: the events, the    *)
(* counts and the records drawn are those a reader of the whole log would  *)
(* give (FlightLogger keeps "whatever the next batch needs to be compared  *)
(* against": log_events, rising_edges, the record index).                  *)
Changed(f) == {i \in 2..Len(log) : log[i][f] # log[i-1][f]}
Edges == {i \in DOMAIN log : log[i].contact /\ (i = 1 \/ ~log[i-1].contact)}
AtStart == {e \in ((DOMAIN log) \cap {1}) \X {"start", "errors"} : e[2] = "start" \/ log[e[1]].errors}
EventsMatchLog ==
    /\ logger.errorChanges = Cardinality(Changed("errors"))
    /\ logger.modeChanges = Cardinality(Changed("mode"))
    /\ logger.contacts = Cardinality(Edges)
    /\ logger.events = AtStart \cup (Changed("errors") \X {"errors"})
                         \cup (Changed("mode") \X {"mode"})
                         \cup ({i \in Edges : \A k \in Edges : i <= k} \X {"contact"})
    /\ logger.drawn = {i \in DOMAIN log : (i - 1) % Every = 0}

(* The timeline of a log never goes back, whatever the first batch has     *)
(* shown of the robot's time (times, Timebase).                            *)
TimelineForward == \A i, j \in DOMAIN stamped : i < j => stamped[i] <= stamped[j]

(* An orientation series does not jump between the two spellings of one    *)
(* rotation, across batches and across records without a pose.             *)
OrientationContinues ==
    LET turns == logger.turns IN
    \A i, j \in DOMAIN turns :
      i < j /\ turns[i] # NoTurn /\ turns[j] # NoTurn
        /\ (\A k \in (i+1)..(j-1) : turns[k] = NoTurn) => 2 * Apart(turns[i], turns[j]) <= Turn

(* The contact marker stays in the scene while the force lasts: a record   *)
(* that is itself above the noise floor does not clear it (view.rs:        *)
(* "cleared from the scene when it goes away").                            *)
MarkerStays == \A i \in DOMAIN log : logger.marks[i] = "clear" => ~log[i].loud
=============================================================================
