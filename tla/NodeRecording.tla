--------------------------- MODULE NodeRecording ---------------------------
(***************************************************************************)
(* The recording of an arm's sessions (franka-node arm/record.rs with the  *)
(* calls of arm/commands.rs, franka-rerun recorder.rs): the arm thread     *)
(* opens a file per session and logs rows of its own into it, the loop     *)
(* thread pushes a record per cycle through a bounded channel, and the     *)
(* recorder thread drains and writes them.                                 *)
(*                                                                         *)
(* A record is the number of its cycle, which also stands for the cycle's  *)
(* robot time and host clock; what belongs to a recorder is at its first   *)
(* values while there is none.  A file's name is its stem (the second, or   *)
(* the collector's token) and the number `unique' gave it.                 *)
(*                                                                         *)
(* External: the wall clock, the loop, and whether a file can be written.  *)
(***************************************************************************)
EXTENDS Integers, Sequences, FiniteSets, FiniteSetsExt, SequencesExt

CONSTANTS
    Tokens,         \* episode tokens of collectors
    Capacity,       \* RecorderOptions::capacity
    MaxCycles,      \* bound: cycles of a session
    MaxSessions,    \* bound: sessions
    MaxRows,        \* bound: rows of the arm thread
    MaxSecs,        \* bound: seconds of the wall clock
    NoToken, NoEpisode

Stems == Tokens \cup (1..MaxSecs)
Names == [stem : Stems, n : 1..(MaxSessions + 1)]
Cycles == 0..MaxCycles

ASSUME RecordingAssumption ==
    /\ {Capacity, MaxCycles, MaxSessions} \subseteq Nat /\ MaxSecs \in Nat \ {0}
    /\ NoEpisode \notin Names

VARIABLES
    secs,       \* external: now_unix_secs
    sessions,   \* bound: sessions begun
    session,    \* the arm thread: where it is in a session's life
    token,      \* the session's episode token
    discarding, \* the session never started: its file is to be removed
    episode,    \* Recording::episode, the name of its file
    stamps,     \* Shared::time_ms and host_ns, as cycles (0: none)
    row,        \* the robot time the arm thread has read for a row
    rows,       \* the stamps of the rows logged by the arm thread, by file
    loop,       \* external: the loop thread, between its two stores or not
    cycle,      \* cycles of the session
    channel, sender, receiver,  \* the sync_channel and its ends
    pushed, lost,            \* Recorder's counters
    writer,     \* the recorder thread
    batch,      \* what it has drained
    disk,       \* the files: the records in each
    stats,      \* what finish returned last
    published   \* episode samples

recordingVars == <<secs, sessions, session, token, discarding, episode, stamps, row, rows, loop,
                   cycle, channel, sender, receiver, pushed, lost, writer, batch, disk, stats,
                   published>>
recorderOnly == <<channel, receiver, writer, batch, disk>>
nodeOnly == <<sessions, session, token, discarding, episode, row, rows, sender, stats, published>>
loopOnly == <<stamps, loop, cycle, pushed, lost>>

RecordingTypeOK ==
    /\ secs \in 1..MaxSecs /\ sessions \in 0..MaxSessions
    /\ session \in {"idle", "opened", "started", "running", "closing", "joining"}
    /\ token \in Tokens \cup {NoToken} /\ discarding \in BOOLEAN
    /\ episode \in Names \cup {NoEpisode}
    /\ stamps \in [time : Cycles, host : Cycles] /\ row \in -1..MaxCycles
    /\ DOMAIN disk \subseteq Names /\ \A n \in DOMAIN disk : disk[n] \in Seq(1..MaxCycles)
    /\ rows \subseteq [file : Names, time : Cycles, host : Cycles]
    /\ loop \in {"off", "waiting", "storing"} /\ cycle \in Cycles
    /\ channel \in Seq(1..MaxCycles) /\ Len(channel) <= Capacity
    /\ sender \in BOOLEAN /\ receiver \in BOOLEAN
    /\ pushed \in Cycles /\ lost \in 0..pushed
    /\ writer \in {"none", "asleep", "draining", "writing", "last", "ended", "failed"}
    /\ batch \in Seq(1..MaxCycles)

RecordingInit ==
    /\ secs = 1 /\ sessions = 0 /\ session = "idle" /\ token = NoToken /\ discarding = FALSE
    /\ episode = NoEpisode /\ stamps = [time |-> 0, host |-> 0] /\ row = -1 /\ rows = {}
    /\ loop = "off" /\ cycle = 0 /\ channel = <<>> /\ sender = FALSE /\ receiver = FALSE
    /\ pushed = 0 /\ lost = 0 /\ writer = "none" /\ batch = <<>>
    /\ disk = <<>> /\ stats = NoEpisode /\ published = <<>>

-----------------------------------------------------------------------------
(* The arm thread. *)

\* unique: the first of name, name-2, name-3, ... that is not on the disk.
Unique_Plain(stem) == [stem |-> stem, n |-> 1]
Unique(stem) ==
    LET free == {n \in 1..(MaxSessions + 1) : [stem |-> stem, n |-> n] \notin DOMAIN disk}
    IN  [stem |-> stem, n |-> Min(free)]

\* start_session: the collision thresholds are set, the recording begins and opens its file.
OpenEpisode ==
    /\ session = "idle" /\ sessions < MaxSessions
    /\ sessions' = sessions + 1 /\ session' = "opened"
    /\ \E t \in Tokens \cup {NoToken} :
         LET name == Unique(IF t = NoToken THEN secs ELSE t)
         IN  /\ token' = t /\ episode' = name
             /\ disk' = [file \in DOMAIN disk \cup {name} |-> IF file = name THEN <<>> ELSE disk[file]]
    /\ sender' = TRUE /\ receiver' = TRUE /\ writer' = "asleep"
    /\ UNCHANGED <<secs, discarding, row, rows, stats, published, loopOnly, channel, batch>>

\* begin warns that the file cannot be opened, and the session runs unrecorded.
OpenFails ==
    /\ session = "idle" /\ sessions < MaxSessions
    /\ sessions' = sessions + 1 /\ session' = "opened"
    /\ \E t \in Tokens \cup {NoToken} : token' = t
    /\ UNCHANGED <<secs, discarding, episode, row, rows, sender, stats, published,
                   loopOnly, recorderOnly>>

\* start_loop gives the loop its observer, and with it a clone of the recorder.
LoopStarts ==
    /\ session = "opened" /\ session' = "started" /\ loop' = "waiting"
    /\ UNCHANGED <<secs, sessions, token, discarding, episode, row, rows, sender, stats, published,
                   stamps, cycle, pushed, lost, recorderOnly>>

\* The robot refuses the loop, the guard its first target, or home its set_target: a loop that
\* runs is stopped and joined, and the recording discarded.
StartFails ==
    /\ session \in {"opened", "started"} /\ loop \in {"off", "waiting"}
    /\ loop' = "off" /\ session' = "closing" /\ discarding' = TRUE
    /\ UNCHANGED <<secs, sessions, token, episode, row, rows, sender, stats, published,
                   stamps, cycle, pushed, lost, recorderOnly>>

\* begin and begin_episode: the start sample goes out under the recording's id.
BeginEpisode ==
    /\ session = "started" /\ session' = "running"
    /\ published' = Append(published, [phase |-> "start", file |-> episode])
    /\ UNCHANGED <<secs, sessions, token, discarding, episode, row, rows, sender, stats,
                   loopOnly, recorderOnly>>

\* accepted, gripper, refused: the arm thread stamps a row with the loop's latest cycle, whose
\* robot time and host clock it loads one after the other.
ReadTime ==
    /\ session = "running" /\ episode # NoEpisode /\ row = -1 /\ Cardinality(rows) < MaxRows
    /\ row' = stamps.time
    /\ UNCHANGED <<secs, sessions, session, token, discarding, episode, rows, sender, stats,
                   published, loopOnly, recorderOnly>>

LogRow ==
    /\ row >= 0 /\ row' = -1
    /\ rows' = rows \cup {[file |-> episode, time |-> row, host |-> stamps.host]}
    /\ UNCHANGED <<secs, sessions, session, token, discarding, episode, sender, stats,
                   published, loopOnly, recorderOnly>>

\* after_loop: the loop has been joined.
SessionEnds ==
    /\ session = "running" /\ loop = "off" /\ row = -1 /\ session' = "closing"
    /\ UNCHANGED <<secs, sessions, token, discarding, episode, row, rows, sender, stats,
                   published, loopOnly, recorderOnly>>

\* Recorder::finish reads the counts and closes the channel before it joins the thread.
FinishDrops_JoinFirst ==
    /\ session = "closing" /\ episode # NoEpisode
    /\ session' = "joining"
    /\ stats' = [pushed |-> pushed, lost |-> lost, file |-> episode]
    /\ UNCHANGED <<secs, sessions, token, discarding, episode, row, rows, sender, published,
                   loopOnly, recorderOnly>>

FinishDrops ==
    /\ session = "closing" /\ episode # NoEpisode
    /\ session' = "joining" /\ sender' = FALSE
    /\ stats' = [pushed |-> pushed, lost |-> lost, file |-> episode]
    /\ UNCHANGED <<secs, sessions, token, discarding, episode, row, rows, published,
                   loopOnly, recorderOnly>>

\* The file of a session that never began is removed; one that began publishes its end.
SessionIsOver ==
    /\ \/ session = "closing" /\ episode = NoEpisode
       \/ session = "joining" /\ writer \in {"ended", "failed"}
    /\ session' = "idle" /\ discarding' = FALSE /\ episode' = NoEpisode /\ token' = NoToken
    /\ disk' = IF discarding /\ episode # NoEpisode
                 THEN Restrict(disk, DOMAIN disk \ {episode}) ELSE disk
    /\ published' = IF discarding THEN published
                    ELSE Append(published, [phase |-> "end", file |-> episode])
    /\ stamps' = [time |-> 0, host |-> 0] /\ cycle' = 0 /\ pushed' = 0 /\ lost' = 0
    /\ channel' = <<>> /\ sender' = FALSE /\ receiver' = FALSE /\ writer' = "none" /\ batch' = <<>>
    /\ stats' = NoEpisode
    /\ UNCHANGED <<secs, sessions, row, rows, loop>>

-----------------------------------------------------------------------------
(* The loop thread: Shared::cycle stores the robot time, then the host clock, and pushes. *)

StoreTime ==
    /\ loop = "waiting" /\ cycle < MaxCycles
    /\ loop' = "storing" /\ cycle' = cycle + 1
    /\ stamps' = IF episode = NoEpisode THEN stamps ELSE [stamps EXCEPT !.time = cycle + 1]
    /\ UNCHANGED <<secs, nodeOnly, recorderOnly, pushed, lost>>

\* try_send: a full channel, or one whose receiver has gone, drops the record and counts it.
Push ==
    /\ loop = "storing" /\ loop' = "waiting"
    /\ IF episode = NoEpisode THEN UNCHANGED <<stamps, pushed, lost, channel>>
       ELSE /\ stamps' = [stamps EXCEPT !.host = cycle]
            /\ pushed' = pushed + 1
            /\ IF receiver /\ Len(channel) < Capacity
                 THEN channel' = Append(channel, cycle) /\ UNCHANGED lost
                 ELSE lost' = lost + 1 /\ UNCHANGED channel
    /\ UNCHANGED <<secs, nodeOnly, cycle, receiver, writer, batch, disk>>

LoopEnds ==
    /\ loop = "waiting" /\ session = "running" /\ loop' = "off"
    /\ UNCHANGED <<secs, nodeOnly, stamps, cycle, pushed, lost, recorderOnly>>

-----------------------------------------------------------------------------
(* The recorder thread. *)

Wake ==
    /\ writer = "asleep" /\ writer' = "draining"
    /\ UNCHANGED <<secs, nodeOnly, loopOnly, channel, receiver, batch, disk>>

Receive ==
    /\ writer = "draining" /\ channel # <<>>
    /\ batch' = Append(batch, Head(channel)) /\ channel' = Tail(channel)
    /\ UNCHANGED <<secs, nodeOnly, loopOnly, receiver, writer, disk>>

\* try_recv says Disconnected only of an empty channel.
DrainEnds_Hasty ==
    /\ writer = "draining" /\ (channel = <<>> \/ ~sender)
    /\ writer' = IF sender THEN "writing" ELSE "last"
    /\ UNCHANGED <<secs, nodeOnly, loopOnly, channel, receiver, batch, disk>>

DrainEnds ==
    /\ writer = "draining" /\ channel = <<>>
    /\ writer' = IF sender THEN "writing" ELSE "last"
    /\ UNCHANGED <<secs, nodeOnly, loopOnly, channel, receiver, batch, disk>>

\* log_batch, and after the last batch the logger's finish.
WriteBatch ==
    /\ writer \in {"writing", "last"}
    /\ disk' = [disk EXCEPT ![episode] = @ \o batch]
    /\ batch' = <<>>
    /\ writer' = IF writer = "last" THEN "ended" ELSE "asleep"
    /\ receiver' = (writer # "last")
    /\ UNCHANGED <<secs, nodeOnly, loopOnly, channel>>

\* The logger cannot be made, or a write or the flush fails: the thread ends, and every record
\* from here on is dropped.
WriteFails ==
    /\ writer \in {"asleep", "writing", "last"}
    /\ writer' = "failed" /\ receiver' = FALSE /\ batch' = <<>> /\ channel' = <<>>
    /\ UNCHANGED <<secs, nodeOnly, loopOnly, disk>>

SecondPasses ==
    /\ secs < MaxSecs /\ secs' = secs + 1
    /\ UNCHANGED <<nodeOnly, loopOnly, recorderOnly>>

-----------------------------------------------------------------------------
ArmThread == OpenEpisode \/ OpenFails \/ LoopStarts \/ StartFails \/ BeginEpisode \/ ReadTime
                \/ LogRow \/ SessionEnds \/ FinishDrops \/ SessionIsOver
LoopThread == StoreTime \/ Push \/ LoopEnds
RecorderThread == Wake \/ Receive \/ DrainEnds \/ WriteBatch \/ WriteFails

RecordingNext == ArmThread \/ LoopThread \/ RecorderThread \/ SecondPasses

RecordingSpec == RecordingInit /\ [][RecordingNext]_recordingVars

\* The threads are scheduled, and the robot's cycles do not stop while a loop runs; nobody has
\* to open a session or end one.
RecordingFairness ==
    /\ WF_recordingVars(RecorderThread)
    /\ WF_recordingVars(LogRow \/ FinishDrops \/ SessionIsOver)

-----------------------------------------------------------------------------
(* Every record is accounted for: once a recording is closed and its       *)
(* thread did not fail, the file has exactly the records pushed that were  *)
(* not counted as dropped, each once and in the order of their cycles      *)
(* (Recorder::send, the drain and Recorder::finish).                       *)
RecordsAccounted ==
    session = "joining" /\ writer = "ended" =>
      LET written == disk[stats.file]
      IN  /\ stats.pushed = cycle
          /\ Len(written) + stats.lost = stats.pushed
          /\ \A i, j \in 1..Len(written) : i < j => written[i] < written[j]

(* A recording harms no other: the file of a session that was announced    *)
(* keeps its records from then on, whatever later sessions write, discard  *)
(* or name after the same second or token (unique, discard).               *)
Announced == {published[i].file : i \in DOMAIN published} \ {NoEpisode}
AnnouncedFilesStay ==
    [][\A name \in Announced :
         /\ name \in DOMAIN disk'
         /\ (name # episode => disk'[name] = disk[name])
         /\ IsPrefix(disk[name], disk'[name])]_recordingVars

(* Closing a recording returns, although finish joins a thread that may be *)
(* asleep, in the middle of a batch, or have ended on an error long before *)
(* (Recorder::finish drops its sender before the join).                    *)
ClosingReturns == session = "closing" ~> session = "idle"

(* A row of the arm thread is put at one cycle: its robot time and its     *)
(* host clock are those of the same call of the observer (Episode::stamp). *)
RowsOfOneCycle == \A r \in rows : r.time = r.host
=============================================================================
