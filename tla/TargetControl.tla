--------------------------- MODULE TargetControl ---------------------------
(***************************************************************************)
(* Target control of franka-rs (robot/target_control): callers on any      *)
(* thread change parts of a target through a handle; a loop thread follows *)
(* the newest one at 1 kHz.  They share a seqlock of words (slot.rs), the  *)
(* stop and running flags and the writers' mutex (mod.rs); the loop's      *)
(* cycle is Runner::cycle (runner.rs).                                     *)
(*                                                                         *)
(* A word's value is the place in the log of the target that set it, so    *)
(* two targets are equal only if they are the same one.  Where the         *)
(* generator is, when the measured pose strays and when the arm is at rest *)
(* are choices of the environment; how the motion ends is in FciMotion.    *)
(***************************************************************************)
EXTENDS Naturals, Sequences

CONSTANTS
    Setters,        \* threads that set targets
    NoSetter,
    Words,          \* a target has the words 1..Words
    Tries,          \* load's tries, 3 in the code
    StopTimeout,    \* STOP_TIMEOUT_CYCLES
    SettleCycles,   \* Settle::cycles
    MaxSets         \* bound: calls

ASSUME SettersAssumption == NoSetter \notin Setters
ASSUME SizesAssumption ==
    /\ Words \in Nat \ {0} /\ Tries \in Nat \ {0}
    /\ StopTimeout \in Nat /\ SettleCycles \in Nat /\ MaxSets \in Nat

VARIABLES
    seq, words,     \* TargetSlot
    writer,         \* Shared.writer
    stop, running,  \* Shared.stop, Shared.running
    setter,         \* each setter's call
    loop,           \* the Runner and where its thread is in a cycle
    handle,         \* the handle: not there yet, open, stopping in stop(), gone
    result,         \* what stop() returned
    sets,           \* counter of the bound
    log             \* history: the published targets

slot == <<seq, words>>
vars == <<slot, writer, stop, running, setter, loop, handle, result, sets, log>>

-----------------------------------------------------------------------------
Axes == 1..Words
Targets == [Axes -> Nat]
Unset == [a \in Axes |-> 0]
Anchor == [a \in Axes |-> 1]

SetterPlaces == {"out", "locking", "modifying", "opening", "storing"}
LoopPlaces == {"cycle", "loading", "copying", "planning", "observing", "ending", "ended", "panicked"}

Calls == [at: SetterPlaces, target: Targets, word: 1..(Words + 1)]
NoCall == [at |-> "out", target |-> Unset, word |-> 1]

\* `hold' counts the identical commands of the stop's last phase, `waited' the cycles after it.
Loops == [at: LoopPlaces, target: Targets, previous: Targets, anchored: BOOLEAN, deviated: BOOLEAN,
          blocked: BOOLEAN, stopping: BOOLEAN, cycles: 0..StopTimeout, hold: 0..(SettleCycles + 1),
          waited: 0..(StopTimeout + 1), finished: BOOLEAN, tries: 0..(Tries - 1), before: Nat, copy: Targets, word: 1..(Words + 1),
          ends: {"none", "landed", "gave up"}, result: {"none", "ok", "error"}]

Init ==
    /\ seq = 0 /\ words = Unset
    /\ writer = NoSetter /\ stop = FALSE /\ running = TRUE
    /\ setter = [c \in Setters |-> NoCall]
    /\ loop = [at |-> "cycle", target |-> Unset, previous |-> Unset, anchored |-> FALSE,
               deviated |-> FALSE, blocked |-> FALSE, stopping |-> FALSE, cycles |-> 0, hold |-> 0,
               waited |-> 0, finished |-> FALSE, tries |-> 0, before |-> 0, copy |-> Unset,
               word |-> 1, ends |-> "none", result |-> "none"]
    /\ handle = "starting" /\ result = "none" /\ sets = 0
    /\ log = <<>>

-----------------------------------------------------------------------------
(* modify_target; publish stores the words one after the other between its two increments. *)

Call(c) ==
    /\ handle = "open" /\ setter[c].at = "out"
    /\ sets < MaxSets
    /\ sets' = sets + 1
    /\ setter' = [setter EXCEPT ![c].at = "locking"]
    /\ UNCHANGED <<slot, writer, stop, running, loop, handle, result, log>>

\* Mutant: the target is read before the lock is taken, and the lock is taken only to publish it.
Lock_AfterRead(c) ==
    \/ /\ setter[c].at = "locking" /\ setter[c].target = Unset
       /\ \E a \in Axes : setter' = [setter EXCEPT ![c].target = [words EXCEPT ![a] = Len(log) + 1]]
       /\ UNCHANGED <<slot, writer, stop, running, loop, handle, result, sets, log>>
    \/ /\ setter[c].at = "locking" /\ setter[c].target # Unset /\ writer = NoSetter
       /\ writer' = c
       /\ setter' = [setter EXCEPT ![c].at = "opening", ![c].word = 1]
       /\ UNCHANGED <<slot, stop, running, loop, handle, result, sets, log>>

Lock(c) ==
    /\ setter[c].at = "locking" /\ writer = NoSetter
    /\ IF running
       THEN writer' = c /\ setter' = [setter EXCEPT ![c].at = "modifying"]
       ELSE UNCHANGED writer /\ setter' = [setter EXCEPT ![c] = NoCall]
    /\ UNCHANGED <<slot, stop, running, loop, handle, result, sets, log>>

\* A new value for one word, the others as they are; a value that is not finite is refused.  The
\* lock keeps other writers out, so this load is not torn.
Modify(c) ==
    /\ setter[c].at = "modifying"
    /\ \/ /\ \E a \in Axes :
                 setter' = [setter EXCEPT ![c] = [at |-> "opening", word |-> 1,
                                                  target |-> [words EXCEPT ![a] = Len(log) + 1]]]
          /\ UNCHANGED writer
       \/ setter' = [setter EXCEPT ![c] = NoCall] /\ writer' = NoSetter
    /\ UNCHANGED <<slot, stop, running, loop, handle, result, sets, log>>

\* Mutant: the sequence is not made odd first.
Open_StaysEven(c) ==
    /\ setter[c].at = "opening"
    /\ setter' = [setter EXCEPT ![c].at = "storing"]
    /\ UNCHANGED <<slot, writer, stop, running, loop, handle, result, sets, log>>

Open(c) ==
    /\ setter[c].at = "opening"
    /\ seq' = seq + 1
    /\ setter' = [setter EXCEPT ![c].at = "storing"]
    /\ UNCHANGED <<words, writer, stop, running, loop, handle, result, sets, log>>

Store(c) ==
    /\ setter[c].at = "storing" /\ setter[c].word \in Axes
    /\ words' = [words EXCEPT ![setter[c].word] = setter[c].target[setter[c].word]]
    /\ setter' = [setter EXCEPT ![c].word = @ + 1]
    /\ UNCHANGED <<seq, writer, stop, running, loop, handle, result, sets, log>>

Close(c) ==
    /\ setter[c].at = "storing" /\ setter[c].word \notin Axes
    /\ seq' = seq + 1
    /\ log' = Append(log, setter[c].target)
    /\ setter' = [setter EXCEPT ![c] = NoCall]
    /\ writer' = NoSetter
    /\ UNCHANGED <<words, stop, running, loop, handle, result, sets>>

-----------------------------------------------------------------------------
(* The handle.  It is owned, so stop() and Drop come after every setter's call. *)

NoCalls == \A c \in Setters : setter[c].at = "out"

Stop ==
    /\ handle = "open" /\ NoCalls
    /\ stop' = TRUE
    /\ handle' = "stopping"
    /\ UNCHANGED <<slot, writer, running, setter, loop, result, sets, log>>

Drop ==
    /\ handle = "open" /\ NoCalls
    /\ stop' = TRUE
    /\ handle' = "gone"
    /\ UNCHANGED <<slot, writer, running, setter, loop, result, sets, log>>

Over == loop.at \in {"ended", "panicked"}

\* The join of stop(), and the start's if the loop ends before its first cycle.
Join ==
    /\ handle = "stopping" \/ (handle = "starting" /\ ~loop.anchored)
    /\ Over
    /\ handle' = "gone"
    /\ result' = IF loop.at = "panicked" THEN "error" ELSE loop.result
    /\ UNCHANGED <<slot, writer, stop, running, setter, loop, sets, log>>

-----------------------------------------------------------------------------
(* The loop's cycle. *)

Quiet == UNCHANGED <<slot, writer, stop, running, setter, handle, result, sets, log>>

\* Where a cycle goes on after the target is settled.
Planning(l) == [l EXCEPT !.at = "planning"]

\* The first cycle anchors the target and publishes it, then the start returns the handle; nobody
\* else writes the slot yet.
FirstCycle ==
    /\ loop.at = "cycle" /\ ~loop.anchored
    /\ loop' = [Planning(loop) EXCEPT !.anchored = TRUE, !.target = Anchor, !.previous = Unset]
    /\ seq' = seq + 2 /\ words' = Anchor /\ log' = Append(log, Anchor)
    /\ handle' = "open"
    /\ UNCHANGED <<writer, stop, running, setter, result, sets>>

\* The stop flag is read before the slot.  A measured pose that strays freezes the target.
Cycle ==
    /\ loop.at = "cycle" /\ loop.anchored /\ loop.hold = 0
    /\ LET l == [loop EXCEPT !.stopping = loop.deviated \/ stop, !.previous = loop.target, !.tries = 0]
       IN  IF loop.deviated THEN loop' = Planning(l)
           ELSE \/ loop' = [Planning(l) EXCEPT !.deviated = TRUE, !.target = Unset]
                \/ loop' = [l EXCEPT !.at = "loading"]
    /\ Quiet

\* Mutant: one try more.
TryFails_OneMore(l) ==
    IF l.tries + 1 <= Tries THEN [l EXCEPT !.at = "loading", !.tries = @ + 1]
    ELSE IF l.stopping THEN [l EXCEPT !.at = "loading", !.tries = 0]
    ELSE Planning(l)

\* A try that fails: after the last one the target stays as it is, unless a stop waits for it.
TryFails(l) ==
    IF l.tries + 1 < Tries THEN [l EXCEPT !.at = "loading", !.tries = @ + 1]
    ELSE IF l.stopping THEN [l EXCEPT !.at = "loading", !.tries = 0]
    ELSE Planning(l)

Load ==
    /\ loop.at = "loading"
    /\ loop' = IF seq = 0 \/ seq % 2 = 1
               THEN TryFails(loop)
               ELSE [loop EXCEPT !.at = "copying", !.before = seq, !.word = 1]
    /\ Quiet

Copy ==
    /\ loop.at = "copying" /\ loop.word \in Axes
    /\ loop' = [loop EXCEPT !.copy[loop.word] = words[loop.word], !.word = @ + 1]
    /\ Quiet

Loaded ==
    /\ loop.at = "copying" /\ loop.word \notin Axes
    /\ loop' = IF seq = loop.before THEN [Planning(loop) EXCEPT !.target = loop.copy]
                                    ELSE TryFails(loop)
    /\ Quiet

\* Landed: at the target, or held at a limit as near as it gets to this very target.
Lands(atTarget) == (loop.blocked /\ loop.target = loop.previous) \/ atTarget

\* Mutant: a stop waits for the generator however long it takes.
Plan_NoPatience ==
    /\ loop.at = "planning"
    /\ \E atTarget \in BOOLEAN, blocked \in BOOLEAN :
           LET l == [loop EXCEPT !.at = "observing", !.blocked = blocked]
           IN  loop' = IF ~(loop.stopping \/ loop.deviated) THEN l
                       ELSE IF Lands(atTarget)
                       THEN [l EXCEPT !.hold = 1,
                                      !.ends = IF ~loop.deviated /\ Lands(atTarget) THEN "landed" ELSE "gave up"]
                       ELSE l
    /\ Quiet

\* Mutant: the stop flag is read after the slot, where the plan needs it.
Plan_LateStop ==
    /\ loop.at = "planning"
    /\ \E atTarget \in BOOLEAN, blocked \in BOOLEAN :
           LET l == [loop EXCEPT !.at = "observing", !.blocked = blocked]
               landed == Lands(atTarget)
           IN  loop' = IF ~(stop \/ loop.deviated) THEN l
                       ELSE IF landed \/ loop.cycles + 1 >= StopTimeout
                       THEN [l EXCEPT !.hold = 1,
                                      !.ends = IF ~loop.deviated /\ landed THEN "landed" ELSE "gave up"]
                       ELSE [l EXCEPT !.cycles = @ + 1]
    /\ Quiet

\* One step of the generator; a stop that has landed, or run out of patience, holds from here.
Plan ==
    /\ loop.at = "planning"
    /\ \E atTarget \in BOOLEAN, blocked \in BOOLEAN :
           LET l == [loop EXCEPT !.at = "observing", !.blocked = blocked]
               landed == Lands(atTarget)
           IN  loop' = IF ~(loop.stopping \/ loop.deviated) THEN l
                       ELSE IF landed \/ loop.cycles + 1 >= StopTimeout
                       THEN [l EXCEPT !.hold = 1,
                                      !.ends = IF ~loop.deviated /\ landed THEN "landed" ELSE "gave up"]
                       ELSE [l EXCEPT !.cycles = @ + 1]
    /\ Quiet

\* The same command again; motion_finished after the settle window, once the arm is at rest or
\* was waited for long enough.
Hold ==
    /\ loop.at = "cycle" /\ loop.hold > 0
    /\ IF loop.hold < SettleCycles
       THEN loop' = [loop EXCEPT !.at = "observing", !.hold = @ + 1]
       ELSE \E atRest \in BOOLEAN :
                loop' = [loop EXCEPT !.at = "observing", !.hold = SettleCycles + 1,
                                     !.waited = @ + 1,
                                     !.finished = atRest \/ loop.waited >= StopTimeout]
    /\ Quiet

\* The observer runs at the end of a cycle.  After motion_finished the motion ends with the
\* robot's verdict, and a deviation makes an error of a success.
Observed ==
    /\ loop.at = "observing"
    /\ IF ~loop.finished
       THEN loop' = [loop EXCEPT !.at = "cycle"]
       ELSE \E verdict \in {"ok", "error"} :
                loop' = [loop EXCEPT !.at = "ending", !.result = IF loop.deviated THEN "error" ELSE verdict]
    /\ Quiet

\* The observer panics.
Panics ==
    /\ loop.at = "observing"
    /\ loop' = [loop EXCEPT !.at = "panicked"]
    /\ Quiet

\* The robot aborts the motion, a stop preempts it, the connection breaks, or the start fails.
LoopFails ==
    /\ loop.at = "cycle"
    /\ loop' = [loop EXCEPT !.at = "ending", !.result = "error"]
    /\ Quiet

Ends ==
    /\ loop.at = "ending"
    /\ running' = FALSE
    /\ loop' = [loop EXCEPT !.at = "ended"]
    /\ UNCHANGED <<slot, writer, stop, setter, handle, result, sets, log>>

-----------------------------------------------------------------------------
Sets(c) == Lock(c) \/ Modify(c) \/ Open(c) \/ Store(c) \/ Close(c)
Cycles == FirstCycle \/ Cycle \/ Load \/ Copy \/ Loaded \/ Plan \/ Hold \/ Observed \/ Ends

Next ==
    \/ \E c \in Setters : Call(c) \/ Sets(c)
    \/ Stop \/ Drop \/ Join
    \/ Cycles \/ Panics \/ LoopFails

Spec == Init /\ [][Next]_vars

\* The threads run; the robot's states keep the loop's cycles coming, or it fails.
FairSpec == Spec /\ WF_vars(Cycles) /\ WF_vars(Join) /\ \A c \in Setters : WF_vars(Sets(c))

-----------------------------------------------------------------------------
(* Properties. *)

(* Every variable has its type; the counters stay within the code's limits. *)
TypeOK ==
    /\ seq \in Nat /\ words \in Targets
    /\ writer \in Setters \cup {NoSetter}
    /\ stop \in BOOLEAN /\ running \in BOOLEAN
    /\ setter \in [Setters -> Calls]
    /\ loop \in Loops
    /\ handle \in {"starting", "open", "stopping", "gone"}
    /\ result \in {"none", "ok", "error"}
    /\ sets \in 0..MaxSets
    /\ log \in Seq(Targets)

Position(targets, target) ==
    IF target = Unset THEN 0
    ELSE IF \E i \in 1..Len(targets) : targets[i] = target
    THEN CHOOSE i \in 1..Len(targets) : targets[i] = target
    ELSE Len(targets) + 1

Phase == IF loop.ends # "none" THEN loop.ends ELSE IF loop.deviated THEN "frozen" ELSE "follow"

Promise == INSTANCE TargetRegister WITH at <- Position(log, loop.target), phase <- Phase, closed <- stop

(* The seqlock and the loop implement the register: what the loop follows is one published target,
   whole, never an older one than before, and a stop lands on the last one
   (TargetSlot::load, Runner::cycle). *)
IsRegister == Promise!Spec

(* Two callers who change different words do not lose each other's: each target differs from the
   one before in one word (Handle::modify_target). *)
KeepsOthersWords ==
    [][log' # log /\ log # <<>> =>
           \E a \in Axes : \A b \in Axes \ {a} : log'[Len(log')][b] = log[Len(log)][b]]_vars

(* Ok out of stop() means that the settle window was held, with no deviation before it, on the
   last target unless patience ran out (JointTargetControl::stop, Runner::finish). *)
OkMeansAtRest ==
    result = "ok" => /\ loop.hold > SettleCycles /\ ~loop.deviated
                     /\ loop.ends = "landed" => loop.target = log[Len(log)]

(* stop() returns, however long the generator takes to land and the arm to rest
   (STOP_TIMEOUT_CYCLES). *)
StopReturns == handle = "stopping" ~> handle = "gone"

(* `is_running' is false once the loop has ended for any reason (JointTargetControl::is_running),
   from the moment the thread is over. *)
RunningTells == Over => ~running
=============================================================================
