------------------------------- MODULE PyArm -------------------------------
(***************************************************************************)
(* A program's target control (franka-py targets.rs): the threads of a     *)
(* Python program set targets, hand over a chunk of rows and stop, and a   *)
(* feeder thread publishes each row when it is due. Three locks are        *)
(* shared: the interpreter's (GIL), the chunk's and the handle's.          *)
(*                                                                         *)
(* A row is good, or one the loop refuses. What is called with values that *)
(* do not parse changes nothing and is left out. A condition variable may  *)
(* wake its waiter at any time. The loop behind the handle is external.    *)
(***************************************************************************)
EXTENDS Integers, Sequences, FiniteSets, TLC

CONSTANTS
    PyThreads,      \* the program's threads
    Feeder,         \* the worker
    NobodyHolds,
    PyChunks,       \* bound: the chunks that are handed over, of [rows, dt]
    MaxPyCalls,     \* bound: calls that change the target, or stop
    MaxPyTime       \* bound: ticks

ASSUME PyArmAssumption ==
    /\ Feeder \notin PyThreads /\ NobodyHolds \notin PyThreads /\ Feeder # NobodyHolds
    /\ \A c \in PyChunks : c.rows \in Seq({"good", "bad"}) /\ c.dt \in Nat

VARIABLES
    pyLocks,        \* who holds each lock
    chunk,          \* the chunk that is fed; its ticket numbers the calls that changed it
    feeder,         \* where the worker is, and until when it sleeps
    pyCalls,        \* what each thread is in
    control,        \* the handle, the loop behind it, who took it
    aim,            \* the loop's target: the ticket and the row it is of
    pyNow

pyArmVars == <<pyLocks, chunk, feeder, pyCalls, control, aim, pyNow>>

Outside == [op |-> "none", taken |-> 0, at |-> "python", chunk |-> <<>>]

PyArmInit ==
    /\ pyLocks = [l \in {"gil", "follow", "control"} |-> NobodyHolds]
    /\ chunk = [rows |-> <<>>, next |-> 0, dt |-> 0, started |-> 0, ticket |-> 0, quit |-> FALSE]
    /\ feeder = [at |-> "locking", until |-> 0]
    /\ pyCalls = [t \in PyThreads |-> Outside]
    /\ control = [handle |-> TRUE, running |-> TRUE, takers |-> 0]
    /\ aim = [ticket |-> 0, row |-> 0] /\ pyNow = 0

Clear(c) == [c EXCEPT !.rows = <<>>]
DueAt(c, i) == c.started + c.dt * i
Takes(lock, who) == pyLocks[lock] = NobodyHolds /\ pyLocks' = [pyLocks EXCEPT ![lock] = who]
Without(who, kept) ==
    [l \in DOMAIN pyLocks |-> IF pyLocks[l] = who /\ l \notin kept THEN NobodyHolds ELSE pyLocks[l]]

-----------------------------------------------------------------------------
(* The worker. It holds the chunk's lock but while it waits. *)

FeederLocks ==
    /\ feeder.at = "locking" /\ Takes("follow", Feeder)
    /\ feeder' = [feeder EXCEPT !.at = "checking"]
    /\ UNCHANGED <<chunk, pyCalls, control, aim, pyNow>>

\* Row i is due at started + i dt; the elapsed time is read once.
IsDue_Any(c) == TRUE
IsDue(c) == pyNow >= DueAt(c, c.next)

FeederChecks ==
    /\ feeder.at = "checking"
    /\ \/ /\ chunk.quit
          /\ feeder' = [feeder EXCEPT !.at = "gone"] /\ pyLocks' = Without(Feeder, {})
          /\ UNCHANGED chunk
       \/ /\ ~chunk.quit /\ chunk.next >= Len(chunk.rows)
          /\ feeder' = [feeder EXCEPT !.at = "asleep"] /\ pyLocks' = Without(Feeder, {})
          /\ UNCHANGED chunk
       \/ /\ ~chunk.quit /\ chunk.next < Len(chunk.rows) /\ ~IsDue(chunk)
          /\ feeder' = [at |-> "dozing", until |-> DueAt(chunk, chunk.next)]
          /\ pyLocks' = Without(Feeder, {}) /\ UNCHANGED chunk
       \/ /\ ~chunk.quit /\ chunk.next < Len(chunk.rows) /\ IsDue(chunk)
          /\ chunk' = [chunk EXCEPT !.next = @ + 1]
          /\ feeder' = [feeder EXCEPT !.at = "publishing"] /\ UNCHANGED pyLocks
    /\ UNCHANGED <<pyCalls, control, aim, pyNow>>

FeederWakes ==
    /\ feeder.at \in {"asleep", "dozing"} /\ feeder' = [feeder EXCEPT !.at = "locking"]
    /\ UNCHANGED <<pyLocks, chunk, pyCalls, control, aim, pyNow>>

FeederTakesControl ==
    /\ feeder.at = "publishing" /\ Takes("control", Feeder)
    /\ feeder' = [feeder EXCEPT !.at = "setting"]
    /\ UNCHANGED <<chunk, pyCalls, control, aim, pyNow>>

\* A refused row drops the rest of the chunk.
AfterRow_Goes(c, taken) == c
AfterRow(c, taken) == IF taken THEN c ELSE Clear(c)

FeederSets ==
    /\ feeder.at = "setting"
    /\ LET taken == control.handle /\ control.running /\ chunk.rows[chunk.next] = "good"
       IN  /\ chunk' = AfterRow(chunk, taken)
           /\ aim' = IF taken THEN [ticket |-> chunk.ticket, row |-> chunk.next] ELSE aim
    /\ pyLocks' = Without(Feeder, {"follow"}) /\ feeder' = [feeder EXCEPT !.at = "checking"]
    /\ UNCHANGED <<pyCalls, control, pyNow>>

-----------------------------------------------------------------------------
(* The program's threads. *)

\* The locks of a call, in the order it takes them; a stop runs with the GIL released.
LocksOf_ControlFirst(op) ==
    CASE op = "stop" -> <<"follow", "control">>
      [] op = "look" -> <<"gil", "control">>
      [] OTHER -> <<"gil", "control", "follow">>
LocksOf(op) ==
    CASE op = "stop" -> <<"follow", "control">>
      [] op = "look" -> <<"gil", "control">>
      [] OTHER -> <<"gil", "follow", "control">>

PyCall(t, op, c) ==
    /\ pyCalls[t].at = "python" /\ chunk.ticket + control.takers < MaxPyCalls
    /\ pyCalls' = [pyCalls EXCEPT ![t] = [op |-> op, taken |-> 0, at |-> "locking", chunk |-> c]]
    /\ UNCHANGED <<pyLocks, chunk, feeder, control, aim, pyNow>>

TakesNext(t) ==
    LET call == pyCalls[t]
    IN  /\ call.at = "locking" /\ call.taken < Len(LocksOf(call.op))
        /\ Takes(LocksOf(call.op)[call.taken + 1], t)
        /\ pyCalls' = [pyCalls EXCEPT ![t].taken = @ + 1]
        /\ UNCHANGED <<chunk, feeder, control, aim, pyNow>>

Holds(t, op) ==
    pyCalls[t].at = "locking" /\ pyCalls[t].op = op /\ pyCalls[t].taken = Len(LocksOf(op))

CallReturns(t) == pyLocks' = Without(t, {}) /\ pyCalls' = [pyCalls EXCEPT ![t] = Outside]

\* move_to and move_by: the chunk is cancelled, and the target set, or refused.
Update(t) ==
    /\ Holds(t, "move") /\ CallReturns(t)
    /\ LET c == [Clear(chunk) EXCEPT !.ticket = @ + 1]
       IN  /\ chunk' = c
           /\ \/ aim' = aim
              \/ control.handle /\ control.running
                 /\ aim' = [ticket |-> c.ticket, row |-> 0]
    /\ UNCHANGED <<feeder, control, pyNow>>

\* follow: the chunk is replaced, and the worker told of it with the locks released.
MayFollow_Any == TRUE
MayFollow == control.handle

Follow(t) ==
    /\ Holds(t, "follow")
    /\ IF MayFollow
       THEN /\ chunk' = [chunk EXCEPT !.rows = pyCalls[t].chunk.rows, !.next = 0, !.started = pyNow,
                                      !.dt = pyCalls[t].chunk.dt, !.ticket = @ + 1]
            /\ pyLocks' = Without(t, {"gil"})
            /\ pyCalls' = [pyCalls EXCEPT ![t].at = "notifying"]
       ELSE CallReturns(t) /\ UNCHANGED chunk
    /\ UNCHANGED <<feeder, control, aim, pyNow>>

\* target, state, running.
Look(t) ==
    /\ Holds(t, "look") /\ CallReturns(t) /\ UNCHANGED <<chunk, feeder, control, aim, pyNow>>

\* take: the first stop takes the handle out, a later one finds none.
Take(t) ==
    /\ Holds(t, "stop")
    /\ chunk' = [Clear(chunk) EXCEPT !.quit = TRUE]
    /\ control' = [control EXCEPT !.handle = FALSE, !.takers = @ + (IF control.handle THEN 1 ELSE 0)]
    /\ pyCalls' = [pyCalls EXCEPT ![t].at = "notifying", ![t].op = IF control.handle THEN "joining"
                                                                   ELSE "stop"]
    /\ pyLocks' = Without(t, {}) /\ UNCHANGED <<feeder, aim, pyNow>>

Awoken_Not == feeder
Awoken ==
    IF feeder.at \in {"asleep", "dozing"} THEN [feeder EXCEPT !.at = "locking"] ELSE feeder

Notify(t) ==
    /\ pyCalls[t].at = "notifying" /\ feeder' = Awoken
    /\ IF pyCalls[t].op = "follow" THEN CallReturns(t)
       ELSE /\ pyCalls' = [pyCalls EXCEPT ![t].at = IF pyCalls[t].op = "joining" THEN "joining"
                                                    ELSE "returning"]
            /\ UNCHANGED pyLocks
    /\ UNCHANGED <<chunk, control, aim, pyNow>>

\* Handle::stop: the loop settles and ends.
Join(t) ==
    /\ pyCalls[t].at = "joining" /\ control' = [control EXCEPT !.running = FALSE]
    /\ pyCalls' = [pyCalls EXCEPT ![t].at = "returning"]
    /\ UNCHANGED <<pyLocks, chunk, feeder, aim, pyNow>>

\* The result is Python's: the GIL is taken for it.
GoesBack(t) ==
    /\ pyCalls[t].at = "returning" /\ pyLocks.gil = NobodyHolds
    /\ pyCalls' = [pyCalls EXCEPT ![t] = Outside]
    /\ UNCHANGED <<pyLocks, chunk, feeder, control, aim, pyNow>>

PyLoopEnds ==
    /\ control.running /\ control' = [control EXCEPT !.running = FALSE]
    /\ UNCHANGED <<pyLocks, chunk, feeder, pyCalls, aim, pyNow>>

PyTick ==
    /\ pyNow < MaxPyTime /\ pyNow' = pyNow + 1
    /\ UNCHANGED <<pyLocks, chunk, feeder, pyCalls, control, aim>>

PyArmNext ==
    \/ FeederLocks \/ FeederChecks \/ FeederWakes \/ FeederTakesControl \/ FeederSets
    \/ PyLoopEnds \/ PyTick
    \/ \E t \in PyThreads :
         \/ \E op \in {"move", "look", "stop"} : PyCall(t, op, <<>>)
         \/ \E c \in PyChunks : PyCall(t, "follow", c)
         \/ TakesNext(t) \/ Update(t) \/ Follow(t) \/ Look(t) \/ Take(t) \/ Notify(t) \/ Join(t)
         \/ GoesBack(t)

PyArmSpec == PyArmInit /\ [][PyArmNext]_pyArmVars

-----------------------------------------------------------------------------
PyArmTypeOK ==
    /\ pyLocks \in [{"gil", "follow", "control"} -> PyThreads \cup {Feeder, NobodyHolds}]
    /\ feeder.at \in {"locking", "checking", "asleep", "dozing", "publishing", "setting", "gone"}
    /\ chunk.next \in Nat /\ chunk.ticket \in Nat /\ control.takers \in 0..1

(* Nothing overtakes a call: the target is never set to a row of a chunk   *)
(* that a later move, or a later chunk, has replaced; the rows of a chunk  *)
(* are published one by one, none before it is due, none left out, up to   *)
(* the first refused (run publishes a row under the chunk's lock).         *)
AimNeverGoesBack ==
    [][aim' # aim =>
         /\ \/ aim'.ticket > aim.ticket /\ aim'.row =< 1
            \/ aim'.ticket = aim.ticket /\ aim'.row = aim.row + 1
         /\ aim'.row = 0 \/ pyNow >= DueAt(chunk, aim'.row - 1)]_pyArmVars

(* The worker never sleeps past a row: whenever it waits, it waits for the *)
(* next row's time, or it is about to be told (follow notifies with the    *)
(* locks released).                                                        *)
NeverSleepsPastARow ==
    feeder.at \in {"asleep", "dozing"} /\ chunk.next < Len(chunk.rows) =>
        \/ feeder.at = "dozing" /\ feeder.until =< DueAt(chunk, chunk.next)
        \/ \E t \in PyThreads : pyCalls[t].at = "notifying"

(* A stop is the last word: one call takes the handle, and from then there *)
(* is no chunk left to feed and no way to hand one over.                   *)
StopIsFinal ==
    /\ control.takers = (IF control.handle THEN 0 ELSE 1)
    /\ ~control.handle => chunk.rows = <<>> /\ chunk.quit

(* No ring of threads waits for one another's locks.                       *)
WaitsForLock(who) ==
    IF who = Feeder THEN CASE feeder.at = "locking" -> {"follow"}
                           [] feeder.at = "publishing" -> {"control"} [] OTHER -> {}
    ELSE CASE pyCalls[who].at = "locking" /\ pyCalls[who].taken < Len(LocksOf(pyCalls[who].op)) ->
                {LocksOf(pyCalls[who].op)[pyCalls[who].taken + 1]}
           [] pyCalls[who].at = "returning" -> {"gil"}
           [] OTHER -> {}
NoRingOfLocks ==
    \A ring \in (SUBSET (PyThreads \cup {Feeder})) \ {{}} :
        \E who \in ring : \A l \in WaitsForLock(who) : pyLocks[l] \notin ring
=============================================================================
