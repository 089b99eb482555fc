---------------------------- MODULE GripperHand ----------------------------
(***************************************************************************)
(* The Franka Hand driver of franka-node (gripper/hand.rs): a worker       *)
(* thread that runs one blocking command of the hand at a time, a slot for *)
(* the newest width, a slot for a grasp, a slot for a homing, and `stop',  *)
(* which goes past the worker from a thread of its own.                    *)
(*                                                                         *)
(* The `pending' mutex is held across one step boundary only: between the  *)
(* worker's decision that there is nothing to do and its wait on the       *)
(* condition variable (worker = "checked").  Widths within the deadband of *)
(* each other are one value.  The reader thread and the flags that are     *)
(* only published (moving, fault) are left out.                            *)
(***************************************************************************)
EXTENDS Naturals

CONSTANTS
    Widths,     \* widths more than WIDTH_DEADBAND apart
    NoWidth,    \* NONE, the NaN of the atomics
    MaxStops    \* bound: stop threads whose request is under way

ASSUME WidthsAssumption == NoWidth \notin Widths
ASSUME StopsAssumption == MaxStops \in Nat

VARIABLES
    target,     \* the pending width
    grasp,      \* a grasp is pending
    home,       \* the pending homing: none, one whose caller listens, one whose caller gave up
    commanded,  \* the last commanded width
    worker,     \* where the worker is
    job,        \* what it dequeued last
    homer,      \* the thread in Gripper::home
    stopper,    \* the thread in Gripper::stop, between its lock and its spawn
    dropper,    \* the thread in Drop
    stops,      \* external: stop requests on their way to the hand
    hand,       \* external: what the hand does, and its answer
    at,         \* external: the width the hand was last moved to, if nothing came after it
    asked,      \* history: the width the hand should end at
    dropped     \* history: what was pending at the last stop and was not asked for since

orders == <<target, grasp, home>>
threads == <<homer, stopper, dropper>>
outside == <<stops, hand, at>>
history == <<asked, dropped>>
vars == <<orders, commanded, worker, job, threads, outside, history>>

-----------------------------------------------------------------------------
Homes   == {"none", "heard", "unheard"}
NoJob   == [kind |-> "none"]
Move(w) == [kind |-> "move", width |-> w]
Grasp   == [kind |-> "grasp"]
Home(h) == [kind |-> "home", caller |-> h]
Jobs    == {Move(w) : w \in Widths} \cup {Grasp} \cup {Home(h) : h \in {"heard", "unheard"}}
Answers == {"arrived", "unsuccessful", "failed"}

\* The mutex is free for a caller.
Unlocked == worker # "checked"

\* notify_one: only a worker that waits is woken.
Woken == IF worker = "waiting" THEN "idle" ELSE worker

Init ==
    /\ target = NoWidth /\ grasp = FALSE /\ home = "none" /\ commanded = NoWidth
    /\ worker = "idle" /\ job = NoJob
    /\ homer = "idle" /\ stopper = "idle" /\ dropper = "idle"
    /\ stops = 0 /\ hand = "resting" /\ at = NoWidth
    /\ asked = NoWidth /\ dropped = {}

-----------------------------------------------------------------------------
(* The calls of Gripper.  None of them runs any more once the driver is being dropped. *)

\* Mutant: the width is stored and the worker notified without the lock.
Command_NoLock(w) ==
    /\ dropper = "idle"
    /\ target' = w
    /\ worker' = Woken
    /\ asked' = w
    /\ dropped' = dropped \ {"move"}
    /\ UNCHANGED <<grasp, home, commanded, job, threads, outside>>

Command(w) ==
    /\ dropper = "idle"
    /\ Unlocked
    /\ target' = w
    /\ worker' = Woken
    /\ asked' = w
    /\ dropped' = dropped \ {"move"}
    /\ UNCHANGED <<grasp, home, commanded, job, threads, outside>>

GraspCall ==
    /\ dropper = "idle"
    /\ Unlocked
    /\ grasp' = TRUE
    /\ target' = NoWidth
    /\ worker' = Woken
    /\ asked' = NoWidth
    /\ dropped' = dropped \ {"grasp"}
    /\ UNCHANGED <<home, commanded, job, threads, outside>>

\* Queued behind a running job; "homing already queued" leaves everything as it is.
HomeCall ==
    /\ dropper = "idle"
    /\ Unlocked
    /\ homer = "idle"
    /\ home = "none"
    /\ home' = "heard"
    /\ homer' = "waiting"
    /\ worker' = Woken
    /\ asked' = IF target = NoWidth THEN NoWidth ELSE asked
    /\ dropped' = dropped \ {"home"}
    /\ UNCHANGED <<target, grasp, commanded, job, stopper, dropper, outside>>

\* HOME_TIMEOUT: the caller leaves, its homing stays where it is.
HomeTimesOut ==
    /\ homer = "waiting"
    /\ homer' = "idle"
    /\ home' = IF home = "heard" THEN "unheard" ELSE home
    /\ job' = IF job = Home("heard") THEN Home("unheard") ELSE job
    /\ UNCHANGED <<target, grasp, commanded, worker, stopper, dropper, outside, history>>

\* What `stop' finds pending.
Pending == (IF target # NoWidth THEN {"move"} ELSE {}) \cup (IF grasp THEN {"grasp"} ELSE {})
           \cup (IF home # "none" THEN {"home"} ELSE {})

\* Mutant: only the width is dropped.
StopDrops_GraspKept ==
    /\ dropper = "idle"
    /\ Unlocked
    /\ stopper = "idle"
    /\ target' = NoWidth
    /\ stopper' = "dropped"
    /\ asked' = NoWidth
    /\ dropped' = Pending
    /\ UNCHANGED <<grasp, home, commanded, worker, job, homer, dropper, outside>>

StopDrops ==
    /\ dropper = "idle"
    /\ Unlocked
    /\ stopper = "idle"
    /\ grasp' = FALSE
    /\ target' = NoWidth
    /\ stopper' = "dropped"
    /\ asked' = NoWidth
    /\ dropped' = Pending
    /\ UNCHANGED <<home, commanded, worker, job, homer, dropper, outside>>

\* The rest of `stop', outside the lock.
StopSpawns ==
    /\ stopper = "dropped"
    /\ stops < MaxStops
    /\ stopper' = "idle"
    /\ commanded' = NoWidth
    /\ stops' = stops + 1
    /\ UNCHANGED <<orders, worker, job, homer, dropper, hand, at, history>>

\* Drop, which needs the driver for itself: quit is stored outside the lock.
DropQuits ==
    /\ dropper = "idle" /\ homer = "idle" /\ stopper = "idle"
    /\ dropper' = "quit"
    /\ UNCHANGED <<orders, commanded, worker, job, homer, stopper, outside, history>>

\* Mutant: the worker is notified without the lock.
DropNotifies_NoLock ==
    /\ dropper = "quit"
    /\ dropper' = "joining"
    /\ worker' = Woken
    /\ UNCHANGED <<orders, commanded, job, homer, stopper, outside, history>>

DropNotifies ==
    /\ dropper = "quit"
    /\ Unlocked
    /\ dropper' = "joining"
    /\ worker' = Woken
    /\ UNCHANGED <<orders, commanded, job, homer, stopper, outside, history>>

-----------------------------------------------------------------------------
(* The worker: next_job under the lock, then the job. *)

Quitting == dropper # "idle"

\* Mutant: NaN is a width like any other.
Wanted_NaN == target # commanded

Wanted == target # NoWidth /\ target # commanded

NextQuits ==
    /\ worker = "idle" /\ Quitting
    /\ worker' = "gone"
    /\ UNCHANGED <<orders, commanded, job, threads, outside, history>>

NextHome ==
    /\ worker = "idle" /\ ~Quitting
    /\ home # "none"
    /\ job' = Home(home)
    /\ home' = "none"
    /\ worker' = "dequeued"
    /\ UNCHANGED <<target, grasp, commanded, threads, outside, history>>

NextGrasp ==
    /\ worker = "idle" /\ ~Quitting
    /\ home = "none" /\ grasp
    /\ job' = Grasp
    /\ grasp' = FALSE
    /\ worker' = "dequeued"
    /\ UNCHANGED <<target, home, commanded, threads, outside, history>>

NextMove ==
    /\ worker = "idle" /\ ~Quitting
    /\ home = "none" /\ ~grasp /\ Wanted
    /\ job' = Move(target)
    /\ target' = NoWidth
    /\ worker' = "dequeued"
    /\ UNCHANGED <<grasp, home, commanded, threads, outside, history>>

\* A width the hand is at already is taken and forgotten.
NextNothing ==
    /\ worker = "idle" /\ ~Quitting
    /\ home = "none" /\ ~grasp /\ ~Wanted
    /\ target' = NoWidth
    /\ worker' = "checked"
    /\ UNCHANGED <<grasp, home, commanded, job, threads, outside, history>>

\* Condvar::wait releases the lock as it starts to wait.
Wait ==
    /\ worker = "checked"
    /\ worker' = "waiting"
    /\ UNCHANGED <<orders, commanded, job, threads, outside, history>>

\* The request goes out; the hand drops what it thought of before.
Start ==
    /\ worker = "dequeued"
    /\ commanded' = IF job.kind = "move" THEN job.width ELSE NoWidth
    /\ worker' = "running"
    /\ hand' = "busy"
    /\ at' = NoWidth
    /\ UNCHANGED <<orders, job, threads, stops, history>>

\* Mutant: a move that did not arrive keeps its commanded width.
Finish_CommandedKept ==
    /\ worker = "running" /\ hand \in Answers
    /\ worker' = "idle"
    /\ hand' = "resting"
    /\ asked' = IF job.kind = "move" /\ hand # "arrived" /\ target = NoWidth
                THEN NoWidth ELSE asked
    /\ homer' = IF job = Home("heard") THEN "idle" ELSE homer
    /\ UNCHANGED <<orders, commanded, job, stopper, dropper, stops, at, dropped>>

Finish ==
    /\ worker = "running" /\ hand \in Answers
    /\ worker' = "idle"
    /\ hand' = "resting"
    /\ commanded' = IF job.kind = "move" /\ hand # "arrived" THEN NoWidth ELSE commanded
    /\ asked' = IF job.kind = "move" /\ hand # "arrived" /\ target = NoWidth
                THEN NoWidth ELSE asked
    /\ homer' = IF job = Home("heard") THEN "idle" ELSE homer
    /\ UNCHANGED <<orders, job, stopper, dropper, stops, at, dropped>>

Worker ==
    NextQuits \/ NextHome \/ NextGrasp \/ NextMove \/ NextNothing \/ Wait \/ Start \/ Finish

-----------------------------------------------------------------------------
(* The hand: a command ends in one of its ways, or is aborted by a stop. *)

HandAnswers ==
    /\ hand = "busy"
    /\ \E a \in Answers :
           /\ hand' = a
           /\ at' = IF a = "arrived" /\ job.kind = "move" THEN job.width ELSE NoWidth
    /\ UNCHANGED <<orders, commanded, worker, job, threads, stops, history>>

\* A stop halts a move or a grasp; it finds none under way, or a homing, and does nothing.
HandStops ==
    /\ stops > 0
    /\ stops' = stops - 1
    /\ hand' = IF hand = "busy" /\ job.kind # "home" THEN "failed" ELSE hand
    /\ UNCHANGED <<orders, commanded, worker, job, threads, at, history>>

Calls ==
    \/ \E w \in Widths : Command(w)
    \/ GraspCall \/ HomeCall \/ HomeTimesOut \/ StopDrops \/ StopSpawns
    \/ DropQuits \/ DropNotifies

Next == Calls \/ Worker \/ HandAnswers \/ HandStops

Spec == Init /\ [][Next]_vars

\* The threads run, and the hand answers what it was sent.
FairSpec ==
    /\ Spec
    /\ WF_vars(Worker) /\ WF_vars(DropNotifies) /\ WF_vars(HandAnswers)
    /\ WF_vars(StopSpawns) /\ WF_vars(HandStops) /\ WF_vars(HomeTimesOut)

-----------------------------------------------------------------------------
(* Properties. *)

(* Every variable has its type. *)
TypeOK ==
    /\ target \in Widths \cup {NoWidth}
    /\ grasp \in BOOLEAN
    /\ home \in Homes
    /\ commanded \in Widths \cup {NoWidth}
    /\ worker \in {"idle", "checked", "waiting", "dequeued", "running", "gone"}
    /\ job \in Jobs \cup {NoJob}
    /\ homer \in {"idle", "waiting"}
    /\ stopper \in {"idle", "dropped"}
    /\ dropper \in {"idle", "quit", "joining"}
    /\ stops \in 0..MaxStops
    /\ hand \in {"resting", "busy"} \cup Answers
    /\ at \in Widths \cup {NoWidth}
    /\ asked \in Widths \cup {NoWidth}
    /\ dropped \subseteq {"move", "grasp", "home"}

(* No wakeup is lost: the worker never waits while an order is pending, nor once Drop has
   told it to quit (the lock that command and Drop take around their notify). *)
NeverSleepsOnWork ==
    worker = "waiting" => /\ target = NoWidth /\ ~grasp /\ home = "none"
                          /\ dropper # "joining"

(* The latest width wins: once the worker has nothing to do, the hand stands where it was last
   asked to be, unless a grasp, a homing, a stop or a failed move came after (next_job's
   deadband compares with a width that a failed move or a stop must have cleared). *)
LatestWins == (worker = "waiting" /\ asked # NoWidth) => at = asked

(* What a stop dropped is not run by the worker later, however it interleaves with it. *)
Dequeues(kind) == worker = "idle" /\ worker' = "dequeued" /\ job'.kind = kind
StoppedStaysStopped ==
    [][\A k \in {"move", "grasp"} : Dequeues(k) => k \notin dropped]_vars

(* A stop drops what is pending (gripper/mod.rs, the trait's doc of stop), a homing too. *)
StopDropsPending == [][Dequeues("home") => "home" \notin dropped]_vars

(* Dropping the driver ends its worker, whatever it does and however quit meets its wait. *)
DropJoins == (dropper # "idle") ~> (worker = "gone")
=============================================================================
