------------------------------ MODULE NodeLife ------------------------------
(***************************************************************************)
(* The life of a node (franka-node lib.rs run, transport.rs, arm/mod.rs,   *)
(* status.rs): it opens its session, connects the arms one after another   *)
(* and serves each as soon as it is wired, publishes its status, and on a  *)
(* signal, or when a later arm cannot be had, gives everything back.       *)
(*                                                                         *)
(* An arm's thread is what ArmMachine has in full; here a session of it    *)
(* begins with a query and ends with another, by itself or at the          *)
(* shutdown. A callback of the transport that has begun may send its event *)
(* after its entity is undeclared.                                         *)
(*                                                                         *)
(* External: clients and their queries, robots that do not answer, signals.*)
(***************************************************************************)
EXTENDS Integers, Sequences, FiniteSets, SequencesExt

CONSTANTS
    NodeArms,       \* how many arms the configuration names
    NodeCalls,      \* bound: the queries of clients
    MaxSignals      \* bound: signals

ASSUME LifeAssumption == NodeArms \in Nat

VARIABLES
    main,       \* where run() is, with the arm it is at
    served,     \* what is declared for each arm
    arms,       \* each arm's thread
    inbox,      \* each arm's channel
    loops,      \* each arm: whether a session runs, episodes begun and ended
    calls,      \* the queries: where each is
    status,     \* the status publisher's thread, and what it last said of each arm
    tearing,    \* the arms still to be given back, the first of them in the middle of it
    signals     \* bound: signals so far

lifeVars == <<main, served, arms, inbox, loops, calls, status, tearing, signals>>

ArmsOfNode == 1..NodeArms
Entities == <<"target", "gripper", "cmd", "params", "lease">>
NoThread == [a \in ArmsOfNode |-> "none"]

LifeTypeOK ==
    /\ main.at \in {"open", "connect", "driver", "spawn", "declare", "status", "handler", "wait",
                    "unwind", "exited", "killed"}
    /\ \A a \in ArmsOfNode :
         /\ served[a] \subseteq Range(Entities)
         /\ arms[a] \in {"none", "runs", "stopping", "draining", "leaving", "ended"}
         /\ loops[a].begun - loops[a].ended = (IF loops[a].runs THEN 1 ELSE 0)
    /\ status.thread \in {"none", "runs", "ended"}

LifeInit ==
    /\ main = [at |-> "open", arm |-> 1] /\ tearing = <<>> /\ signals = 0
    /\ served = [a \in ArmsOfNode |-> {}] /\ arms = NoThread
    /\ inbox = [a \in ArmsOfNode |-> <<>>]
    /\ loops = [a \in ArmsOfNode |-> [runs |-> FALSE, begun |-> 0, ended |-> 0]]
    /\ calls = [c \in NodeCalls |-> [at |-> "unasked", arm |-> 1, late |-> FALSE]]
    /\ status = [thread |-> "none", of |-> NoThread]

-----------------------------------------------------------------------------
(* Start. *)

\* attach, step by step; an arm that is wired is followed by the next one.
OpenNodeSession ==
    /\ main.at = "open" /\ main' = [main EXCEPT !.at = IF NodeArms > 0 THEN "connect" ELSE "status"]
    /\ UNCHANGED <<served, arms, inbox, loops, calls, status, tearing, signals>>

ConnectRobot ==
    /\ main.at = "connect" /\ main' = [main EXCEPT !.at = "driver"]
    /\ UNCHANGED <<served, arms, inbox, loops, calls, status, tearing, signals>>

BuildGripper ==
    /\ main.at = "driver" /\ main' = [main EXCEPT !.at = "spawn"]
    /\ UNCHANGED <<served, arms, inbox, loops, calls, status, tearing, signals>>

SpawnArm ==
    /\ main.at = "spawn" /\ main' = [main EXCEPT !.at = "declare"]
    /\ arms' = [arms EXCEPT ![main.arm] = "runs"]
    /\ UNCHANGED <<served, inbox, loops, calls, status, tearing, signals>>

Declared(a) == Cardinality(served[a])
AfterArm == IF main.arm < NodeArms THEN [at |-> "connect", arm |-> main.arm + 1]
            ELSE [main EXCEPT !.at = "status"]

Declare ==
    /\ main.at = "declare"
    /\ served' = [served EXCEPT ![main.arm] = @ \cup {Entities[Declared(main.arm) + 1]}]
    /\ main' = IF Declared(main.arm) + 1 < Len(Entities) THEN main ELSE AfterArm
    /\ UNCHANGED <<arms, inbox, loops, calls, status, tearing, signals>>

StartStatus ==
    /\ main.at = "status" /\ main' = [main EXCEPT !.at = "handler"]
    /\ status' = [status EXCEPT !.thread = "runs"]
    /\ UNCHANGED <<served, arms, inbox, loops, calls, tearing, signals>>

SetHandler ==
    /\ main.at = "handler" /\ main' = [main EXCEPT !.at = "wait"]
    /\ UNCHANGED <<served, arms, inbox, loops, calls, status, tearing, signals>>

\* Any step of the start may fail: what the step had of its arm goes first, then the arms in order.
Starting == {"open", "connect", "driver", "spawn", "declare", "status", "handler"}
Whole == [i \in 1..NodeArms |-> i]
HadSoFar ==
    CASE main.at = "declare" -> <<main.arm>> \o [i \in 1..(main.arm - 1) |-> i]
      [] main.at \in {"connect", "driver", "spawn"} -> [i \in 1..(main.arm - 1) |-> i]
      [] main.at \in {"status", "handler"} -> Whole
      [] OTHER -> <<>>

NodeFails ==
    /\ main.at \in Starting
    /\ tearing' = HadSoFar /\ main' = [main EXCEPT !.at = "unwind"]
    /\ UNCHANGED <<served, arms, inbox, loops, calls, status, signals>>

\* SIGINT or SIGTERM: before the handler is set the process dies of it.
SignalComes ==
    /\ signals < MaxSignals /\ main.at \notin {"exited", "killed"} /\ signals' = signals + 1
    /\ IF main.at \in Starting THEN main' = [main EXCEPT !.at = "killed"] /\ UNCHANGED tearing
       ELSE IF main.at = "wait" THEN main' = [main EXCEPT !.at = "unwind"] /\ tearing' = Whole
       ELSE UNCHANGED <<main, tearing>>
    /\ UNCHANGED <<served, arms, inbox, loops, calls, status>>

-----------------------------------------------------------------------------
(* The end: the status, then every arm: its entities, its thread; the session last. *)

EndStatus ==
    /\ main.at = "unwind" /\ status.thread = "runs"
    /\ status' = [status EXCEPT !.thread = "ended"]
    /\ UNCHANGED <<main, served, arms, inbox, loops, calls, tearing, signals>>

\* An attached arm's fields are dropped as they were declared, the locals of a half attached one
\* backwards; its handle sends Shutdown when nothing is declared any more, and joins.
Undeclares_NotFirst(a) == served[a] # {} /\ arms[a] = "ended"
Undeclares(a) == served[a] # {}

ShutsDown_AtOnce(a) == arms[a] = "runs" /\ [is |-> "shutdown"] \notin Range(inbox[a])
ShutsDown(a) == served[a] = {} /\ arms[a] = "runs" /\ [is |-> "shutdown"] \notin Range(inbox[a])

NextToGo(a) ==
    LET kept == SelectSeq(Entities, LAMBDA e : e \in served[a])
    IN  IF Len(kept) = Declared(a) /\ a = main.arm /\ Declared(a) < Len(Entities) THEN Last(kept)
        ELSE Head(kept)

Undeclare ==
    /\ main.at = "unwind" /\ status.thread # "runs" /\ tearing # <<>> /\ Undeclares(Head(tearing))
    /\ served' = [served EXCEPT ![Head(tearing)] = @ \ {NextToGo(Head(tearing))}]
    /\ UNCHANGED <<main, arms, inbox, loops, calls, status, tearing, signals>>

SendShutdown ==
    /\ main.at = "unwind" /\ status.thread # "runs" /\ tearing # <<>> /\ ShutsDown(Head(tearing))
    /\ inbox' = [inbox EXCEPT ![Head(tearing)] = Append(@, [is |-> "shutdown"])]
    /\ UNCHANGED <<main, served, arms, loops, calls, status, tearing, signals>>

JoinArm ==
    /\ main.at = "unwind" /\ tearing # <<>>
    /\ ~Undeclares(Head(tearing)) /\ arms[Head(tearing)] = "ended"
    /\ tearing' = Tail(tearing)
    /\ UNCHANGED <<main, served, arms, inbox, loops, calls, status, signals>>

CloseNodeSession ==
    /\ main.at = "unwind" /\ status.thread # "runs" /\ tearing = <<>>
    /\ main' = [main EXCEPT !.at = "exited"]
    /\ UNCHANGED <<served, arms, inbox, loops, calls, status, tearing, signals>>

-----------------------------------------------------------------------------
(* Queries, and the arm's thread. *)

\* A queryable's callback begins while it is declared, and sends its event when it comes to it;
\* an event for a thread that is gone is gone.
Ask(c, a) ==
    /\ calls[c].at = "unasked" /\ "cmd" \in served[a] /\ main.at # "killed"
    /\ calls' = [calls EXCEPT ![c] = [at |-> "callback", arm |-> a, late |-> FALSE]]
    /\ UNCHANGED <<main, served, arms, inbox, loops, status, tearing, signals>>

SendCall(c) ==
    LET a == calls[c].arm
        gone == arms[a] = "ended"
    IN  /\ calls[c].at = "callback" /\ main.at # "killed"
        /\ calls' = [calls EXCEPT ![c].at = IF gone THEN "lost" ELSE "queued",
                                  ![c].late = "cmd" \notin served[a]]
        /\ inbox' = IF gone THEN inbox
                     ELSE [inbox EXCEPT ![a] = Append(@, [is |-> "call", of |-> c])]
        /\ UNCHANGED <<main, served, arms, loops, status, tearing, signals>>

Began(s) == [s EXCEPT !.runs = TRUE, !.begun = @ + 1]
Over(s) == IF s.runs THEN [s EXCEPT !.runs = FALSE, !.ended = @ + 1] ELSE s

\* One event: a query begins a session, ends it or changes nothing, and is answered.
HandleCall(a) ==
    /\ arms[a] = "runs" /\ inbox[a] # <<>> /\ Head(inbox[a]).is = "call"
    /\ \/ loops' = [loops EXCEPT ![a] = IF @.runs THEN @ ELSE Began(@)]
       \/ loops' = [loops EXCEPT ![a] = Over(@)]
    /\ calls' = [calls EXCEPT ![Head(inbox[a]).of].at = "answered"]
    /\ inbox' = [inbox EXCEPT ![a] = Tail(@)]
    /\ UNCHANGED <<main, served, arms, status, tearing, signals>>

SessionFaults(a) ==
    /\ arms[a] = "runs" /\ loops[a].runs
    /\ loops' = [loops EXCEPT ![a] = Over(@)]
    /\ UNCHANGED <<main, served, arms, inbox, calls, status, tearing, signals>>

HandleShutdown(a) ==
    /\ arms[a] = "runs" /\ inbox[a] # <<>> /\ Head(inbox[a]).is = "shutdown"
    /\ arms' = [arms EXCEPT ![a] = "stopping"]
    /\ inbox' = [inbox EXCEPT ![a] = Tail(@)]
    /\ UNCHANGED <<main, served, loops, calls, status, tearing, signals>>

EndsSession_Drops(s) == s
EndsSession(s) == Over(s)

ArmStops(a) ==
    /\ arms[a] = "stopping"
    /\ loops' = [loops EXCEPT ![a] = EndsSession(@)]
    /\ arms' = [arms EXCEPT ![a] = "draining"]
    /\ UNCHANGED <<main, served, inbox, calls, status, tearing, signals>>

\* What queued up behind the shutdown is answered; what comes after the last look is dropped.
DrainCall(a) ==
    /\ arms[a] = "draining" /\ inbox[a] # <<>>
    /\ calls' = [calls EXCEPT ![Head(inbox[a]).of].at = "answered"]
    /\ inbox' = [inbox EXCEPT ![a] = Tail(@)]
    /\ UNCHANGED <<main, served, arms, loops, status, tearing, signals>>

LastLook(a) ==
    /\ arms[a] = "draining" /\ inbox[a] = <<>>
    /\ arms' = [arms EXCEPT ![a] = "leaving"]
    /\ UNCHANGED <<main, served, inbox, loops, calls, status, tearing, signals>>

ArmEnds(a) ==
    /\ arms[a] = "leaving"
    /\ arms' = [arms EXCEPT ![a] = "ended"]
    /\ calls' = [c \in NodeCalls |-> IF calls[c].at = "queued" /\ calls[c].arm = a
                                 THEN [calls[c] EXCEPT !.at = "lost"] ELSE calls[c]]
    /\ inbox' = [inbox EXCEPT ![a] = <<>>]
    /\ UNCHANGED <<main, served, loops, status, tearing, signals>>

\* Once a second: what the arms' arms have stored of themselves.
PublishStatus ==
    /\ status.thread = "runs" /\ main.at # "killed" /\ status.of # arms
    /\ status' = [status EXCEPT !.of = arms]
    /\ UNCHANGED <<main, served, arms, inbox, loops, calls, tearing, signals>>

-----------------------------------------------------------------------------
ArmSteps(a) ==
    \/ HandleCall(a) \/ HandleShutdown(a) \/ ArmStops(a)
    \/ DrainCall(a) \/ LastLook(a) \/ ArmEnds(a)
ArmRuns(a) == main.at # "killed" /\ ArmSteps(a)

MainThread ==
    \/ OpenNodeSession \/ ConnectRobot \/ BuildGripper \/ SpawnArm \/ Declare \/ StartStatus
    \/ SetHandler \/ EndStatus \/ Undeclare \/ SendShutdown \/ JoinArm \/ CloseNodeSession

LifeNext ==
    \/ MainThread \/ NodeFails \/ SignalComes \/ PublishStatus
    \/ \E c \in NodeCalls : SendCall(c) \/ \E a \in ArmsOfNode : Ask(c, a)
    \/ \E a \in ArmsOfNode : ArmRuns(a) \/ (main.at # "killed" /\ SessionFaults(a))

LifeSpec == LifeInit /\ [][LifeNext]_lifeVars

\* The main thread and the arms' arms run; a robot's stop comes back.
LifeFairness == WF_lifeVars(MainThread) /\ \A a \in ArmsOfNode : WF_lifeVars(ArmRuns(a))

-----------------------------------------------------------------------------
(* Whatever ends run(), a signal or an arm that could not be had, no arm   *)
(* is left in a session: each has stopped its loop and published the end   *)
(* of the episode whose start it had published (Attached::shutdown,        *)
(* ArmHandle::finish, the machine's end_session).                          *)
NothingRunsOn ==
    main.at = "exited" =>
        \A a \in ArmsOfNode : /\ arms[a] \in {"none", "ended"} /\ ~loops[a].runs
                              /\ loops[a].begun = loops[a].ended

(* A query whose callback had sent its event while its arm was served is   *)
(* answered, the shutdown notwithstanding; only one that was still in its  *)
(* callback when the arm was taken down may go without (Attached::shutdown *)
(* undeclares before it shuts down, and the thread answers what is left).  *)
ServedIsAnswered ==
    /\ \A c \in NodeCalls : calls[c].at = "lost" => calls[c].late
    /\ main.at = "exited" => \A c \in NodeCalls : calls[c].at # "queued"

(* The status tells of arms that run: it is over before the first of them  *)
(* is taken down, so it never shows a node that is half gone.              *)
StatusOfWholeNode ==
    status.thread = "runs" => \A a \in ArmsOfNode : status.of[a] \in {"none", "runs"}

(* A node that gives itself back gets through it, past every thread it has *)
(* to join.                                                                *)
NodeReturns == main.at = "unwind" ~> main.at = "exited"
=============================================================================
