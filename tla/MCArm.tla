----------------------------- MODULE MCArm -----------------------------
(* The arm's thread with all that its clients send it, in two instances: its sessions, under two *)
(* clients that contend or the streams of one; and what the node waits for, its sessions' ends   *)
(* and, apart from them, the replies of the connection below, where two threads read one socket. *)
(* One part moves in a behaviour.                                                                *)
EXTENDS ArmMachine, FciLink, TLC

VARIABLE part    \* "arm" or "link" for what is waited for; NoClient, or the client that streams

armVars == <<part, vars, linkVars>>

ClientSymmetry == Permutations(Clients)

Query(verbs, callers, modes) == [type : {"cmd"}, verb : verbs, client : callers, mode : modes]

\* Two clients that contend for the arm, both kinds of session, refusals of both sorts.
\* A query of client 0 is only told from a client's where the holder is asked for.
SessionAlphabet ==
    [type : {"target"}, client : Clients, seq : {1}, kind : {"joints"}, content : {"good"}]
    \cup Query({"acquire", "release", "home"}, Clients, {"cartesian"})
    \cup Query({"enable"}, Clients \cup {NoClient}, Kinds)
    \cup Query({"stop", "recover"}, {NoClient}, {"cartesian"})
    \cup LeaseEvent

\* One commander's streams: targets and gripper orders in and out of sequence, of the session's
\* kind and of the other, with the verbs that start and end things.
StreamAlphabet ==
    [type : {"target"}, client : Clients, seq : 1..MaxSeq, kind : {"joints"},
     content : {"good"}]
    \cup [type : {"target"}, client : Clients, seq : {1}, kind : {"cartesian"},
          content : {"good"}]
    \cup [type : {"width"}, client : Clients, seq : 1..MaxSeq]
    \cup [type : {"grasp"}, client : Clients, seq : {1}]
    \cup Query({"acquire", "gripper_home", "gripper_stop", "params"}, Clients, {"cartesian"})
    \cup Query({"enable"}, Clients, {"joints"})
    \cup [type : {"alive"}, client : Clients]

\* The streams of one client carry its own id, and its lease comes alive once. A second query may
\* be open beside another if it is one of the gripper's. A shutdown comes behind other events only
\* where clients contend.
GripperVerbs == {"gripper_home", "gripper_stop"}
MayQueue(e) ==
    \/ e = ShutdownEvent /\ (part = NoClient \/ queue = <<>>)
    \/ part = NoClient /\ e \in SessionAlphabet /\ \A c \in Callers : arm'.open[c] <= 1
    \/ /\ part # NoClient /\ e \in StreamAlphabet /\ e.client = part
       /\ e.type = "alive" => part \notin arm.alive
       /\ IsQuery(e) /\ e.verb \notin GripperVerbs => arm'.open[part] <= 1

\* A connection that stands still has one initial state.
LinkStill == LinkInit /\ layout = "robot"

ArmInit == Init /\ LinkStill /\ part \in Clients \cup {NoClient}
ArmNext ==
    /\ Next /\ UNCHANGED <<part, linkVars>>
    /\ Len(queue') > Len(queue) => MayQueue(queue'[Len(queue')])

ArmSpec == ArmInit /\ [][ArmNext]_armVars

BothAlphabets == SessionAlphabet \cup StreamAlphabet

-----------------------------------------------------------------------------
\* One client, every kind of session it can start, and what can end one.
LifeAlphabet ==
    [type : {"target"}, client : Clients, seq : {1}, kind : {"joints"}, content : {"good", "refused"}]
    \cup [type : {"cmd"}, verb : {"acquire", "enable", "stop", "home", "gripper_home", "recover"},
          client : Clients, mode : {"joints"}]
    \cup LeaseEvent

ArmLifeInit == part \in {"arm", "link"} /\ Init /\ LinkInit /\ (part = "arm" => LinkStill)

ArmLifeNext ==
    \/ part = "arm" /\ Next /\ UNCHANGED <<part, linkVars>>
    \/ part = "link" /\ LinkNext /\ UNCHANGED <<part, vars>>

\* The fairness of the part that moves: FairSpec's and LinkFairness.
ArmLifeSpec ==
    /\ ArmLifeInit /\ [][ArmLifeNext]_armVars
    /\ SF_vars(part = "arm" /\ Tick) /\ SF_vars(part = "arm" /\ WatchdogFires)
    /\ WF_vars(part = "arm" /\ Batch) /\ WF_vars(part = "arm" /\ (Drain \/ Finish))
    /\ WF_vars(part = "arm" /\ GripperHomed) /\ WF_vars(part = "arm" /\ TimePasses)
    /\ \A t \in Threads : WF_linkVars(part = "link" /\ AwaitReply(t))

-----------------------------------------------------------------------------
(* What is read off the socket is whole, whoever reads it: LinkTypeOK bounds what is left over of *)
(* a message, ReplyIsWhole what is handed out.                                                    *)
LinkSafety == LinkTypeOK /\ ReplyIsWhole

(* A thread gets its own reply (blocking_receive_response), and gets it.                          *)
OwnReplyComes == ReplyIsOwn /\ RepliesGetThrough
=============================================================================
