------------------------------- MODULE FciLink -------------------------------
(***************************************************************************)
(* A session with the robot or the gripper (franka-rs, network/ and        *)
(* gripper/mod.rs): the handshake, the command socket that several threads *)
(* read for each other, byte by byte, and the states on UDP.               *)
(*                                                                         *)
(* A message is HeaderLen bytes and a body; a byte says whose it is, so    *)
(* that what a thread is handed can be told from what it should be.  Each  *)
(* pass of read_from_buffer is one step, under the socket's mutex.         *)
(***************************************************************************)
EXTENDS Integers, Sequences, FiniteSets

CONSTANTS
    Threads,
    Main,         \* the thread that connects
    HeaderLen,    \* header_len of the layout
    BodyLens,     \* what a reply's payload may measure
    MaxRequests,  \* bound: requests
    MaxStates,    \* bound: datagrams
    MaxBroken,    \* bound: messages with a size no message has
    NoLinkId

ASSUME LinkAssumption ==
    /\ HeaderLen \in Nat \ {0} /\ BodyLens \subseteq Nat /\ BodyLens # {}
    /\ MaxRequests \in Nat /\ Main \in Threads

VARIABLES
    layout,       \* HeaderLayout
    linked,       \* "none"; then connect_handshake runs; then it is open, or there is none
    conn,         \* the command socket: "closed" by the server, "shut" by this side
    nextId,       \* next_command_id
    demux,        \* Demux: received, pending; its length is the header's
    doing,        \* each thread's call, its request, and the reply or the state it was handed
    peer,         \* UdpChannel.peer is known
    wire,         \* external: the bytes the server has sent
    asked,        \* external: requests without an answer; broken: how many messages may be
    datagrams,    \* external: the UDP socket's queue
    arrived       \* bound, and how many datagrams had arrived when each read_once began

linkVars == <<layout, linked, conn, nextId, demux, doing, peer, wire, asked, datagrams, arrived>>

LinkIds == 0..(MaxRequests - 1)
Bytes == [of : LinkIds, at : Nat, size : Nat]
Whole(id, size) == [i \in 1..size |-> [of |-> id, at |-> i, size |-> size]]

LinkTypeOK ==
    /\ linked \in {"none", "handshake", "open", "failed"} /\ conn \in {"up", "closed", "shut"}
    /\ nextId \in 0..MaxRequests /\ asked.ids \subseteq LinkIds
    /\ \A i \in DOMAIN demux.pending : demux.pending[i] \in Bytes
    /\ \E n \in BodyLens : Len(demux.pending) < HeaderLen + n
    /\ \A id \in DOMAIN demux.received : id \in LinkIds
    /\ \A t \in Threads : doing[t].call \in {"nothing", "reply", "drain", "state"}

LinkInit ==
    /\ layout \in {"robot", "gripper"} /\ linked = "none" /\ conn = "up" /\ nextId = 0
    /\ demux = [received |-> <<>>, pending |-> <<>>]
    /\ doing = [t \in Threads |-> [call |-> "nothing", id |-> NoLinkId, got |-> <<>>, state |-> 0]]
    /\ peer = FALSE /\ wire = <<>> /\ asked = [ids |-> {}, broken |-> MaxBroken]
    /\ datagrams = <<>> /\ arrived = [now |-> 0, before |-> [t \in Threads |-> 0]]

-----------------------------------------------------------------------------
(* The command socket.                                                                             *)
HandsBack(t, got) ==
    doing' = [doing EXCEPT ![t] = [call |-> "nothing", id |-> NoLinkId, got |-> got, state |-> 0]]

\* send_request: an id of its own, and the write fails on a socket that is shut.
SendRequest(t) ==
    /\ nextId < MaxRequests /\ nextId' = nextId + 1
    /\ IF conn = "shut" THEN HandsBack(t, <<>>) /\ UNCHANGED asked
       ELSE /\ doing' = [doing EXCEPT ![t] = [call |-> "reply", id |-> nextId, got |-> <<>>, state |-> 0]]
            /\ asked' = IF conn = "up" THEN [asked EXCEPT !.ids = @ \cup {nextId}] ELSE asked

\* A new connection: the address resolves and answers, or there is no session.
Connect ==
    /\ linked = "none"
    /\ \/ linked' = "handshake" /\ SendRequest(Main)
       \/ linked' = "failed" /\ UNCHANGED <<nextId, doing, asked>>
    /\ UNCHANGED <<layout, conn, demux, peer, wire, datagrams, arrived>>

\* A command of the robot or the gripper.
SendsCommand(t) ==
    /\ linked = "open" /\ doing[t].call = "nothing" /\ SendRequest(t)
    /\ UNCHANGED <<layout, linked, conn, demux, peer, wire, datagrams, arrived>>

\* The bytes still missing from the message, and no more; the size is known with the header.
Announced(bytes) == IF Len(bytes) >= HeaderLen THEN bytes[HeaderLen].size ELSE HeaderLen
Missing_Header(bytes) == HeaderLen
Missing(bytes) == Announced(bytes) - Len(bytes)

\* read_from_buffer, when the socket gives n bytes: whether it fails, and what it leaves.
Assembled(n) == demux.pending \o SubSeq(wire, 1, n)
BadSize(bytes) == Len(bytes) = HeaderLen /\ Announced(bytes) < HeaderLen
Demuxed(bytes) ==
    IF Len(bytes) >= HeaderLen /\ Len(bytes) = Announced(bytes)
    THEN [received |-> [id \in DOMAIN demux.received \cup {bytes[HeaderLen].of} |->
                            IF id = bytes[HeaderLen].of THEN bytes ELSE demux.received[id]],
          pending |-> <<>>]
    ELSE [demux EXCEPT !.pending = bytes]

\* The reply of the thread's own request.
Claimed_Any(t, received) == DOMAIN received
Claimed(t, received) == {doing[t].id} \cap DOMAIN received

\* The handshake's reply is a success, another version, or anything else; dropping the network
\* shuts the socket.
Judged(t) ==
    IF linked = "handshake" /\ t = Main
    THEN \/ linked' = "open" /\ UNCHANGED conn
         \/ linked' = "failed" /\ conn' = "shut"
    ELSE UNCHANGED <<linked, conn>>
LinkFails(t) ==
    /\ HandsBack(t, <<>>)
    /\ IF linked = "handshake" /\ t = Main THEN linked' = "failed" /\ conn' = "shut"
       ELSE UNCHANGED <<linked, conn>>

\* A turn of blocking_receive_response: a read, the claim.
ReadsBytes(t) ==
    \E n \in 1..Len(wire) :
      /\ n <= Missing(demux.pending) /\ wire' = SubSeq(wire, n + 1, Len(wire))
      /\ LET bytes == Assembled(n)
             next == Demuxed(bytes)
         IN  IF BadSize(bytes)
             THEN demux' = [demux EXCEPT !.pending = <<>>] /\ LinkFails(t)
             ELSE IF Claimed(t, next.received) = {}
             THEN demux' = next /\ UNCHANGED <<doing, linked, conn>>
             ELSE \E id \in Claimed(t, next.received) :
                    /\ demux' = [next EXCEPT !.received =
                                   [i \in DOMAIN next.received \ {id} |-> next.received[i]]]
                    /\ HandsBack(t, next.received[id]) /\ Judged(t)

\* Nothing came within 10 ms: what others read for this thread is still there.
ReadsNothing(t) ==
    /\ wire = <<>> /\ conn = "up" /\ Claimed(t, demux.received) # {} /\ UNCHANGED wire
    /\ \E id \in Claimed(t, demux.received) :
         /\ demux' = [demux EXCEPT !.received =
                        [i \in DOMAIN demux.received \ {id} |-> demux.received[i]]]
         /\ HandsBack(t, demux.received[id]) /\ Judged(t)

\* The end of the stream is an error, whatever was read for this thread before it.
ConnectionEnded_Again(t) == UNCHANGED <<doing, linked, conn>>
ConnectionEnded(t) == LinkFails(t)

ReadsEnd(t) == wire = <<>> /\ conn # "up" /\ ConnectionEnded(t) /\ UNCHANGED <<wire, demux>>

AwaitReply(t) ==
    /\ doing[t].call = "reply"
    /\ ReadsBytes(t) \/ ReadsNothing(t) \/ ReadsEnd(t)
    /\ UNCHANGED <<layout, nextId, peer, asked, datagrams, arrived>>

-----------------------------------------------------------------------------
(* The states. Gripper::read_once drains the queue of old ones and waits for one; a robot's reader *)
(* waits. A datagram of another size is an error of the protocol, and only that.                   *)
Begins(t) ==
    /\ linked = "open" /\ doing[t].call = "nothing"
    /\ doing' = [doing EXCEPT ![t] = [call |-> IF layout = "gripper" THEN "drain" ELSE "state",
                                      id |-> NoLinkId, got |-> <<>>, state |-> 0]]
    /\ arrived' = [arrived EXCEPT !.before[t] = arrived.now]
    /\ UNCHANGED <<layout, linked, conn, nextId, demux, peer, wire, asked, datagrams>>

Drains_Once(t) == doing' = [doing EXCEPT ![t].call = "state"]
Drains(t) == UNCHANGED doing

DrainStates(t) ==
    /\ doing[t].call = "drain"
    /\ IF datagrams = <<>>
       THEN doing' = [doing EXCEPT ![t].call = "state"] /\ UNCHANGED <<datagrams, peer>>
       ELSE datagrams' = Tail(datagrams) /\ peer' = TRUE /\ Drains(t)
    /\ UNCHANGED <<layout, linked, conn, nextId, demux, wire, asked, arrived>>

Receive(t) ==
    /\ doing[t].call = "state" /\ datagrams # <<>>
    /\ datagrams' = Tail(datagrams) /\ peer' = TRUE
    /\ doing' = [doing EXCEPT ![t] = [call |-> "nothing", id |-> NoLinkId, got |-> <<>>,
                      state |-> IF Head(datagrams).whole THEN Head(datagrams).n ELSE 0]]
    /\ UNCHANGED <<layout, linked, conn, nextId, demux, wire, asked, arrived>>

\* Nothing within udp_timeout: a robot's Network shuts the command socket.
Silenced_Kept == conn
Silenced == IF layout = "robot" THEN "shut" ELSE conn

ReceiveTimesOut(t) ==
    /\ doing[t].call = "state" /\ datagrams = <<>> /\ HandsBack(t, <<>>) /\ conn' = Silenced
    /\ UNCHANGED <<layout, linked, nextId, demux, peer, wire, asked, datagrams, arrived>>

-----------------------------------------------------------------------------
(* External: the server answers in any order, or with a size that is none; it goes away.           *)
Answers ==
    /\ conn = "up"
    /\ \E id \in asked.ids :
         \/ \E n \in BodyLens :
              /\ wire' = wire \o Whole(id, HeaderLen + n)
              /\ asked' = [asked EXCEPT !.ids = @ \ {id}]
         \/ /\ asked.broken > 0 /\ asked' = [ids |-> asked.ids \ {id}, broken |-> asked.broken - 1]
            /\ wire' = wire \o [i \in 1..HeaderLen |-> [of |-> id, at |-> i, size |-> 0]]
    /\ UNCHANGED <<layout, linked, conn, nextId, demux, doing, peer, datagrams, arrived>>

Closes ==
    /\ conn = "up" /\ conn' = "closed"
    /\ UNCHANGED <<layout, linked, nextId, demux, doing, peer, wire, asked, datagrams, arrived>>

Publishes ==
    /\ linked = "open" /\ arrived.now < MaxStates /\ arrived' = [arrived EXCEPT !.now = @ + 1]
    /\ \E whole \in BOOLEAN : datagrams' = Append(datagrams, [n |-> arrived.now + 1, whole |-> whole])
    /\ UNCHANGED <<layout, linked, conn, nextId, demux, doing, peer, wire, asked>>

LinkNext ==
    \/ Connect \/ Answers \/ Closes \/ Publishes
    \/ \E t \in Threads :
         \/ SendsCommand(t) \/ AwaitReply(t)
         \/ Begins(t) \/ DrainStates(t) \/ Receive(t) \/ ReceiveTimesOut(t)

\* Every thread that waits gets the mutex in the end.
LinkFairness == \A t \in Threads : WF_linkVars(AwaitReply(t))

LinkSpec == LinkInit /\ [][LinkNext]_linkVars /\ LinkFairness

-----------------------------------------------------------------------------
(* A thread that was handed a reply has the reply to a request of its own, *)
(* whole and nothing else, whoever read its bytes and in how many reads    *)
(* (read_from_buffer, blocking_receive_response); and a state handed out   *)
(* by the gripper's read_once arrived after it was called.                 *)
ReplyIsWhole ==
    \A t \in Threads :
      /\ doing[t].got # <<>> =>
           \E n \in BodyLens : doing[t].got = Whole(doing[t].got[1].of, HeaderLen + n)
      /\ layout = "gripper" /\ doing[t].state > 0 => doing[t].state > arrived.before[t]

\* A step hands a thread only what it asked for (blocking_receive_response).
ReplyIsOwn ==
    [][\A t \in Threads : doing[t].call = "reply" /\ doing'[t].got # <<>> =>
         doing'[t].got[1].of = doing[t].id]_linkVars

(* A thread returns once its reply is there, whoever reads it, and once    *)
(* the connection is gone: a robot that is silent on UDP ends the waits    *)
(* for its replies too (shutdown_tcp_on_network_error).                    *)
Due(t) ==
    \/ conn # "up"
    \/ doing[t].id \in DOMAIN demux.received
    \/ \E i \in DOMAIN wire : wire[i].of = doing[t].id /\ wire[i].size > 0
RepliesGetThrough == \A t \in Threads : (doing[t].call = "reply" /\ Due(t)) ~> doing[t].call # "reply"

\* What the doc of shutdown says: a UDP receive that fails shuts the command socket, so that the
\* next TCP operation fails fast.
SilenceShuts ==
    [][\A t \in Threads : doing[t].call = "state" /\ doing'[t].call = "nothing" /\ datagrams = <<>>
         => conn' = "shut"]_linkVars
=============================================================================
