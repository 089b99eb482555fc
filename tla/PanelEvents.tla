---------------------------- MODULE PanelEvents ----------------------------
(***************************************************************************)
(* The pages of the tuning panel (franka-node's Python panel: bridge.py's  *)
(* ArmMonitor and Bridge.apply, web.py's _sse): each page is one stream of *)
(* events behind a bounded queue, opened by a hello of what is known.      *)
(*                                                                         *)
(* Each owner's current is a version; its subscriber stores it under the   *)
(* monitor's lock and broadcasts it under the lock once more.              *)
(***************************************************************************)
EXTENDS Integers, Sequences

CONSTANTS
    Pages,      \* the browsers' streams
    Owners,     \* OWNERS, the node first: what the pages are told of
    QueueSize,  \* the queue of an SseClient
    MaxVersion, \* bound: what the owners publish
    MaxOpens    \* bound: streams opened

ASSUME PanelAssumption == QueueSize \in Nat /\ MaxVersion \in Nat

VARIABLES
    currents,    \* ArmMonitor.current
    telling,    \* the current an owner's subscriber has stored and not broadcast; 0 is none
    clients,    \* ArmMonitor.clients
    queue,      \* SseClient.queue
    closed,     \* SseClient.closed
    stream,     \* where _sse is
    page,       \* external: what the page shows of each owner
    opens       \* bound

panelEventsVars == <<currents, telling, clients, queue, closed, stream, page, opens>>

Versions == 0..MaxVersion
Events == Owners \X Versions

PanelEventsTypeOK ==
    /\ currents \in [Owners -> Versions] /\ telling \in [Owners -> Versions] /\ clients \subseteq Pages
    /\ closed \subseteq Pages /\ stream \in [Pages -> {"none", "headers", "hello", "events"}]
    /\ page \in [Pages -> [Owners -> Versions]]
    /\ \A p \in Pages : Len(queue[p]) <= QueueSize /\ \A i \in DOMAIN queue[p] : queue[p][i] \in Events

PanelEventsInit ==
    /\ currents = [o \in Owners |-> 0] /\ telling = [o \in Owners |-> 0] /\ clients = {}
    /\ queue = [p \in Pages |-> <<>>] /\ closed = {} /\ stream = [p \in Pages |-> "none"]
    /\ page = [p \in Pages |-> [o \in Owners |-> 0]] /\ opens = MaxOpens

-----------------------------------------------------------------------------
\* on_current: one thread for each owner's subscriber.
OnCurrent(o) ==
    /\ telling[o] = 0 /\ currents[o] < MaxVersion
    /\ currents' = [currents EXCEPT ![o] = @ + 1] /\ telling' = [telling EXCEPT ![o] = currents[o] + 1]
    /\ UNCHANGED <<clients, queue, closed, stream, page, opens>>

\* broadcast: a client whose queue is full is closed and forgotten.
Full_Late == {p \in clients : Len(queue[p]) > QueueSize}

Full == {p \in clients : Len(queue[p]) >= QueueSize}

Dropped_Silently == closed' = closed /\ clients' = clients
Dropped == closed' = closed \cup Full /\ clients' = clients \ Full

Broadcast(o) ==
    /\ telling[o] > 0 /\ telling' = [telling EXCEPT ![o] = 0]
    /\ queue' = [p \in Pages |-> IF p \in clients \ Full THEN Append(queue[p], <<o, telling[o]>>)
                                 ELSE queue[p]]
    /\ Dropped
    /\ UNCHANGED <<currents, stream, page, opens>>

-----------------------------------------------------------------------------
(* _sse, on a thread of its own.                                                                   *)
Open(p) ==
    /\ stream[p] = "none" /\ opens > 0 /\ opens' = opens - 1
    /\ stream' = [stream EXCEPT ![p] = "headers"] /\ clients' = clients \cup {p}
    /\ queue' = [queue EXCEPT ![p] = <<>>] /\ closed' = closed \ {p}
    /\ UNCHANGED <<currents, telling, page>>

\* hello: under the lock, after the client is one.
Hello(p) ==
    /\ stream[p] = "headers" /\ stream' = [stream EXCEPT ![p] = "events"]
    /\ page' = [page EXCEPT ![p] = currents]
    /\ UNCHANGED <<currents, telling, clients, queue, closed, opens>>

\* The page shows what an event says.
Event(p) ==
    /\ stream[p] = "events" /\ p \notin closed /\ queue[p] # <<>>
    /\ page' = [page EXCEPT ![p][Head(queue[p])[1]] = Head(queue[p])[2]]
    /\ queue' = [queue EXCEPT ![p] = Tail(@)]
    /\ UNCHANGED <<currents, telling, clients, closed, stream, opens>>

\* The client fell behind, or the browser went away.
End(p) ==
    /\ stream[p] # "none" /\ stream' = [stream EXCEPT ![p] = "none"]
    /\ clients' = clients \ {p} /\ queue' = [queue EXCEPT ![p] = <<>>]
    /\ UNCHANGED <<currents, telling, closed, page, opens>>

PanelEventsNext ==
    \/ \E o \in Owners : OnCurrent(o) \/ Broadcast(o)
    \/ \E p \in Pages : Open(p) \/ Hello(p) \/ Event(p) \/ End(p)

PanelEventsSpec == PanelEventsInit /\ [][PanelEventsNext]_panelEventsVars

-----------------------------------------------------------------------------
(* A stream that is open and was told everything shows what the monitor    *)
(* knows: nothing it missed goes unseen, neither between its opening and   *)
(* its hello nor at a full queue, where the page sees the drop instead of  *)
(* a silent stream (broadcast, hello, _sse).                               *)
PageIsCurrent ==
    \A p \in Pages : stream[p] = "events" /\ p \notin closed /\ queue[p] = <<>> =>
        \A o \in Owners : page[p][o] = currents[o] \/ telling[o] = currents[o]
=============================================================================
