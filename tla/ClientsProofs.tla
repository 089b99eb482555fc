---------------------------- MODULE ClientsProofs ----------------------------
(***************************************************************************)
(* What MCClients checks on small instances, proved for every value of the *)
(* constants: a page is current, the bridge and teleoperation drive a live *)
(* hand in step with the arm, and the Python client's streamers and stops  *)
(* mind their own sessions.                                                *)
(*                                                                         *)
(* Each part has an inductive invariant of its own, preserved by its own   *)
(* steps and by a stutter; a step of the clients is one of each part.      *)
(***************************************************************************)
EXTENDS MCClients, FiniteSetTheorems, SequenceTheorems, TLAPS

-----------------------------------------------------------------------------
(* The pages. *)

\* The last event of an owner in a queue, if there is one, tells v.
LastTells(q, o, v) ==
    \A i \in 1..Len(q) :
      q[i][1] = o /\ (\A j \in (i + 1)..Len(q) : q[j][1] # o) => q[i][2] = v
NothingOf(q, o) == \A i \in 1..Len(q) : q[i][1] # o

PagesType ==
    /\ currents \in [Owners -> Nat] /\ telling \in [Owners -> Nat]
    /\ stream \in [Pages -> {"none", "headers", "hello", "events"}]
    /\ page \in [Pages -> [Owners -> Nat]]
    /\ queue \in [Pages -> Seq(Owners \X Nat)]

\* A stream that is open and was not dropped hears of everything.
OpenIsClient == \A p \in Pages : stream[p] # "none" /\ p \notin closed => p \in clients
TellsTheNewest == \A o \in Owners : telling[o] \in {0, currents[o]}

\* What was broadcast is at the end of the queue, or on the page.
QueueIsCurrent ==
    \A p \in Pages, o \in Owners :
      stream[p] # "none" /\ p \notin closed /\ telling[o] # currents[o]
        => LastTells(queue[p], o, currents[o])
PageShows ==
    \A p \in Pages, o \in Owners :
      /\ stream[p] = "events" /\ p \notin closed /\ telling[o] # currents[o]
      /\ NothingOf(queue[p], o)
      => page[p][o] = currents[o]

PagesInv == PagesType /\ OpenIsClient /\ TellsTheNewest /\ QueueIsCurrent /\ PageShows

\* An event at the end of a queue is the last of its owner, and of no other.
LEMMA LastOfAppend ==
    ASSUME NEW q \in Seq(Owners \X Nat), NEW e \in Owners \X Nat, NEW o, NEW v,
           e[1] = o => e[2] = v,
           e[1] # o => LastTells(q, o, v)
    PROVE  LastTells(Append(q, e), o, v)
<1> DEFINE r == Append(q, e)
<1>1. /\ Len(r) = Len(q) + 1 /\ Len(q) \in Nat
      /\ r[Len(q) + 1] = e /\ \A i \in 1..Len(q) : r[i] = q[i]
  OBVIOUS
<1> SUFFICES ASSUME NEW i \in 1..Len(r), r[i][1] = o, \A j \in (i + 1)..Len(r) : r[j][1] # o
             PROVE  r[i][2] = v
  BY DEF LastTells
<1> HIDE DEF r
<1>2. CASE i = Len(q) + 1
  BY <1>1, <1>2
<1>3. CASE i \in 1..Len(q)
  <2>1. Len(q) + 1 \in (i + 1)..Len(r)
    BY <1>1, <1>3
  <2>2. e[1] # o
    BY <2>1, <1>1
  <2>3. \A j \in (i + 1)..Len(q) : q[j][1] # o
    BY <1>1, <1>3
  <2> QED
    BY <2>2, <2>3, <1>1, <1>3 DEF LastTells
<1> QED
  BY <1>1, <1>2, <1>3

\* Taking the first event leaves the last of each owner.
LEMMA LastOfTail ==
    ASSUME NEW q \in Seq(Owners \X Nat), q # <<>>, NEW o, NEW v, LastTells(q, o, v)
    PROVE  /\ LastTells(Tail(q), o, v)
           /\ NothingOf(Tail(q), o) /\ Head(q)[1] = o => Head(q)[2] = v
           /\ NothingOf(Tail(q), o) /\ Head(q)[1] # o => NothingOf(q, o)
<1> DEFINE r == Tail(q)
<1>1. /\ Len(q) \in Nat \ {0} /\ Len(r) = Len(q) - 1 /\ Head(q) = q[1]
      /\ \A i \in 1..Len(r) : r[i] = q[i + 1]
  OBVIOUS
<1>2. \A i \in 2..Len(q) : q[i] = r[i - 1]
  BY <1>1
<1> HIDE DEF r
<1>3. LastTells(r, o, v)
  <2> SUFFICES ASSUME NEW i \in 1..Len(r), r[i][1] = o, \A j \in (i + 1)..Len(r) : r[j][1] # o
               PROVE  r[i][2] = v
    BY DEF LastTells
  <2>1. i + 1 \in 1..Len(q) /\ q[i + 1] = r[i]
    BY <1>1
  <2>2. ASSUME NEW j \in ((i + 1) + 1)..Len(q) PROVE q[j][1] # o
    <3>1. j \in 2..Len(q) /\ j - 1 \in (i + 1)..Len(r)
      BY <1>1
    <3> QED
      BY <3>1, <1>2
  <2>3. q[i + 1][1] = o
    BY <2>1
  <2>4. q[i + 1][2] = v
    BY <2>1, <2>2, <2>3 DEF LastTells
  <2> QED
    BY <2>1, <2>4
<1>4. ASSUME NothingOf(r, o), NEW j \in 2..Len(q) PROVE q[j][1] # o
  <2>1. j - 1 \in 1..Len(r)
    BY <1>1
  <2> QED
    BY <2>1, <1>2, <1>4 DEF NothingOf
<1>5. ASSUME NothingOf(r, o), Head(q)[1] = o PROVE Head(q)[2] = v
  BY <1>1, <1>4, <1>5 DEF LastTells
<1>6. ASSUME NothingOf(r, o), Head(q)[1] # o PROVE NothingOf(q, o)
  BY <1>1, <1>4, <1>6 DEF NothingOf
<1> QED
  BY <1>3, <1>5, <1>6 DEF r

\* Nothing is published at the start.
LEMMA PagesInitially == PanelEventsInit => PagesInv
  BY DEF PanelEventsInit, PagesInv, PagesType, OpenIsClient, TellsTheNewest, QueueIsCurrent,
         PageShows

\* Each publication, offer, drain and reconnection keeps the pages' invariant.
LEMMA PagesStep == PagesInv /\ [PanelEventsNext]_panelEventsVars => PagesInv'
<1> SUFFICES ASSUME PagesInv, [PanelEventsNext]_panelEventsVars PROVE PagesInv'
  OBVIOUS
<1> USE DEF PagesInv
<1>1. ASSUME NEW o \in Owners, OnCurrent(o) PROVE PagesInv'
  <2>1. PagesType'
    BY <1>1 DEF OnCurrent, PagesType
  <2>2. OpenIsClient'
    BY <1>1 DEF OnCurrent, OpenIsClient
  <2>3. TellsTheNewest'
    BY <1>1 DEF OnCurrent, TellsTheNewest, PagesType
  <2>4. QueueIsCurrent'
    BY <1>1 DEF OnCurrent, QueueIsCurrent, PagesType
  <2>5. PageShows'
    BY <1>1 DEF OnCurrent, PageShows, PagesType
  <2> QED
    BY <2>1, <2>2, <2>3, <2>4, <2>5
<1>2. ASSUME NEW o \in Owners, Broadcast(o) PROVE PagesInv'
  <2> DEFINE e == <<o, telling[o]>>
  <2>1. e \in Owners \X Nat /\ e[1] = o /\ e[2] = currents[o] /\ telling[o] = currents[o]
    BY <1>2 DEF Broadcast, PagesType, TellsTheNewest
  <2>2. /\ telling' = [telling EXCEPT ![o] = 0] /\ UNCHANGED <<currents, stream, page>>
        /\ closed' = closed \cup Full /\ clients' = clients \ Full
        /\ queue' = [p \in Pages |-> IF p \in clients \ Full THEN Append(queue[p], e) ELSE queue[p]]
    BY <1>2 DEF Broadcast, Dropped
  <2> HIDE DEF e
  <2>3. \A p \in Pages : p \notin closed' /\ stream[p] # "none" =>
                           p \in clients' /\ p \in clients \ Full /\ queue'[p] = Append(queue[p], e)
    BY <2>2 DEF OpenIsClient
  <2>4. PagesType'
    BY <2>1, <2>2 DEF PagesType
  <2>5. OpenIsClient'
    BY <2>2, <2>3 DEF OpenIsClient
  <2>6. TellsTheNewest'
    BY <2>2 DEF TellsTheNewest, PagesType
  <2>7. \A u \in Owners : u # o => telling'[u] = telling[u]
    BY <2>2 DEF PagesType
  <2>8. QueueIsCurrent'
    <3> SUFFICES ASSUME NEW p \in Pages, NEW u \in Owners, stream[p] # "none", p \notin closed',
                        telling'[u] # currents[u]
                 PROVE  LastTells(Append(queue[p], e), u, currents[u])
      BY <2>2, <2>3 DEF QueueIsCurrent
    <3>1. queue[p] \in Seq(Owners \X Nat)
      BY DEF PagesType
    <3>2. e[1] = u => e[2] = currents[u]
      BY <2>1
    <3>3. e[1] # u => LastTells(queue[p], u, currents[u])
      BY <2>1, <2>2, <2>7 DEF QueueIsCurrent
    <3> QED
      BY <3>1, <3>2, <3>3, <2>1, LastOfAppend
  <2>9. PageShows'
    <3> SUFFICES ASSUME NEW p \in Pages, NEW u \in Owners, stream[p] = "events",
                        p \notin closed', telling'[u] # currents[u],
                        NothingOf(Append(queue[p], e), u)
                 PROVE  page[p][u] = currents[u]
      BY <2>2, <2>3 DEF PageShows
    <3>1. queue[p] \in Seq(Owners \X Nat)
      BY DEF PagesType
    <3>2. /\ Len(Append(queue[p], e)) = Len(queue[p]) + 1 /\ Len(queue[p]) \in Nat
          /\ Append(queue[p], e)[Len(queue[p]) + 1] = e
          /\ \A i \in 1..Len(queue[p]) : Append(queue[p], e)[i] = queue[p][i]
      BY <3>1, <2>1
    <3>3. NothingOf(queue[p], u) /\ e[1] # u
      BY <3>2 DEF NothingOf
    <3> QED
      BY <3>3, <2>1, <2>2, <2>7 DEF PageShows
  <2> QED
    BY <2>4, <2>5, <2>6, <2>8, <2>9
<1>3. ASSUME NEW p \in Pages, Open(p) PROVE PagesInv'
  <2>1. PagesType'
    BY <1>3 DEF Open, PagesType
  <2>2. OpenIsClient'
    BY <1>3 DEF Open, OpenIsClient, PagesType
  <2>3. TellsTheNewest'
    BY <1>3 DEF Open, TellsTheNewest
  <2>4. QueueIsCurrent'
    <3>1. queue'[p] = <<>> /\ \A r \in Pages \ {p} : queue'[r] = queue[r]
      BY <1>3 DEF Open, PagesType
    <3>2. \A u \in Owners : LastTells(<<>>, u, currents[u])
      BY DEF LastTells
    <3>3. \A r \in Pages \ {p} : stream'[r] = stream[r] /\ (r \notin closed' => r \notin closed)
      BY <1>3 DEF Open, PagesType
    <3> QED
      BY <1>3, <3>1, <3>2, <3>3 DEF Open, QueueIsCurrent
  <2>5. PageShows'
    BY <1>3 DEF Open, PageShows, PagesType
  <2> QED
    BY <2>1, <2>2, <2>3, <2>4, <2>5
<1>4. ASSUME NEW p \in Pages, Hello(p) PROVE PagesInv'
  <2>1. PagesType'
    BY <1>4 DEF Hello, PagesType
  <2>2. OpenIsClient'
    BY <1>4 DEF Hello, OpenIsClient, PagesType
  <2>3. TellsTheNewest'
    BY <1>4 DEF Hello, TellsTheNewest
  <2>4. QueueIsCurrent'
    BY <1>4 DEF Hello, QueueIsCurrent, PagesType
  <2>5. PageShows'
    BY <1>4 DEF Hello, PageShows, PagesType
  <2> QED
    BY <2>1, <2>2, <2>3, <2>4, <2>5
<1>5. ASSUME NEW p \in Pages, Event(p) PROVE PagesInv'
  <2> DEFINE q == queue[p]
             e == Head(q)
  <2>1. q \in Seq(Owners \X Nat) /\ q # <<>> /\ e \in Owners \X Nat /\ Tail(q) \in Seq(Owners \X Nat)
    BY <1>5 DEF Event, PagesType
  <2>2. /\ queue' = [queue EXCEPT ![p] = Tail(q)]
        /\ page' = [page EXCEPT ![p] = [page[p] EXCEPT ![e[1]] = e[2]]]
        /\ UNCHANGED <<currents, telling, clients, closed, stream>> /\ stream[p] = "events"
        /\ p \notin closed
    BY <1>5 DEF Event
  <2> HIDE DEF q, e
  <2>3. PagesType'
    BY <2>1, <2>2 DEF PagesType
  <2>4. OpenIsClient' /\ TellsTheNewest'
    BY <2>2 DEF OpenIsClient, TellsTheNewest
  <2>5. /\ queue'[p] = Tail(q) /\ \A r \in Pages : r # p => queue'[r] = queue[r] /\ page'[r] = page[r]
        /\ \A u \in Owners : page'[p][u] = IF u = e[1] THEN e[2] ELSE page[p][u]
    BY <2>1, <2>2 DEF PagesType
  <2>6. ASSUME NEW u \in Owners, telling[u] # currents[u]
        PROVE  /\ LastTells(Tail(q), u, currents[u])
               /\ NothingOf(Tail(q), u) /\ e[1] = u => e[2] = currents[u]
               /\ NothingOf(Tail(q), u) /\ e[1] # u => NothingOf(q, u)
    <3>1. LastTells(q, u, currents[u])
      BY <2>2, <2>6 DEF QueueIsCurrent, q
    <3> QED
      BY <3>1, <2>1, LastOfTail DEF e
  <2>7. QueueIsCurrent'
    BY <2>2, <2>5, <2>6 DEF QueueIsCurrent
  <2>8. PageShows'
    <3> SUFFICES ASSUME NEW r \in Pages, NEW u \in Owners, stream[r] = "events", r \notin closed,
                        telling[u] # currents[u], NothingOf(queue'[r], u)
                 PROVE  page'[r][u] = currents[u]
      BY <2>2 DEF PageShows
    <3>1. CASE r # p
      BY <3>1, <2>5 DEF PageShows
    <3>2. CASE r = p
      BY <3>2, <2>5, <2>6 DEF PageShows, q
    <3> QED
      BY <3>1, <3>2
  <2> QED
    BY <2>3, <2>4, <2>7, <2>8
<1>6. ASSUME NEW p \in Pages, End(p) PROVE PagesInv'
  <2>1. PagesType'
    BY <1>6 DEF End, PagesType
  <2>2. OpenIsClient'
    BY <1>6 DEF End, OpenIsClient, PagesType
  <2>3. TellsTheNewest'
    BY <1>6 DEF End, TellsTheNewest
  <2>4. QueueIsCurrent'
    BY <1>6 DEF End, QueueIsCurrent, PagesType
  <2>5. PageShows'
    BY <1>6 DEF End, PageShows, PagesType
  <2> QED
    BY <2>1, <2>2, <2>3, <2>4, <2>5
<1>7. CASE UNCHANGED panelEventsVars
  BY <1>7 DEF panelEventsVars, PagesType, OpenIsClient, TellsTheNewest, QueueIsCurrent, PageShows
<1> QED
  BY <1>1, <1>2, <1>3, <1>4, <1>5, <1>6, <1>7 DEF PanelEventsNext

\* The invariant says that a page reaches the newest event of each arm.
LEMMA PagesShow == PagesInv => PageIsCurrent
  BY DEF PagesInv, PagesType, PageShows, PageIsCurrent, NothingOf

(* A page whose stream is open and told everything shows what the monitor  *)
(* knows, whenever it was opened and however full its queue was            *)
(* (broadcast, hello, _sse).                                               *)
THEOREM PagesAreCurrent == ClientsSpec => []PageIsCurrent
<1>1. ClientsInit => PanelEventsInit
  BY DEF ClientsInit
<1>2. [ClientsNext]_clientsVars => [PanelEventsNext]_panelEventsVars
  BY DEF ClientsNext, clientsVars
<1> QED
  BY <1>1, <1>2, PagesInitially, PagesStep, PagesShow, PTL DEF ClientsSpec

-----------------------------------------------------------------------------
(* The bridge. *)

BridgeType ==
    /\ sinceChange \in [Channels -> SampleAges \cup {NoChange}]
    /\ lastSample \in [Channels -> MappedSamples \cup {None}]
    /\ gapFor \in [Channels -> 0..GapHold]
    /\ forcedOpen \in [Channels -> BOOLEAN]
    /\ live \in [Channels -> SampleAges] /\ shook \in [Channels -> BOOLEAN]

Lateness(ch) == IF gapFor[ch] = 0 THEN 0 ELSE MaxTick - 1
HasFresh(ch) == lastSample[ch] # None /\ lastSample[ch].fresh

\* A hand was seen to move since the change the mapper counts from; a fresh sample is held for the
\* gap at the most; an open hand, and a fresh one whose grip is released, was shaken off.
BridgeInv ==
    /\ BridgeType
    /\ \A ch \in Channels :
         /\ sinceChange[ch] # NoChange => live[ch] <= sinceChange[ch]
         /\ HasFresh(ch) => live[ch] < FreshTimeout + gapFor[ch] + Lateness(ch)
         /\ ~forcedOpen[ch] => shook[ch]
         /\ HasFresh(ch) /\ ~lastSample[ch].grip => shook[ch]
    /\ DrivesLiveHand

\* The bridge starts with no sample and an unlatched mapper.
LEMMA BridgeInitially == BridgeInit => BridgeInv
  BY BridgeAssumption
     DEF BridgeInit, BridgeInv, BridgeType, HasFresh, DrivesLiveHand, SampleAges, Oldest, NoChange,
         Lateness

\* A sample that ages stays a sample, and is not younger.
LEMMA OlderGrows ==
    \A d \in 1..MaxTick :
      /\ \A a \in SampleAges : Older(a, d) \in SampleAges /\ Older(a, d) <= a + d
      /\ \A a, b \in SampleAges : a <= b => Older(a, d) <= Older(b, d)
  BY BridgeAssumption DEF SampleAges, Oldest, Older

\* The fields of a sample of the headset.
LEMMA SampleFields ==
    ASSUME NEW x, NEW g, NEW b, x = [grip |-> g, fresh |-> b] PROVE x.fresh <=> b
<1>1. x.fresh = b
  OBVIOUS
<1> QED
  BY <1>1, Zenon

\* The fields of a message of the bridge.
LEMMA MessageFields ==
    ASSUME NEW m, NEW s, NEW forced, m = Message(s, forced), m.engaged
    PROVE  s # None /\ s.fresh /\ ~forced
<1>1. s # None
  BY DEF Message
<1>2. m.engaged = (s.grip /\ s.fresh /\ ~forced)
  BY <1>1 DEF Message
<1> QED
  BY <1>1, <1>2, Zenon

\* Each sample, gap, packet and message keeps the bridge's invariant.
LEMMA BridgeStep == BridgeInv /\ [BridgeNext]_bridgeVars => BridgeInv'
<1>1. ASSUME BridgeInv, BridgeTick PROVE BridgeInv'
  <2> USE DEF BridgeInv
  <2>1. PICK frame \in [Channels -> Frames], d \in 1..MaxTick :
          /\ sinceChange' = [ch \in Channels |->
                IF frame[ch].usable THEN Changed(ch, frame[ch], d)
                ELSE IF sinceChange[ch] = NoChange THEN NoChange ELSE Older(sinceChange[ch], d)]
          /\ lastSample' = [ch \in Channels |-> Resolved(ch, frame[ch], d)]
          /\ gapFor' = [ch \in Channels |-> Gap(ch, frame[ch], d)]
          /\ forcedOpen' = [ch \in Channels |-> Forced(ch, Resolved(ch, frame[ch], d))]
          /\ sent' = [ch \in Channels |-> Message(Resolved(ch, frame[ch], d), forcedOpen'[ch])]
          /\ live' = [ch \in Channels |-> IF frame[ch].usable /\ Changed(ch, frame[ch], d) = 0 THEN 0
                                          ELSE Older(live[ch], d)]
          /\ shook' = [ch \in Channels |->
                /\ ~(Resolved(ch, frame[ch], d) = None \/ ~Resolved(ch, frame[ch], d).fresh)
                /\ shook[ch] \/ (frame[ch].usable /\ ~frame[ch].grip)]
    <3>1. PICK frame \in [Channels -> Frames], d \in 1..MaxTick :
            LET said == [ch \in Channels |-> Resolved(ch, frame[ch], d)]
                dead == [ch \in Channels |-> said[ch] = None \/ ~said[ch].fresh]
            IN
            /\ sinceChange' = [ch \in Channels |->
                  IF frame[ch].usable THEN Changed(ch, frame[ch], d)
                  ELSE IF sinceChange[ch] = NoChange THEN NoChange ELSE Older(sinceChange[ch], d)]
            /\ lastSample' = [ch \in Channels |-> Kept(ch, frame[ch], d)]
            /\ gapFor' = [ch \in Channels |-> Gap(ch, frame[ch], d)]
            /\ forcedOpen' = [ch \in Channels |-> Forced(ch, said[ch])]
            /\ sent' = [ch \in Channels |-> Message(said[ch], forcedOpen'[ch])]
            /\ live' = [ch \in Channels |-> IF frame[ch].usable /\ Changed(ch, frame[ch], d) = 0 THEN 0
                                            ELSE Older(live[ch], d)]
            /\ shook' = [ch \in Channels |->
                   ~dead[ch] /\ (shook[ch] \/ (frame[ch].usable /\ ~frame[ch].grip))]
      BY <1>1, Zenon DEF BridgeTick
    <3> QED
      BY <3>1 DEF Kept
  <2> DEFINE f(ch) == frame[ch]
             r(ch) == Resolved(ch, f(ch), d)
             c(ch) == Changed(ch, f(ch), d)
  <2>2. ASSUME NEW ch \in Channels
        PROVE  /\ sinceChange[ch] \in SampleAges \cup {NoChange} /\ gapFor[ch] \in 0..GapHold
               /\ live[ch] \in SampleAges /\ lastSample[ch] \in MappedSamples \cup {None}
               /\ f(ch) \in Frames /\ Older(live[ch], d) \in SampleAges
               /\ c(ch) \in SampleAges /\ Older(sinceChange[ch], d) \in Nat
    <3>1. sinceChange[ch] # NoChange => Older(sinceChange[ch], d) \in SampleAges
      BY <1>1, OlderGrows DEF BridgeType
    <3>2. 0 \in SampleAges
      BY BridgeAssumption DEF SampleAges, Oldest
    <3>3. Older(sinceChange[ch], d) \in Nat
      BY <1>1, <3>1, BridgeAssumption DEF BridgeType, SampleAges, Oldest, NoChange, Older
    <3> QED
      BY <1>1, <3>1, <3>2, <3>3, OlderGrows DEF BridgeType, Changed
  <2> HIDE DEF f
  <2>3. ASSUME NEW ch \in Channels
        PROVE  /\ r(ch) \in MappedSamples \cup {None}
               /\ f(ch).usable => r(ch) = [grip |-> f(ch).grip, fresh |-> c(ch) < FreshTimeout]
               /\ ~f(ch).usable /\ r(ch) # None =>
                    /\ r(ch) = lastSample[ch] /\ Gap(ch, f(ch), d) = GapNow(ch, d)
               /\ Gap(ch, f(ch), d) \in 0..GapHold /\ (f(ch).usable => Gap(ch, f(ch), d) = 0)
    <3>1. f(ch).usable => [grip |-> f(ch).grip, fresh |-> c(ch) < FreshTimeout] \in MappedSamples
      <4>1. f(ch).grip \in BOOLEAN
        BY <2>2 DEF Frames
      <4>2. (c(ch) < FreshTimeout) \in BOOLEAN
        BY BridgeAssumption
      <4> QED
        BY <4>1, <4>2, Zenon DEF MappedSamples
    <3>2. CASE f(ch).usable
      BY <2>2, <3>1, <3>2, BridgeAssumption DEF Resolved, Mapped, Gap
    <3>3. CASE ~f(ch).usable /\ Rides(ch, d)
      <4>1. r(ch) = lastSample[ch]
        BY <3>3 DEF Resolved
      <4>2. Gap(ch, f(ch), d) = GapNow(ch, d) /\ GapNow(ch, d) <= GapHold
        BY <3>3 DEF Rides, Gap
      <4>3. GapNow(ch, d) \in 0..GapHold
        BY <2>2, <4>2, BridgeAssumption DEF GapNow
      <4> QED
        BY <2>2, <3>3, <4>1, <4>2, <4>3
    <3>4. CASE ~f(ch).usable /\ ~Rides(ch, d)
      <4>1. r(ch) = None
        BY <3>4 DEF Resolved
      <4>2. Gap(ch, f(ch), d) = 0
        BY <3>4 DEF Gap
      <4> QED
        BY <2>2, <3>4, <4>1, <4>2, BridgeAssumption
    <3> QED
      BY <3>2, <3>3, <3>4
  <2>4. ASSUME NEW ch \in Channels
        PROVE  /\ lastSample'[ch] = r(ch) /\ gapFor'[ch] = Gap(ch, f(ch), d)
               /\ sinceChange'[ch] = IF f(ch).usable THEN c(ch)
                                     ELSE IF sinceChange[ch] = NoChange THEN NoChange
                                     ELSE Older(sinceChange[ch], d)
               /\ forcedOpen'[ch] = Forced(ch, r(ch)) /\ sent'[ch] = Message(r(ch), forcedOpen'[ch])
               /\ live'[ch] = IF f(ch).usable /\ c(ch) = 0 THEN 0 ELSE Older(live[ch], d)
               /\ shook'[ch] <=> /\ r(ch) # None /\ r(ch).fresh
                                 /\ shook[ch] \/ (f(ch).usable /\ ~f(ch).grip)
    BY <2>1 DEF f
  <2> HIDE DEF r, c
  <2>5. BridgeType'
    <3>1. sinceChange' \in [Channels -> SampleAges \cup {NoChange}]
      <4>1. \A ch \in Channels : sinceChange'[ch] \in SampleAges \cup {NoChange}
        BY <2>2, <2>4, OlderGrows
      <4> QED
        BY <2>1, <4>1
    <3>2. lastSample' \in [Channels -> MappedSamples \cup {None}]
      BY <2>1, <2>3, <2>4
    <3>3. gapFor' \in [Channels -> 0..GapHold]
      BY <2>1, <2>3, <2>4
    <3>4. forcedOpen' \in [Channels -> BOOLEAN]
      BY <1>1, <2>1 DEF BridgeType, Forced
    <3>5. live' \in [Channels -> SampleAges]
      <4>1. \A ch \in Channels : live'[ch] \in SampleAges
        BY <2>2, <2>4, BridgeAssumption DEF SampleAges, Oldest
      <4> QED
        BY <2>1, <4>1
    <3>6. shook' \in [Channels -> BOOLEAN]
      BY <2>1
    <3> QED
      BY <3>1, <3>2, <3>3, <3>4, <3>5, <3>6 DEF BridgeType
  <2>6. ASSUME NEW ch \in Channels
        PROVE  sinceChange'[ch] # NoChange => live'[ch] <= sinceChange'[ch]
    <3>1. f(ch).usable /\ c(ch) # 0 => /\ c(ch) = Older(sinceChange[ch], d) /\ sinceChange[ch] # NoChange
      BY <2>2 DEF c, Changed
    <3>2. sinceChange[ch] # NoChange => Older(live[ch], d) <= Older(sinceChange[ch], d)
      BY <1>1, <2>2, OlderGrows
    <3> QED
      BY <2>2, <2>4, <3>1, <3>2
  <2>7. ASSUME NEW ch \in Channels
        PROVE  r(ch) # None /\ r(ch).fresh => live'[ch] < FreshTimeout + gapFor'[ch] + Lateness(ch)'
    <3>1. CASE f(ch).usable
      <4>1. r(ch).fresh <=> c(ch) < FreshTimeout
        <5> DEFINE young == c(ch) < FreshTimeout
        <5>1. r(ch) = [grip |-> f(ch).grip, fresh |-> young]
          BY <2>3, <3>1, Zenon
        <5> HIDE DEF young
        <5>2. r(ch).fresh <=> young
          BY <5>1, SampleFields
        <5> QED
          BY <5>2 DEF young
      <4>2. c(ch) # NoChange
        BY <2>2, BridgeAssumption DEF SampleAges, NoChange, Oldest
      <4>3. live'[ch] <= c(ch) /\ gapFor'[ch] = 0
        BY <2>3, <2>4, <2>6, <3>1, <4>2
      <4>4. live'[ch] \in Nat /\ c(ch) \in Nat
        BY <2>2, <2>4, BridgeAssumption DEF SampleAges, Oldest
      <4> QED
        BY <4>1, <4>3, <4>4, BridgeAssumption DEF Lateness
    <3>2. CASE ~f(ch).usable
      <4>1. r(ch) # None /\ r(ch).fresh => live[ch] < FreshTimeout + gapFor[ch] + Lateness(ch)
        BY <1>1, <2>3, <3>2 DEF HasFresh
      <4>2. live'[ch] <= live[ch] + d /\ live[ch] \in Nat /\ live'[ch] \in Nat
        BY <2>2, <2>4, <3>2, OlderGrows, BridgeAssumption DEF SampleAges, Oldest
      <4>3. r(ch) # None => gapFor'[ch] = IF gapFor[ch] = 0 THEN 1 ELSE gapFor[ch] + d
        BY <2>3, <2>4, <3>2 DEF GapNow
      <4>4. gapFor[ch] \in Nat /\ d \in Nat /\ d >= 1 /\ d <= MaxTick
        BY <2>2, BridgeAssumption
      <4> QED
        BY <4>1, <4>2, <4>3, <4>4, BridgeAssumption DEF Lateness
    <3> QED
      BY <3>1, <3>2
  <2>8. ASSUME NEW ch \in Channels
        PROVE  r(ch) # None /\ r(ch).fresh /\ ~r(ch).grip => shook'[ch]
    BY <1>1, <2>3, <2>4 DEF HasFresh
  <2>9. ASSUME NEW ch \in Channels
        PROVE  ~forcedOpen'[ch] => r(ch) # None /\ r(ch).fresh /\ shook'[ch]
    <3>1. ~forcedOpen'[ch] => r(ch) # None /\ r(ch).fresh /\ (~r(ch).grip \/ ~forcedOpen[ch])
      BY <2>4 DEF Forced
    <3> QED
      BY <1>1, <2>4, <2>8, <3>1
  <2>10. DrivesLiveHand'
    <3> SUFFICES ASSUME NEW ch \in Channels, sent'[ch].engaged
                 PROVE  live'[ch] < Oldest /\ shook'[ch]
      BY DEF DrivesLiveHand
    <3>1. r(ch) # None /\ r(ch).fresh /\ ~forcedOpen'[ch]
      <4>1. sent'[ch] = Message(r(ch), forcedOpen'[ch])
        BY <2>4, Zenon
      <4> QED
        BY <4>1, MessageFields
    <3>2. live'[ch] < FreshTimeout + gapFor'[ch] + Lateness(ch)' /\ shook'[ch]
      BY <2>7, <2>9, <3>1
    <3>3. gapFor'[ch] \in 0..GapHold /\ live'[ch] \in Nat
      BY <2>5, BridgeAssumption DEF BridgeType, SampleAges, Oldest
    <3> QED
      BY <3>2, <3>3, BridgeAssumption DEF Oldest, Lateness
  <2> QED
    BY <2>4, <2>5, <2>6, <2>7, <2>8, <2>9, <2>10 DEF HasFresh
<1>2. ASSUME BridgeInv, UNCHANGED bridgeVars PROVE BridgeInv'
  BY <1>2 DEF BridgeInv, bridgeVars, BridgeType, HasFresh, DrivesLiveHand, Lateness
<1> QED
  BY <1>1, <1>2 DEF BridgeNext

-----------------------------------------------------------------------------
(* Teleoperation. *)

\* The turns of the loop that may publish; the others run once a fault is seen, or at the end.
LoopSteps == {"poll", "advance", "wire", "wire speed", "wire drive", "advance again", "keepalive",
              "fault", "recover"}
CleanPhases == {"idle", "acquired"}

ArmPhases == {"idle", "acquired", "active", "faulted"}
AnyArm == [phase : ArmPhases, holder : {"none", "me", "other"}, session : Nat]
TeleopType ==
    /\ arm \in AnyArm
    /\ armState \in [of : AnyArm, age : Ages, dq : Speeds, finite : BOOLEAN]

\* Whatever broke the step of hand and arm since the last edge of the clutch, the clutch knows it.
ClutchKnows ==
    /\ prevEngaged /\ gap => needRelatch \/ tripped
    /\ armed => released \/ tripped
    /\ does \in {"wire speed", "wire drive"} => armed \/ needRelatch
    /\ calm \/ tripped

\* In the loop a state and a target are of the session the arm is in.
OneSession ==
    does \in LoopSteps =>
      /\ armState.of.session = arm.session /\ lastTarget \in {NoTarget, arm.session}
      /\ armState.of.phase = "faulted" => arm.phase = "faulted"

\* From a fault on: no state reads active before the new session is, and then it is that one.
RecoveryOrder ==
    /\ does = "recover" => armState.of.phase = "faulted"
    /\ does = "await clean" =>
         /\ arm.phase # "active" /\ armState.of.phase # "active"
         /\ armState.of.phase # "faulted" => arm.phase \in CleanPhases
    /\ does \in {"acquire", "enable"} =>
         arm.phase \in CleanPhases /\ armState.of.phase \in CleanPhases
    /\ does = "await active" /\ armState.of.phase = "active" => armState.of.session = arm.session

TeleopInv ==
    TeleopType /\ ClutchKnows /\ OneSession /\ RecoveryOrder
    /\ DrivesInStep /\ FastJointHolds /\ TargetsOfThisSession

\* Teleoperation starts stopped, nothing latched.
LEMMA TeleopInitially == VrInit => TeleopInv
  BY SMTT(30) DEF VrInit, TeleopInv, TeleopType, AnyArm, ArmPhases, Ages, Speeds, ClutchKnows, OneSession,
         LoopSteps, RecoveryOrder, DrivesInStep, FastJointHolds, TargetsOfThisSession

\* Each step of the loop, of the node and of the operator keeps its invariant.
LEMMA TeleopStep == TeleopInv /\ [VrNext]_vrVars => TeleopInv'
<1> USE DEF TeleopInv
<1>0. CASE UNCHANGED vrVars
  BY <1>0 DEF vrVars, TeleopType, ClutchKnows, OneSession, RecoveryOrder, DrivesInStep,
              FastJointHolds, TargetsOfThisSession
<1> SUFFICES ASSUME TeleopInv, VrNext PROVE TeleopInv'
  BY <1>0
<1>1. CASE Poll
  <2> USE <1>1 DEF Poll, flags, histories
  <2>1. TeleopType'
    BY DEF TeleopType, AnyArm, ArmPhases, Ages, Speeds
  <2>2. ClutchKnows'
    BY DEF TeleopType, ClutchKnows
  <2>3. OneSession' /\ RecoveryOrder'
    BY DEF TeleopType, AnyArm, ArmPhases, OneSession, LoopSteps, RecoveryOrder, CleanPhases
  <2>4. DrivesInStep' /\ FastJointHolds'
    BY DEF TeleopType, ClutchKnows, DrivesInStep, FastJointHolds
  <2>5. TargetsOfThisSession'
    BY DEF TeleopType, OneSession, LoopSteps, TargetsOfThisSession
  <2> QED
    BY <2>1, <2>2, <2>3, <2>4, <2>5
<1>2. CASE AdvanceSample
  <2> USE <1>2 DEF AdvanceSample, Advance, JointSpeed, Seeded, Publish, Disarm, Broken, Recoverable, Trips, Resumes, FreshState, flags, histories
  <2>1. TeleopType'
    BY DEF TeleopType, AnyArm, ArmPhases, Ages, Speeds
  <2>2. ClutchKnows'
    BY DEF TeleopType, ClutchKnows
  <2>3. OneSession' /\ RecoveryOrder'
    BY DEF TeleopType, AnyArm, ArmPhases, OneSession, LoopSteps, RecoveryOrder, CleanPhases
  <2>4. DrivesInStep' /\ FastJointHolds'
    BY DEF TeleopType, ClutchKnows, DrivesInStep, FastJointHolds
  <2>5. TargetsOfThisSession'
    BY DEF TeleopType, OneSession, LoopSteps, TargetsOfThisSession
  <2> QED
    BY <2>1, <2>2, <2>3, <2>4, <2>5
<1>3. CASE AdvanceTurn
  <2> USE <1>3 DEF AdvanceTurn, Advance, JointSpeed, Seeded, Publish, Disarm, Broken, Recoverable, Trips, Resumes, FreshState, flags, histories
  <2>1. TeleopType'
    BY DEF TeleopType, AnyArm, ArmPhases, Ages, Speeds
  <2>2. ClutchKnows'
    <3>1. CASE Trips
      BY <3>1 DEF ClutchKnows
    <3>2. CASE Resumes
      BY <3>2 DEF ClutchKnows
    <3>3. CASE ~Trips /\ ~Resumes
      <4>1. UNCHANGED <<armed, needRelatch, prevEngaged, tripped, gap, released, calm>>
        BY <3>3, Zenon
      <4> QED
        BY <4>1 DEF ClutchKnows
    <3> QED
      BY <3>1, <3>2, <3>3
  <2>3. OneSession' /\ RecoveryOrder'
    BY DEF TeleopType, AnyArm, ArmPhases, OneSession, LoopSteps, RecoveryOrder, CleanPhases
  <2>4. DrivesInStep' /\ FastJointHolds'
    BY DEF TeleopType, ClutchKnows, DrivesInStep, FastJointHolds
  <2>5. TargetsOfThisSession'
    BY DEF TeleopType, OneSession, LoopSteps, TargetsOfThisSession
  <2> QED
    BY <2>1, <2>2, <2>3, <2>4, <2>5
<1>4. CASE OnWire
  <2> USE <1>4 DEF OnWire, KeepsFlags, Refuse, NotFresh, PutsNothing, Grips, flags, histories
  <2>1. TeleopType'
    BY DEF TeleopType, AnyArm, ArmPhases, Ages, Speeds
  <2>2. ClutchKnows'
    BY DEF TeleopType, ClutchKnows
  <2>3. OneSession' /\ RecoveryOrder'
    BY DEF TeleopType, AnyArm, ArmPhases, OneSession, LoopSteps, RecoveryOrder, CleanPhases
  <2>4. DrivesInStep' /\ FastJointHolds'
    BY DEF TeleopType, ClutchKnows, DrivesInStep, FastJointHolds
  <2>5. TargetsOfThisSession'
    BY DEF TeleopType, OneSession, LoopSteps, TargetsOfThisSession
  <2> QED
    BY <2>1, <2>2, <2>3, <2>4, <2>5
<1>5. CASE OnWireSpeed
  <2> USE <1>5 DEF OnWireSpeed, JointSpeed, Publish, Disarm, Broken, Recoverable, Trips, Resumes, FreshState, flags, histories
  <2>1. TeleopType'
    BY DEF TeleopType, AnyArm, ArmPhases, Ages, Speeds
  <2>2. ClutchKnows'
    <3>1. CASE Trips
      BY <3>1 DEF ClutchKnows
    <3>2. CASE Resumes
      BY <3>2 DEF ClutchKnows
    <3>3. CASE ~Trips /\ ~Resumes
      <4>1. UNCHANGED <<armed, needRelatch, prevEngaged, tripped, gap, released, calm>>
        BY <3>3, Zenon
      <4> QED
        BY <4>1 DEF ClutchKnows
    <3> QED
      BY <3>1, <3>2, <3>3
  <2>3. OneSession' /\ RecoveryOrder'
    BY DEF TeleopType, AnyArm, ArmPhases, OneSession, LoopSteps, RecoveryOrder, CleanPhases
  <2>4. DrivesInStep' /\ FastJointHolds'
    BY DEF TeleopType, ClutchKnows, DrivesInStep, FastJointHolds
  <2>5. TargetsOfThisSession'
    BY DEF TeleopType, OneSession, LoopSteps, TargetsOfThisSession
  <2> QED
    BY <2>1, <2>2, <2>3, <2>4, <2>5
<1>6. CASE OnWireDrive
  <2> USE <1>6 DEF OnWireDrive, KeepsFlags, Refuse, NoState, Drive, Publish, PutsNothing, Broken, Recoverable, FreshState, flags, histories
  <2>1. TeleopType'
    BY DEF TeleopType, AnyArm, ArmPhases, Ages, Speeds
  <2>2. ClutchKnows'
    BY DEF TeleopType, ClutchKnows
  <2>3. OneSession' /\ RecoveryOrder'
    BY DEF TeleopType, AnyArm, ArmPhases, OneSession, LoopSteps, RecoveryOrder, CleanPhases
  <2>4. DrivesInStep' /\ FastJointHolds'
    BY DEF TeleopType, ClutchKnows, DrivesInStep, FastJointHolds
  <2>5. TargetsOfThisSession'
    BY DEF TeleopType, OneSession, LoopSteps, TargetsOfThisSession
  <2> QED
    BY <2>1, <2>2, <2>3, <2>4, <2>5
<1>7. CASE Keepalive
  <2> USE <1>7 DEF Keepalive, Publish, PutsNothing, Recoverable, flags, histories
  <2>1. TeleopType'
    BY DEF TeleopType, AnyArm, ArmPhases, Ages, Speeds
  <2>2. ClutchKnows'
    BY DEF TeleopType, ClutchKnows
  <2>3. OneSession' /\ RecoveryOrder'
    BY DEF TeleopType, AnyArm, ArmPhases, OneSession, LoopSteps, RecoveryOrder, CleanPhases
  <2>4. DrivesInStep' /\ FastJointHolds'
    BY DEF TeleopType, ClutchKnows, DrivesInStep, FastJointHolds
  <2>5. TargetsOfThisSession'
    BY DEF TeleopType, OneSession, LoopSteps, TargetsOfThisSession
  <2> QED
    BY <2>1, <2>2, <2>3, <2>4, <2>5
<1>8. CASE FaultCheck
  <2> USE <1>8 DEF FaultCheck, PutsNothing, Recoverable, Fault, StateLost, flags, histories
  <2>1. TeleopType'
    BY DEF TeleopType, AnyArm, ArmPhases, Ages, Speeds
  <2>2. ClutchKnows'
    BY DEF TeleopType, ClutchKnows
  <2>3. OneSession' /\ RecoveryOrder'
    BY DEF TeleopType, AnyArm, ArmPhases, OneSession, LoopSteps, RecoveryOrder, CleanPhases
  <2>4. DrivesInStep' /\ FastJointHolds'
    BY DEF TeleopType, ClutchKnows, DrivesInStep, FastJointHolds
  <2>5. TargetsOfThisSession'
    BY DEF TeleopType, OneSession, LoopSteps, TargetsOfThisSession
  <2> QED
    BY <2>1, <2>2, <2>3, <2>4, <2>5
<1>9. CASE Recover
  <2> USE <1>9 DEF Recover, PutsNothing, Disarm, Disarmed, Broken, flags, histories
  <2>1. TeleopType'
    BY DEF TeleopType, AnyArm, ArmPhases, Ages, Speeds
  <2>2. ClutchKnows'
    BY DEF TeleopType, ClutchKnows
  <2>3. OneSession' /\ RecoveryOrder'
    BY DEF TeleopType, AnyArm, ArmPhases, OneSession, LoopSteps, RecoveryOrder, CleanPhases
  <2>4. DrivesInStep' /\ FastJointHolds'
    BY DEF TeleopType, ClutchKnows, DrivesInStep, FastJointHolds
  <2>5. TargetsOfThisSession'
    BY DEF TeleopType, OneSession, LoopSteps, TargetsOfThisSession
  <2> QED
    BY <2>1, <2>2, <2>3, <2>4, <2>5
<1>10. CASE AwaitClean
  <2> USE <1>10 DEF AwaitClean, PutsNothing, flags, histories
  <2>1. TeleopType'
    BY DEF TeleopType, AnyArm, ArmPhases, Ages, Speeds
  <2>2. ClutchKnows'
    BY DEF TeleopType, ClutchKnows
  <2>3. OneSession' /\ RecoveryOrder'
    BY DEF TeleopType, AnyArm, ArmPhases, OneSession, LoopSteps, RecoveryOrder, CleanPhases
  <2>4. DrivesInStep' /\ FastJointHolds'
    BY DEF TeleopType, ClutchKnows, DrivesInStep, FastJointHolds
  <2>5. TargetsOfThisSession'
    BY DEF TeleopType, OneSession, LoopSteps, TargetsOfThisSession
  <2> QED
    BY <2>1, <2>2, <2>3, <2>4, <2>5
<1>11. CASE AcquireVerb
  <2> USE <1>11 DEF AcquireVerb, PutsNothing, flags, histories
  <2>1. TeleopType'
    BY DEF TeleopType, AnyArm, ArmPhases, Ages, Speeds
  <2>2. ClutchKnows'
    BY DEF TeleopType, ClutchKnows
  <2>3. OneSession' /\ RecoveryOrder'
    BY DEF TeleopType, AnyArm, ArmPhases, OneSession, LoopSteps, RecoveryOrder, CleanPhases
  <2>4. DrivesInStep' /\ FastJointHolds'
    BY DEF TeleopType, ClutchKnows, DrivesInStep, FastJointHolds
  <2>5. TargetsOfThisSession'
    BY DEF TeleopType, OneSession, LoopSteps, TargetsOfThisSession
  <2> QED
    BY <2>1, <2>2, <2>3, <2>4, <2>5
<1>12. CASE EnableVerb
  <2> USE <1>12 DEF EnableVerb, PutsNothing, flags, histories
  <2>1. TeleopType'
    <3>1. arm.session \in Nat
      BY Zenon DEF TeleopType, AnyArm
    <3>2. arm' = arm \/ arm' = [arm EXCEPT !.phase = "active", !.session = arm.session + 1]
      BY DEF TeleopType
    <3>3. arm' \in AnyArm
      <4>0. arm \in AnyArm
        BY DEF TeleopType
      <4> HIDE <1>12 DEF EnableVerb, TeleopInv
      <4>1. arm.session + 1 \in Nat
        BY <3>1
      <4> QED
        BY <3>2, <4>0, <4>1 DEF AnyArm, ArmPhases
    <3> QED
      BY <3>3 DEF TeleopType
  <2>2. ClutchKnows'
    BY DEF TeleopType, ClutchKnows
  <2>3. OneSession' /\ RecoveryOrder'
    BY DEF TeleopType, AnyArm, ArmPhases, OneSession, LoopSteps, RecoveryOrder, CleanPhases
  <2>4. DrivesInStep' /\ FastJointHolds'
    BY DEF TeleopType, ClutchKnows, DrivesInStep, FastJointHolds
  <2>5. TargetsOfThisSession'
    BY DEF TeleopType, OneSession, LoopSteps, TargetsOfThisSession
  <2> QED
    BY <2>1, <2>2, <2>3, <2>4, <2>5
<1>13. CASE AwaitActive
  <2> USE <1>13 DEF AwaitActive, SeedOfNewSession, flags, histories
  <2>1. TeleopType'
    BY DEF TeleopType, AnyArm, ArmPhases, Ages, Speeds
  <2>2. ClutchKnows'
    BY DEF TeleopType, ClutchKnows
  <2>3. OneSession' /\ RecoveryOrder'
    BY DEF TeleopType, AnyArm, ArmPhases, OneSession, LoopSteps, RecoveryOrder, CleanPhases
  <2>4. DrivesInStep' /\ FastJointHolds'
    BY DEF TeleopType, ClutchKnows, DrivesInStep, FastJointHolds
  <2>5. TargetsOfThisSession'
    BY DEF TeleopType, OneSession, LoopSteps, TargetsOfThisSession
  <2> QED
    BY <2>1, <2>2, <2>3, <2>4, <2>5
<1>14. CASE StopArm
  <2> USE <1>14 DEF StopArm, PutsNothing, flags, histories
  <2>1. TeleopType'
    BY DEF TeleopType, AnyArm, ArmPhases, Ages, Speeds
  <2>2. ClutchKnows'
    BY DEF TeleopType, ClutchKnows
  <2>3. OneSession' /\ RecoveryOrder'
    BY DEF TeleopType, AnyArm, ArmPhases, OneSession, LoopSteps, RecoveryOrder, CleanPhases
  <2>4. DrivesInStep' /\ FastJointHolds'
    BY DEF TeleopType, ClutchKnows, DrivesInStep, FastJointHolds
  <2>5. TargetsOfThisSession'
    BY DEF TeleopType, OneSession, LoopSteps, TargetsOfThisSession
  <2> QED
    BY <2>1, <2>2, <2>3, <2>4, <2>5
<1>15. CASE ReleaseVerb
  <2> USE <1>15 DEF ReleaseVerb, PutsNothing, Close, flags, histories
  <2>1. TeleopType'
    BY DEF TeleopType, AnyArm, ArmPhases, Ages, Speeds
  <2>2. ClutchKnows'
    BY DEF TeleopType, ClutchKnows
  <2>3. OneSession' /\ RecoveryOrder'
    BY DEF TeleopType, AnyArm, ArmPhases, OneSession, LoopSteps, RecoveryOrder, CleanPhases
  <2>4. DrivesInStep' /\ FastJointHolds'
    BY DEF TeleopType, ClutchKnows, DrivesInStep, FastJointHolds
  <2>5. TargetsOfThisSession'
    BY DEF TeleopType, OneSession, LoopSteps, TargetsOfThisSession
  <2> QED
    BY <2>1, <2>2, <2>3, <2>4, <2>5
<1>16. CASE HoldEnds
  <2> USE <1>16 DEF HoldEnds, PutsNothing, flags, histories
  <2>1. TeleopType'
    BY DEF TeleopType, AnyArm, ArmPhases, Ages, Speeds
  <2>2. ClutchKnows'
    BY DEF TeleopType, ClutchKnows
  <2>3. OneSession' /\ RecoveryOrder'
    BY DEF TeleopType, AnyArm, ArmPhases, OneSession, LoopSteps, RecoveryOrder, CleanPhases
  <2>4. DrivesInStep' /\ FastJointHolds'
    BY DEF TeleopType, ClutchKnows, DrivesInStep, FastJointHolds
  <2>5. TargetsOfThisSession'
    BY DEF TeleopType, OneSession, LoopSteps, TargetsOfThisSession
  <2> QED
    BY <2>1, <2>2, <2>3, <2>4, <2>5
<1>17. CASE SourceQuiet
  <2> USE <1>17 DEF SourceQuiet, PutsNothing, flags, histories
  <2>1. TeleopType'
    BY DEF TeleopType, AnyArm, ArmPhases, Ages, Speeds
  <2>2. ClutchKnows'
    BY DEF TeleopType, ClutchKnows
  <2>3. OneSession' /\ RecoveryOrder'
    BY DEF TeleopType, AnyArm, ArmPhases, OneSession, LoopSteps, RecoveryOrder, CleanPhases
  <2>4. DrivesInStep' /\ FastJointHolds'
    BY DEF TeleopType, ClutchKnows, DrivesInStep, FastJointHolds
  <2>5. TargetsOfThisSession'
    BY DEF TeleopType, OneSession, LoopSteps, TargetsOfThisSession
  <2> QED
    BY <2>1, <2>2, <2>3, <2>4, <2>5
<1>18. CASE VrStateArrives
  <2> USE <1>18 DEF VrStateArrives, PutsNothing, flags, histories
  <2>0. PICK speed \in Speeds, finite \in BOOLEAN :
          armState' = [of |-> arm, age |-> "fresh", dq |-> speed, finite |-> finite]
    BY Zenon DEF Speeds
  <2>a. armState' \in [of : AnyArm, age : Ages, dq : Speeds, finite : BOOLEAN]
    BY <2>0, "fresh" \in Ages, Zenon DEF TeleopType, Ages
  <2>b. armState'.of = arm
    BY <2>0
  <2>1. TeleopType'
    BY <2>a DEF TeleopType
  <2>2. ClutchKnows'
    BY DEF TeleopType, ClutchKnows
  <2>3. OneSession' /\ RecoveryOrder'
    BY <2>b DEF TeleopType, AnyArm, ArmPhases, OneSession, LoopSteps, RecoveryOrder, CleanPhases
  <2>4. DrivesInStep' /\ FastJointHolds'
    BY DEF TeleopType, ClutchKnows, DrivesInStep, FastJointHolds
  <2>5. TargetsOfThisSession'
    BY DEF TeleopType, OneSession, LoopSteps, TargetsOfThisSession
  <2> QED
    BY <2>1, <2>2, <2>3, <2>4, <2>5
<1>19. CASE StatesStop
  <2> USE <1>19 DEF StatesStop, PutsNothing, flags, histories
  <2>1. TeleopType'
    BY DEF TeleopType, AnyArm, ArmPhases, Ages, Speeds
  <2>2. ClutchKnows'
    BY DEF TeleopType, ClutchKnows
  <2>3. OneSession' /\ RecoveryOrder'
    BY DEF TeleopType, AnyArm, ArmPhases, OneSession, LoopSteps, RecoveryOrder, CleanPhases
  <2>4. DrivesInStep' /\ FastJointHolds'
    BY DEF TeleopType, ClutchKnows, DrivesInStep, FastJointHolds
  <2>5. TargetsOfThisSession'
    BY DEF TeleopType, OneSession, LoopSteps, TargetsOfThisSession
  <2> QED
    BY <2>1, <2>2, <2>3, <2>4, <2>5
<1>20. CASE ArmActs
  <2> USE <1>20 DEF ArmActs, PutsNothing, flags, histories
  <2>1. TeleopType'
    BY DEF TeleopType, AnyArm, ArmPhases, Ages, Speeds
  <2>2. ClutchKnows'
    BY DEF TeleopType, ClutchKnows
  <2>3. OneSession' /\ RecoveryOrder'
    BY DEF TeleopType, AnyArm, ArmPhases, OneSession, LoopSteps, RecoveryOrder, CleanPhases
  <2>4. DrivesInStep' /\ FastJointHolds'
    BY DEF TeleopType, ClutchKnows, DrivesInStep, FastJointHolds
  <2>5. TargetsOfThisSession'
    BY DEF TeleopType, OneSession, LoopSteps, TargetsOfThisSession
  <2> QED
    BY <2>1, <2>2, <2>3, <2>4, <2>5
<1> QED
  BY <1>1, <1>2, <1>3, <1>4, <1>5, <1>6, <1>7, <1>8, <1>9, <1>10, <1>11, <1>12, <1>13, <1>14, <1>15, <1>16, <1>17, <1>18, <1>19, <1>20 DEF VrNext, LoopNext

(* Teleoperation moves the arm only by a live hand that is in step with    *)
(* it, after every fault anew, and from the target of the session it is in *)
(* (_update_forced_open, RULES 1-7, recover).                              *)
THEOREM TeleopIsSafe == ClientsSpec => []TeleopSafety
<1>1. ClientsInit => BridgeInv /\ TeleopInv
  BY BridgeInitially, TeleopInitially DEF ClientsInit
<1>2. BridgeInv /\ [ClientsNext]_clientsVars => BridgeInv'
  <2>1. [ClientsNext]_clientsVars => [BridgeNext]_bridgeVars
    BY DEF ClientsNext, clientsVars
  <2> QED
    BY <2>1, BridgeStep
<1>3. TeleopInv /\ [ClientsNext]_clientsVars => TeleopInv'
  <2>1. [ClientsNext]_clientsVars => [VrNext]_vrVars
    BY DEF ClientsNext, clientsVars
  <2> QED
    BY <2>1, TeleopStep
<1>4. BridgeInv /\ TeleopInv => TeleopSafety
  BY DEF BridgeInv, TeleopInv, TeleopSafety
<1> QED
  BY <1>1, <1>2, <1>3, <1>4, PTL DEF ClientsSpec

-----------------------------------------------------------------------------
(* The sessions of an arm. *)

ObjectCount == Cardinality(Objects)
Streaming == call.next \in {"enable", "confirm"}

SessionTypes ==
    /\ made \in 0..ObjectCount /\ (session = NoObject \/ (session = made /\ made > 0))
    /\ ended \in [Objects -> {"no", "node", "lost", "never"}]
    /\ halted \in [Objects -> BOOLEAN] /\ stopped \in [Objects -> BOOLEAN]
    /\ node \in NodeStates

\* What the client has yet to see ends in what the arm is.
StatesKept == states \in Seq(NodeStates) /\ states # <<>>

\* A session of this client runs on an arm the client holds, and no later one than was made.
RunsHere == node.of # NoObject => Mine(node) /\ node.of \in 1..made

\* Which session a call is about, and how far that one is.
CallsAt ==
    /\ Streaming => /\ call.of = made /\ made > 0 /\ session = made
                    /\ ~stopped[made] /\ ended[made] = "no"
    /\ call.next = "judge" => /\ call.of \in 1..made /\ halted[call.of] /\ ~stopped[call.of]
                              /\ ended[call.of] # "never"
    /\ call.next = "verb" => call.of = made /\ made > 0 /\ stopped[made] /\ ended[made] # "never"

\* A session that is not done is the client's newest, and the client's own till it is stopped.
NewestOnly ==
    /\ \A o \in 1..made : ~Done(o) => o = session
    /\ made > 0 /\ ~stopped[made] /\ ended[made] # "never" => session = made
    /\ \A o \in Objects : o > made => ~stopped[o] /\ ended[o] = "no"

\* What the node runs, as far as no late state told of a session's end.
NodeRuns ==
    made > 0 =>
      /\ ended[made] = "node" /\ made \notin misled => node.of # made
      /\ stopped[made] /\ made \notin failed \cup misled /\ call.next # "verb" => node.of # made
      /\ ended[made] # "never" /\ call.next # "enable" => node.of \in {made, NoObject}

SessionInv == StatesKept /\ SessionTypes /\ RunsHere /\ CallsAt /\ NewestOnly /\ NodeRuns

\* The objects of a session are numbered, none is 0.
LEMMA ObjectNumbers ==
    /\ ObjectCount \in Nat /\ NoObject \notin Objects
    /\ \A o : o \in Objects <=> o \in 1..ObjectCount
  BY ObjectsAssumption, FS_CardinalityType DEF ObjectCount

\* A state that is published is the arm's, and one that comes does not change it.
LEMMA Publishes ==
    ASSUME StatesKept, NEW state \in NodeStates, Shows(state)
    PROVE  StatesKept' /\ node' = state
<1>1. CASE state = node
  BY <1>1 DEF StatesKept, Shows, node
<1>2. CASE state # node
  BY <1>2 DEF StatesKept, Shows, node
<1> QED
  BY <1>1, <1>2

LEMMA Arriving == StatesKept /\ SessionStateArrives => StatesKept' /\ node' = node
<1> SUFFICES ASSUME StatesKept, SessionStateArrives PROVE StatesKept' /\ node' = node
  OBVIOUS
<1> DEFINE S == NodeStates
<1>1. states \in Seq(S) /\ states # <<>>
  BY DEF StatesKept
<1>2. PICK n \in 2..Len(states) : states' = SubSeq(states, n, Len(states))
  BY DEF SessionStateArrives
<1> HIDE DEF S
<1>3. Len(states) \in Nat /\ n \in 1..Len(states) /\ \A i \in 1..Len(states) : states[i] \in S
  BY <1>1, <1>2
<1>4. /\ Len(states') = Len(states) - n + 1
      /\ \A i \in 1..(Len(states) - n + 1) : states'[i] = states[n + i - 1]
      /\ states' \in Seq(S)
  BY <1>1, <1>2, <1>3, SubSeqProperties
<1>5. states' # <<>> /\ states'[Len(states')] = states[Len(states)]
  BY <1>3, <1>4
<1> QED
  BY <1>4, <1>5 DEF StatesKept, S, node

\* A session is not taken for ended without cause, and a state of it on its way tells why.
LEMMA JudgedSays ==
    ASSUME StatesKept, NEW o, Judged(o)
    PROVE  misled \subseteq misled' /\ (Mine(lastState) \/ o \in misled' \/ node.of # o)
<1>1. Len(states) \in DOMAIN states
  BY DEF StatesKept
<1> QED
  BY <1>1, Zenon DEF Judged, node

\* No session object exists at the start.
LEMMA SessionInitially == SessionInit => SessionInv
<1> SUFFICES ASSUME SessionInit PROVE SessionInv
  OBVIOUS
<1>1. Idle \in NodeStates
  BY DEF Idle, NodeStates
<1>2. StatesKept /\ node = Idle
  BY <1>1 DEF SessionInit, StatesKept, node
<1> QED
  BY ObjectNumbers, <1>1, <1>2
     DEF SessionInit, Idle, SessionInv, SessionTypes, RunsHere, CallsAt, Streaming,
         NewestOnly, NodeRuns

\* Each verb, answer, claim and stop keeps the sessions' invariant.
LEMMA SessionStep == SessionInv /\ [SessionNext]_sessionVars => SessionInv'
<1> USE ObjectNumbers DEF SessionInv
<1>0. CASE UNCHANGED sessionVars
  <2> SUFFICES ASSUME SessionInv PROVE SessionInv'
    OBVIOUS
  <2>n. node' = node /\ StatesKept'
    BY <1>0 DEF sessionVars, node, StatesKept
  <2>1. SessionTypes' /\ RunsHere'
    BY <1>0, <2>n DEF sessionVars, SessionTypes, RunsHere, Mine
  <2>2. CallsAt' /\ NewestOnly'
    BY <1>0 DEF sessionVars, CallsAt, Streaming, NewestOnly, Done
  <2>3. NodeRuns'
    BY <1>0, <2>n DEF sessionVars, NodeRuns, Streaming
  <2> QED
    BY <2>n, <2>1, <2>2, <2>3
<1> SUFFICES ASSUME SessionInv, SessionNext PROVE SessionInv'
  BY <1>0
<1>1. CASE Acquire
  <2> USE <1>1 DEF Acquire, Goes
  <2>n. node' = node /\ StatesKept'
    BY DEF node, StatesKept
  <2>1. SessionTypes'
    BY <2>n DEF SessionTypes, NodeStates
  <2>2. RunsHere'
    BY <2>n DEF SessionTypes, NodeStates, RunsHere, Mine
  <2>3. CallsAt'
    BY <2>n DEF SessionTypes, CallsAt, Streaming
  <2>4. NewestOnly'
    BY <2>n DEF SessionTypes, NewestOnly, Done, CallsAt, Streaming
  <2>5. NodeRuns'
    BY <2>n DEF SessionTypes, NodeStates, RunsHere, Mine, CallsAt, Streaming, NewestOnly, Done, NodeRuns
  <2> QED
    BY <2>n, <2>1, <2>2, <2>3, <2>4, <2>5
<1>2. CASE Acquired
  <2> USE <1>2 DEF Acquired, Returns, Goes, Acquirable
  <2>n. node' = ([phase |-> "acquired", holder |-> "me", of |-> NoObject]) /\ StatesKept'
    <3>1. ([phase |-> "acquired", holder |-> "me", of |-> NoObject]) \in NodeStates
      BY DEF SessionTypes, NodeStates, Stopped
    <3> QED
      BY <3>1, Publishes
  <2>1. SessionTypes'
    BY <2>n DEF SessionTypes, NodeStates
  <2>2. RunsHere'
    BY <2>n DEF SessionTypes, NodeStates, RunsHere, Mine
  <2>3. CallsAt'
    BY <2>n DEF SessionTypes, CallsAt, Streaming
  <2>4. NewestOnly'
    BY <2>n DEF SessionTypes, NewestOnly, Done, CallsAt, Streaming
  <2>5. NodeRuns'
    BY <2>n DEF SessionTypes, NodeStates, RunsHere, Mine, CallsAt, Streaming, NewestOnly, Done, NodeRuns
  <2> QED
    BY <2>n, <2>1, <2>2, <2>3, <2>4, <2>5
<1>3. CASE AcquireRaises
  <2> USE <1>3 DEF AcquireRaises, Returns, Goes
  <2>n. node' = node /\ StatesKept'
    BY DEF node, StatesKept
  <2>1. SessionTypes'
    BY <2>n DEF SessionTypes, NodeStates
  <2>2. RunsHere'
    BY <2>n DEF SessionTypes, NodeStates, RunsHere, Mine
  <2>3. CallsAt'
    BY <2>n DEF SessionTypes, CallsAt, Streaming
  <2>4. NewestOnly'
    BY <2>n DEF SessionTypes, NewestOnly, Done, CallsAt, Streaming
  <2>5. NodeRuns'
    BY <2>n DEF SessionTypes, NodeStates, RunsHere, Mine, CallsAt, Streaming, NewestOnly, Done, NodeRuns
  <2> QED
    BY <2>n, <2>1, <2>2, <2>3, <2>4, <2>5
<1>4. CASE Claim
  <2> USE <1>4 DEF Claim, Claimable, Goes
  <2>n. node' = node /\ StatesKept'
    BY DEF node, StatesKept
  <2>0. made \in Nat /\ made' = made + 1 /\ made' \in Objects /\ session' = made'
    BY DEF SessionTypes, ObjectCount
  <2>a. ended[made'] = "no" /\ ~stopped[made'] /\ node.of # made'
    BY <2>0 DEF NewestOnly, RunsHere
  <2>1. SessionTypes'
    BY <2>n, <2>0 DEF SessionTypes, NodeStates
  <2>2. RunsHere'
    BY <2>n DEF SessionTypes, NodeStates, RunsHere, Mine
  <2>3. CallsAt'
    BY <2>n, <2>0, <2>a DEF CallsAt, Streaming
  <2>4. NewestOnly'
    BY <2>n DEF SessionTypes, NewestOnly, Done, CallsAt, Streaming
  <2>5. NodeRuns'
    BY <2>n, <2>0, <2>a DEF SessionTypes, NodeStates, RunsHere, Mine, CallsAt, Streaming, NewestOnly, Done, NodeRuns
  <2> QED
    BY <2>n, <2>1, <2>2, <2>3, <2>4, <2>5
<1>5. CASE Enable
  <2> USE <1>5 DEF Enable, Goes
  <2>n. node' = [node EXCEPT !.phase = "active", !.of = call.of] /\ StatesKept'
    <3>1. call.of \in Objects
      BY DEF SessionTypes, CallsAt, Streaming
    <3>2. [node EXCEPT !.phase = "active", !.of = call.of] \in NodeStates
      BY <3>1 DEF SessionTypes, NodeStates
    <3> QED
      BY <3>2, Publishes
  <2>0. made \in Objects /\ call.of = made
    BY DEF SessionTypes, CallsAt, Streaming
  <2>a. node' = node \/ node' = [node EXCEPT !.phase = "active", !.of = made]
    BY <2>0, <2>n
  <2>b. node' \in NodeStates
    BY <2>0, <2>a DEF SessionTypes, NodeStates
  <2>1. SessionTypes'
    BY <2>n, <2>0, <2>b DEF SessionTypes
  <2>2. RunsHere'
    BY <2>n, <2>0, <2>a DEF SessionTypes, NodeStates, RunsHere, Mine
  <2>3. CallsAt'
    BY <2>n DEF SessionTypes, CallsAt, Streaming
  <2>4. NewestOnly'
    BY <2>n DEF SessionTypes, NewestOnly, Done, CallsAt, Streaming
  <2>5. NodeRuns'
    BY <2>n DEF SessionTypes, NodeStates, RunsHere, Mine, CallsAt, Streaming, NewestOnly, Done, NodeRuns
  <2> QED
    BY <2>n, <2>1, <2>2, <2>3, <2>4, <2>5
<1>6. CASE EnableRaises
  <2> USE <1>6 DEF EnableRaises, Returns, Goes
  <2>n. /\ StatesKept'
        /\ \/ node' = node
           \/ node.holder = "me" /\ node' = [node EXCEPT !.phase = "active", !.of = call.of]
    <3>1. call.of \in Objects
      BY DEF SessionTypes, CallsAt, Streaming
    <3>2. node \in NodeStates /\ [node EXCEPT !.phase = "active", !.of = call.of] \in NodeStates
      BY <3>1 DEF SessionTypes, NodeStates
    <3>3. CASE UNCHANGED states
      BY <3>3 DEF node, StatesKept
    <3>4. CASE Shows(node)
      BY <3>2, <3>4, Publishes
    <3>5. CASE node.holder = "me" /\ Shows([node EXCEPT !.phase = "active", !.of = call.of])
      BY <3>2, <3>5, Publishes
    <3> QED
      BY <3>3, <3>4, <3>5, Zenon
  <2>0. made \in Objects /\ call.of = made
    BY DEF SessionTypes, CallsAt, Streaming
  <2>a. \/ node' = node
        \/ node.holder = "me" /\ node' = [node EXCEPT !.phase = "active", !.of = made]
    BY <2>0, <2>n
  <2>b. node' \in NodeStates
    BY <2>0, <2>a DEF SessionTypes, NodeStates
  <2>1. SessionTypes'
    BY <2>n, <2>0, <2>b DEF SessionTypes
  <2>2. RunsHere'
    <3>1. CASE node' = node
      BY <3>1 DEF RunsHere, Mine
    <3>2. CASE node.holder = "me" /\ node' = [node EXCEPT !.phase = "active", !.of = made]
      <4>1. node'.phase = "active" /\ node'.holder = "me" /\ node'.of = made
        BY <3>2 DEF SessionTypes, NodeStates
      <4> QED
        BY <2>0, <4>1 DEF SessionTypes, RunsHere, Mine
    <3> QED
      BY <2>a, <3>1, <3>2
  <2>3. CallsAt'
    BY <2>n DEF SessionTypes, CallsAt, Streaming
  <2>4. NewestOnly'
    BY <2>n DEF SessionTypes, NewestOnly, Done, CallsAt, Streaming
  <2>5. NodeRuns'
    BY <2>n DEF SessionTypes, NodeStates, RunsHere, Mine, CallsAt, Streaming, NewestOnly, Done, NodeRuns
  <2> QED
    BY <2>n, <2>1, <2>2, <2>3, <2>4, <2>5
<1>7. CASE Confirmed
  <2> USE <1>7 DEF Confirmed, Returns, Goes
  <2>n. node' = node /\ StatesKept'
    BY DEF node, StatesKept
  <2>1. SessionTypes'
    BY <2>n DEF SessionTypes, NodeStates
  <2>2. RunsHere'
    BY <2>n DEF SessionTypes, NodeStates, RunsHere, Mine
  <2>3. CallsAt'
    BY <2>n DEF SessionTypes, CallsAt, Streaming
  <2>4. NewestOnly'
    BY <2>n DEF SessionTypes, NewestOnly, Done, CallsAt, Streaming
  <2>5. NodeRuns'
    BY <2>n DEF SessionTypes, NodeStates, RunsHere, Mine, CallsAt, Streaming, NewestOnly, Done, NodeRuns
  <2> QED
    BY <2>n, <2>1, <2>2, <2>3, <2>4, <2>5
<1>8. CASE NotConfirmed
  <2> USE <1>8 DEF NotConfirmed, Returns, Goes, Stopped
  <2>n. (node' = node \/ node' = (IF node.phase = "active" THEN Stopped ELSE node)) /\ StatesKept'
    <3>1. (IF node.phase = "active" THEN Stopped ELSE node) \in NodeStates
      BY DEF SessionTypes, NodeStates
    <3>2. CASE UNCHANGED states
      BY <3>2 DEF node, StatesKept
    <3>3. CASE Shows(IF node.phase = "active" THEN Stopped ELSE node)
      BY <3>1, <3>3, Publishes
    <3> QED
      BY <3>2, <3>3, Zenon
  <2>1. SessionTypes'
    BY <2>n DEF SessionTypes, NodeStates
  <2>2. RunsHere'
    BY <2>n DEF SessionTypes, NodeStates, RunsHere, Mine
  <2>3. CallsAt'
    BY <2>n DEF SessionTypes, CallsAt, Streaming
  <2>4. NewestOnly'
    BY <2>n DEF SessionTypes, NewestOnly, Done, CallsAt, Streaming
  <2>5. NodeRuns'
    BY <2>n DEF SessionTypes, NodeStates, RunsHere, Mine, CallsAt, Streaming, NewestOnly, Done, NodeRuns
  <2> QED
    BY <2>n, <2>1, <2>2, <2>3, <2>4, <2>5
<1>9. ASSUME NEW o \in Objects, Observe(o) PROVE SessionInv'
  <2> USE <1>9 DEF Observe, Streams
  <2>n. node' = node /\ StatesKept'
    BY DEF node, StatesKept
  <2>j. misled \subseteq misled' /\ (Mine(lastState) \/ o \in misled' \/ node.of # o)
    BY JudgedSays
  <2>1. SessionTypes'
    BY <2>n DEF SessionTypes, NodeStates
  <2>2. RunsHere'
    BY <2>n DEF SessionTypes, NodeStates, RunsHere, Mine
  <2>3. CallsAt'
    BY <2>n DEF SessionTypes, CallsAt, Streaming
  <2>4. NewestOnly'
    BY <2>n DEF SessionTypes, NewestOnly, Done, CallsAt, Streaming
  <2>5. NodeRuns'
    BY <2>n, <2>j DEF SessionTypes, NodeStates, RunsHere, Mine, CallsAt, Streaming, NewestOnly, Done, NodeRuns
  <2> QED
    BY <2>n, <2>1, <2>2, <2>3, <2>4, <2>5
<1>10. ASSUME NEW o \in Objects, LoseTheNode(o) PROVE SessionInv'
  <2> USE <1>10 DEF LoseTheNode, Streams
  <2>n. node' = node /\ StatesKept'
    BY DEF node, StatesKept
  <2>1. SessionTypes'
    BY <2>n DEF SessionTypes, NodeStates
  <2>2. RunsHere'
    BY <2>n DEF SessionTypes, NodeStates, RunsHere, Mine
  <2>3. CallsAt'
    BY <2>n DEF SessionTypes, CallsAt, Streaming
  <2>4. NewestOnly'
    BY <2>n DEF SessionTypes, NewestOnly, Done, CallsAt, Streaming
  <2>5. NodeRuns'
    BY <2>n DEF SessionTypes, NodeStates, RunsHere, Mine, CallsAt, Streaming, NewestOnly, Done, NodeRuns
  <2> QED
    BY <2>n, <2>1, <2>2, <2>3, <2>4, <2>5
<1>11. ASSUME NEW o \in Objects, NEW leaves, StopHalts(o, leaves) PROVE SessionInv'
  <2> USE <1>11 DEF StopHalts, Goes
  <2>n. node' = node /\ StatesKept'
    BY DEF node, StatesKept
  <2>1. SessionTypes'
    BY <2>n DEF SessionTypes, NodeStates
  <2>2. RunsHere'
    BY <2>n DEF SessionTypes, NodeStates, RunsHere, Mine
  <2>3. CallsAt'
    BY <2>n DEF SessionTypes, CallsAt, Streaming
  <2>4. NewestOnly'
    BY <2>n DEF SessionTypes, NewestOnly, Done, CallsAt, Streaming
  <2>5. NodeRuns'
    BY <2>n DEF SessionTypes, NodeStates, RunsHere, Mine, CallsAt, Streaming, NewestOnly, Done, NodeRuns
  <2> QED
    BY <2>n, <2>1, <2>2, <2>3, <2>4, <2>5
<1>12. CASE StopJudges
  <2> USE <1>12 DEF StopJudges, Goes, AfterStop, Own
  <2>n. node' = node /\ StatesKept'
    BY DEF node, StatesKept
  <2>j. misled \subseteq misled' /\ (Mine(lastState) \/ call.of \in misled' \/ node.of # call.of)
    BY JudgedSays
  <2>1. SessionTypes'
    BY <2>n DEF SessionTypes, NodeStates
  <2>2. RunsHere'
    BY <2>n DEF SessionTypes, NodeStates, RunsHere, Mine
  <2>3. CallsAt'
    BY <2>n DEF SessionTypes, CallsAt, Streaming
  <2>4. NewestOnly'
    BY <2>n DEF SessionTypes, NewestOnly, Done, CallsAt, Streaming
  <2>5. NodeRuns'
    BY <2>n, <2>j DEF SessionTypes, NodeStates, RunsHere, Mine, CallsAt, Streaming, NewestOnly, Done, NodeRuns
  <2> QED
    BY <2>n, <2>1, <2>2, <2>3, <2>4, <2>5
<1>13. CASE StopVerb
  <2> USE <1>13 DEF StopVerb, Goes, AfterStop, Stopped
  <2>n. node' = (IF node.phase = "active" THEN Stopped ELSE node) /\ StatesKept'
    <3>1. (IF node.phase = "active" THEN Stopped ELSE node) \in NodeStates
      BY DEF SessionTypes, NodeStates, Stopped
    <3> QED
      BY <3>1, Publishes
  <2>1. SessionTypes'
    BY <2>n DEF SessionTypes, NodeStates
  <2>2. RunsHere'
    BY <2>n DEF SessionTypes, NodeStates, RunsHere, Mine
  <2>3. CallsAt'
    BY <2>n DEF SessionTypes, CallsAt, Streaming
  <2>4. NewestOnly'
    BY <2>n DEF SessionTypes, NewestOnly, Done, CallsAt, Streaming
  <2>5. NodeRuns'
    BY <2>n DEF SessionTypes, NodeStates, RunsHere, Mine, CallsAt, Streaming, NewestOnly, Done, NodeRuns
  <2> QED
    BY <2>n, <2>1, <2>2, <2>3, <2>4, <2>5
<1>14. CASE StopVerbRaises
  <2> USE <1>14 DEF StopVerbRaises, Goes, AfterStop, AfterFailure, Stopped
  <2>n. (node' = node \/ (node.phase = "active" /\ node' = Stopped)) /\ StatesKept'
    <3>1. node \in NodeStates /\ Stopped \in NodeStates
      BY DEF SessionTypes, NodeStates
    <3>2. CASE Shows(node)
      BY <3>1, <3>2, Publishes
    <3>3. CASE node.phase = "active" /\ Shows(Stopped)
      BY <3>1, <3>3, Publishes
    <3> QED
      BY <3>2, <3>3
  <2>1. SessionTypes'
    BY <2>n DEF SessionTypes, NodeStates
  <2>2. RunsHere'
    BY <2>n DEF SessionTypes, NodeStates, RunsHere, Mine
  <2>3. CallsAt'
    BY <2>n DEF SessionTypes, CallsAt, Streaming
  <2>4. NewestOnly'
    BY <2>n DEF SessionTypes, NewestOnly, Done, CallsAt, Streaming
  <2>5. NodeRuns'
    BY <2>n DEF SessionTypes, NodeStates, RunsHere, Mine, CallsAt, Streaming, NewestOnly, Done, NodeRuns
  <2> QED
    BY <2>n, <2>1, <2>2, <2>3, <2>4, <2>5
<1>15. CASE call.next = "none" /\ session = NoObject /\ Goes("release", NoObject, TRUE)
          /\ UNCHANGED <<token, session, made, ended, halted, stopped, states, seen, failed, misled,
                         sessionBudget>>
  <2> USE <1>15 DEF Goes
  <2>n. node' = node /\ StatesKept'
    BY DEF node, StatesKept
  <2>1. SessionTypes'
    BY <2>n DEF SessionTypes, NodeStates
  <2>2. RunsHere'
    BY <2>n DEF SessionTypes, NodeStates, RunsHere, Mine
  <2>3. CallsAt'
    BY <2>n DEF SessionTypes, CallsAt, Streaming
  <2>4. NewestOnly'
    BY <2>n DEF SessionTypes, NewestOnly, Done, CallsAt, Streaming
  <2>5. NodeRuns'
    BY <2>n DEF SessionTypes, NodeStates, RunsHere, Mine, CallsAt, Streaming, NewestOnly, Done, NodeRuns
  <2> QED
    BY <2>n, <2>1, <2>2, <2>3, <2>4, <2>5
<1>16. CASE Release
  <2> USE <1>16 DEF Release, Goes, Released
  <2>n. (node' = node \/ node' = Released) /\ StatesKept'
    <3>1. Released \in NodeStates
      BY DEF SessionTypes, NodeStates
    <3>2. CASE UNCHANGED states
      BY <3>2 DEF node, StatesKept
    <3>3. CASE Shows(Released)
      BY <3>1, <3>3, Publishes
    <3> QED
      BY <3>2, <3>3
  <2>1. SessionTypes'
    BY <2>n DEF SessionTypes, NodeStates
  <2>2. RunsHere'
    BY <2>n DEF SessionTypes, NodeStates, RunsHere, Mine
  <2>3. CallsAt'
    BY <2>n DEF SessionTypes, CallsAt, Streaming
  <2>4. NewestOnly'
    BY <2>n DEF SessionTypes, NewestOnly, Done, CallsAt, Streaming
  <2>5. NodeRuns'
    BY <2>n DEF SessionTypes, NodeStates, RunsHere, Mine, CallsAt, Streaming, NewestOnly, Done, NodeRuns
  <2> QED
    BY <2>n, <2>1, <2>2, <2>3, <2>4, <2>5
<1>17. CASE Undeclare
  <2> USE <1>17 DEF Undeclare, Goes
  <2>n. node' = node /\ StatesKept'
    BY DEF node, StatesKept
  <2>1. SessionTypes'
    BY <2>n DEF SessionTypes, NodeStates
  <2>2. RunsHere'
    BY <2>n DEF SessionTypes, NodeStates, RunsHere, Mine
  <2>3. CallsAt'
    BY <2>n DEF SessionTypes, CallsAt, Streaming
  <2>4. NewestOnly'
    BY <2>n DEF SessionTypes, NewestOnly, Done, CallsAt, Streaming
  <2>5. NodeRuns'
    BY <2>n DEF SessionTypes, NodeStates, RunsHere, Mine, CallsAt, Streaming, NewestOnly, Done, NodeRuns
  <2> QED
    BY <2>n, <2>1, <2>2, <2>3, <2>4, <2>5
<1>18. CASE ArmStop
  <2> USE <1>18 DEF ArmStop, Stopped
  <2>n. node' = (IF node.phase = "active" THEN Stopped ELSE node) /\ StatesKept'
    <3>1. (IF node.phase = "active" THEN Stopped ELSE node) \in NodeStates
      BY DEF SessionTypes, NodeStates, Stopped
    <3> QED
      BY <3>1, Publishes
  <2>1. SessionTypes'
    BY <2>n DEF SessionTypes, NodeStates
  <2>2. RunsHere'
    BY <2>n DEF SessionTypes, NodeStates, RunsHere, Mine
  <2>3. CallsAt'
    BY <2>n DEF SessionTypes, CallsAt, Streaming
  <2>4. NewestOnly'
    BY <2>n DEF SessionTypes, NewestOnly, Done, CallsAt, Streaming
  <2>5. NodeRuns'
    BY <2>n DEF SessionTypes, NodeStates, RunsHere, Mine, CallsAt, Streaming, NewestOnly, Done, NodeRuns
  <2> QED
    BY <2>n, <2>1, <2>2, <2>3, <2>4, <2>5
<1>19. CASE Abandon
  <2> USE <1>19 DEF Abandon, Goes
  <2>n. node' = node /\ StatesKept'
    BY DEF node, StatesKept
  <2>1. SessionTypes'
    BY <2>n DEF SessionTypes, NodeStates
  <2>2. RunsHere'
    BY <2>n DEF SessionTypes, NodeStates, RunsHere, Mine
  <2>3. CallsAt'
    BY <2>n DEF SessionTypes, CallsAt, Streaming
  <2>4. NewestOnly'
    BY <2>n DEF SessionTypes, NewestOnly, Done, CallsAt, Streaming
  <2>5. NodeRuns'
    BY <2>n DEF SessionTypes, NodeStates, RunsHere, Mine, CallsAt, Streaming, NewestOnly, Done, NodeRuns
  <2> QED
    BY <2>n, <2>1, <2>2, <2>3, <2>4, <2>5
<1>20. CASE SessionStateArrives
  <2> USE <1>20 DEF SessionStateArrives
  <2>n. node' = node /\ StatesKept'
    BY <1>20, Arriving
  <2>1. SessionTypes'
    BY <2>n DEF SessionTypes, NodeStates
  <2>2. RunsHere'
    BY <2>n DEF SessionTypes, NodeStates, RunsHere, Mine
  <2>3. CallsAt'
    BY <2>n DEF SessionTypes, CallsAt, Streaming
  <2>4. NewestOnly'
    BY <2>n DEF SessionTypes, NewestOnly, Done, CallsAt, Streaming
  <2>5. NodeRuns'
    BY <2>n DEF SessionTypes, NodeStates, RunsHere, Mine, CallsAt, Streaming, NewestOnly, Done, NodeRuns
  <2> QED
    BY <2>n, <2>1, <2>2, <2>3, <2>4, <2>5
<1>21. CASE TokenSeen
  <2> USE <1>21 DEF TokenSeen
  <2> DEFINE after == IF token \/ node.holder # "me" THEN node
                ELSE [phase |-> IF node.phase = "faulted" THEN "faulted" ELSE "idle",
                      holder |-> "none", of |-> NoObject]
  <2>n. node' = after /\ StatesKept'
    <3>1. after \in NodeStates
      BY DEF SessionTypes, NodeStates
    <3>2. Shows(after)
      OBVIOUS
    <3> HIDE DEF after
    <3> QED
      BY <3>1, <3>2, Publishes
  <2>1. SessionTypes'
    BY <2>n DEF SessionTypes, NodeStates
  <2>2. RunsHere'
    BY <2>n DEF SessionTypes, NodeStates, RunsHere, Mine
  <2>3. CallsAt'
    BY <2>n DEF SessionTypes, CallsAt, Streaming
  <2>4. NewestOnly'
    BY <2>n DEF SessionTypes, NewestOnly, Done, CallsAt, Streaming
  <2>5. NodeRuns'
    BY <2>n DEF SessionTypes, NodeStates, RunsHere, Mine, CallsAt, Streaming, NewestOnly, Done, NodeRuns
  <2> QED
    BY <2>n, <2>1, <2>2, <2>3, <2>4, <2>5
<1>22. CASE NodeActs
  <2> USE <1>22 DEF NodeActs, Stopped, Idle
  <2>n. /\ StatesKept' /\ node' \in NodeStates
        /\ \/ node'.of = NoObject
           \/ node.of = node'.of /\ node.phase # "active"
    <3> DEFINE failing == [node EXCEPT !.phase = "faulted", !.of = NoObject]
               cleared == [node EXCEPT !.phase = "idle"]
               others == [node EXCEPT !.phase = "active", !.holder = "other"]
    <3>1. CASE node.phase = "active" /\ Shows(Stopped)
      <4>1. Stopped \in NodeStates /\ Stopped.of = NoObject
        BY DEF SessionTypes, NodeStates
      <4> QED
        BY <3>1, <4>1, Publishes
    <3>2. CASE node.phase = "active" /\ Shows(failing)
      <4>1. failing \in NodeStates /\ failing.of = NoObject
        BY DEF SessionTypes, NodeStates
      <4> QED
        BY <3>2, <4>1, Publishes
    <3>3. CASE node.phase = "faulted" /\ Shows(cleared)
      <4>1. cleared \in NodeStates /\ cleared.of = node.of
        BY DEF SessionTypes, NodeStates
      <4> QED
        BY <3>3, <4>1, Publishes
    <3>4. CASE node.holder = "none" /\ node.phase = "idle" /\ Shows(others)
      <4>1. others \in NodeStates /\ others.of = node.of
        BY DEF SessionTypes, NodeStates
      <4> QED
        BY <3>4, <4>1, Publishes
    <3>5. CASE node.holder = "other" /\ Shows(Idle)
      <4>1. Idle \in NodeStates /\ Idle.of = NoObject
        BY DEF NodeStates
      <4> QED
        BY <3>5, <4>1, Publishes
    <3> QED
      BY <3>1, <3>2, <3>3, <3>4, <3>5
  <2>b. node'.of = NoObject
    BY <2>n DEF RunsHere, Mine
  <2>1. SessionTypes'
    BY <2>n DEF SessionTypes
  <2>2. RunsHere'
    BY <2>n, <2>b DEF RunsHere
  <2>3. CallsAt'
    BY <2>n DEF SessionTypes, CallsAt, Streaming
  <2>4. NewestOnly'
    BY <2>n DEF SessionTypes, NewestOnly, Done, CallsAt, Streaming
  <2>5. NodeRuns'
    BY <2>n, <2>b DEF SessionTypes, NodeRuns, Streaming
  <2> QED
    BY <2>n, <2>1, <2>2, <2>3, <2>4, <2>5
<1>23. CASE StopCall \/ Exit
  <2>1. CASE StopCall
    BY <2>1, <1>11 DEF StopCall
  <2>2. CASE session # NoObject /\ StopHalts(session, TRUE)
    <3>1. session \in Objects
      BY <2>2 DEF SessionTypes, StopHalts
    <3> QED
      BY <2>2, <3>1, <1>11
  <2> QED
    BY <1>23, <1>15, <2>1, <2>2, Zenon DEF Exit
<1> QED
  BY <1>1, <1>2, <1>3, <1>4, <1>5, <1>6, <1>7, <1>8, <1>9, <1>10, <1>12, <1>13, <1>14, <1>16,
     <1>17, <1>18, <1>19, <1>20, <1>21, <1>22, <1>23, Zenon DEF SessionNext, UserNext

\* The invariant leaves one streamer, and lets only the newest be stopped.
LEMMA SessionShows == SessionInv => OneStreamer /\ StopEndsTheNewest
<1> SUFFICES ASSUME SessionInv PROVE OneStreamer /\ StopEndsTheNewest
  OBVIOUS
<1> USE ObjectNumbers DEF SessionInv
<1>1. OneStreamer
  <2> DEFINE streamers == {o \in Objects : Streams(o)}
  <2>1. streamers \subseteq {session}
    BY DEF Streams, NewestOnly
  <2>2. IsFiniteSet({session}) /\ Cardinality({session}) = 1
    BY FS_Singleton
  <2>3. Cardinality(streamers) <= 1
    BY <2>1, <2>2, FS_Subset
  <2> QED
    BY <2>3 DEF OneStreamer
<1>2. StopEndsTheNewest
  BY DEF SessionTypes, NodeRuns, CallsAt, StopEndsTheNewest
<1> QED
  BY <1>1, <1>2

(* The stop of an older session object never stops the session that the    *)
(* client made after it (`arm._session is self`).                          *)
THEOREM StopsSpareTheNext == ClientsSpec => StopSparesTheNext
<1>1. ClientsInit => SessionInv
  BY SessionInitially DEF ClientsInit
<1>2. [ClientsNext]_clientsVars => [SessionNext]_sessionVars
  BY DEF ClientsNext, clientsVars
<1>3. SessionInv /\ [SessionNext]_sessionVars => [StopVerb => node.of \in {call.of, NoObject}]_sessionVars
  <2> SUFFICES ASSUME SessionInv, StopVerb PROVE node.of \in {call.of, NoObject}
    OBVIOUS
  <2> QED
    BY DEF SessionInv, CallsAt, NodeRuns, StopVerb
<1> QED
  BY <1>1, <1>2, <1>3, SessionStep, PTL DEF ClientsSpec, StopSparesTheNext

-----------------------------------------------------------------------------
(* The streamer of a session. *)

\* The era that an answer must reach is one of the present goal's.
WaitInv ==
    /\ era.next \in Nat /\ era.of \in Nat /\ era.of <= era.next
    /\ era = [next |-> era.next, of |-> era.of]
    /\ goalSeq = NoGoalSeq \/ (goalSeq \in Nat /\ goalSeq >= era.of)
    /\ latest.accepted \in Nat /\ "accepted" \in DOMAIN latest
    /\ nodeSide.accepted \in Nat /\ "accepted" \in DOMAIN nodeSide
    /\ inflight # <<>> => Head(inflight).era \in Nat /\ Tail(inflight) = <<>>

\* No goal is set at the start.
LEMMA WaitInitially == TargetsInit => WaitInv
  BY DEF TargetsInit, WaitInv

\* Setting a goal begins an era, and forgets the one before.
LEMMA GoalBeginsAnEra ==
    ASSUME WaitInv, NEW g, GoalIs(g), UNCHANGED <<latest, nodeSide, inflight>> PROVE WaitInv'
<1>1. CASE g = aim
  BY <1>1 DEF GoalIs, WaitInv
<1>2. CASE g # aim
  BY <1>2 DEF GoalIs, WaitInv
<1> QED
  BY <1>1, <1>2

\* Each goal, state and wake-up keeps the waits' invariant.
LEMMA WaitStep == WaitInv /\ [TargetsNext]_targetsVars => WaitInv'
<1> SUFFICES ASSUME WaitInv, [TargetsNext]_targetsVars PROVE WaitInv'
  OBVIOUS
<1>1. CASE MoveTo
  BY <1>1, GoalBeginsAnEra DEF MoveTo
<1>2. CASE Follows
  BY <1>2, GoalBeginsAnEra DEF Follows
<1>3. CASE AdvanceChunk
  BY <1>3, GoalBeginsAnEra DEF AdvanceChunk
<1>4. CASE Cycle
  <2>1. PICK next, e : /\ e \in {era.next, era.next + 1} /\ era' = [era EXCEPT !.next = e]
                       /\ goalSeq' \in {goalSeq, e}
                       /\ inflight' = Append(<<>>, [to |-> next, era |-> e])
    BY <1>4, Zenon DEF Cycle
  <2>2. e \in Nat /\ e >= era.next
    BY <2>1 DEF WaitInv
  <2>3. Head(inflight').era = e /\ Tail(inflight') = <<>>
    BY <2>1
  <2>4. UNCHANGED nodeSide /\ latest' = [latest EXCEPT !.refused = FALSE]
    BY <1>4 DEF Cycle
  <2> QED
    BY <2>1, <2>2, <2>3, <2>4 DEF WaitInv
<1>5. CASE NodeTakes
  <2>1. /\ inflight # <<>> /\ inflight' = Tail(inflight) /\ UNCHANGED <<era, goalSeq, latest>>
        /\ \/ nodeSide' = [nodeSide EXCEPT !.target = Head(inflight).to,
                                           !.accepted = Head(inflight).era]
           \/ nodeSide' = [nodeSide EXCEPT !.refused = TRUE]
    BY <1>5, Zenon DEF NodeTakes
  <2> QED
    BY <2>1 DEF WaitInv
<1>6. CASE TargetLost
  BY <1>6 DEF TargetLost, WaitInv
<1>7. CASE ArmMoves \/ HandMoves
  BY <1>7 DEF ArmMoves, HandMoves, WaitInv
<1>8. CASE TargetStateArrives
  BY <1>8 DEF TargetStateArrives, WaitInv
<1>9. CASE UNCHANGED targetsVars
  BY <1>9 DEF targetsVars, WaitInv
<1> QED
  BY <1>1, <1>2, <1>3, <1>4, <1>5, <1>6, <1>7, <1>8, <1>9 DEF TargetsNext

(* The Python client judges by what it should: a wait goes by an answer    *)
(* to its own goal, two streamers never drive one arm, and the stop of the *)
(* newest session ends it (_wait, _claim, _Targets.stop).                  *)
THEOREM StreamersAreSafe == ClientsSpec => []StreamerSafety
<1>1. ClientsInit => SessionInv /\ WaitInv
  BY SessionInitially, WaitInitially DEF ClientsInit
<1>2. [ClientsNext]_clientsVars => [SessionNext]_sessionVars /\ [TargetsNext]_targetsVars
  BY DEF ClientsNext, clientsVars
<1>3. WaitInv => WaitIsForThisGoal
  BY DEF WaitInv, WaitIsForThisGoal, Arrived
<1>4. OneStreamer /\ StopEndsTheNewest /\ WaitIsForThisGoal => StreamerSafety
  BY DEF StreamerSafety
<1> QED
  BY <1>1, <1>2, <1>3, <1>4, SessionStep, SessionShows, WaitStep, PTL DEF ClientsSpec

-----------------------------------------------------------------------------
(* The types of the parts. *)

\* The pages: a queue is never longer than it may be, and tells of what was published.
PagesRest ==
    /\ currents \in [Owners -> Versions] /\ telling \in [Owners -> Versions] /\ clients \subseteq Pages
    /\ closed \subseteq Pages /\ stream \in [Pages -> {"none", "headers", "hello", "events"}]
    /\ page \in [Pages -> [Owners -> Versions]]
    /\ queue \in [Pages -> Seq(Events)] /\ \A p \in Pages : Len(queue[p]) <= QueueSize

\* The first event of a queue is of an owner and a version, and the rest is a queue no longer.
LEMMA EventsOfQueue ==
    ASSUME NEW S, NEW q \in Seq(S)
    PROVE  /\ q # <<>> => Head(q) \in S /\ Tail(q) \in Seq(S) /\ Len(Tail(q)) <= Len(q)
           /\ \A e \in S : Append(q, e) \in Seq(S) /\ Len(Append(q, e)) = Len(q) + 1
           /\ <<>> \in Seq(S) /\ Len(<<>>) = 0 /\ \A i \in DOMAIN q : q[i] \in S
           /\ Len(q) \in Nat
  OBVIOUS

\* No page is open, and every owner is at its first version.
LEMMA PagesRestInitially == PanelEventsInit => PagesRest
<1> SUFFICES ASSUME PanelEventsInit PROVE PagesRest
  OBVIOUS
<1>1. <<>> \in Seq(Events) /\ Len(<<>>) = 0
  OBVIOUS
<1> QED
  BY <1>1, PanelAssumption DEF PanelEventsInit, PagesRest, Versions

\* Each publication, offer, drain and reconnection keeps the types.
LEMMA PagesRestStep == PagesRest /\ [PanelEventsNext]_panelEventsVars => PagesRest'
<1> SUFFICES ASSUME PagesRest, [PanelEventsNext]_panelEventsVars PROVE PagesRest'
  OBVIOUS
<1>0. /\ \A p \in Pages : queue[p] \in Seq(Events) /\ Len(queue[p]) <= QueueSize /\ Len(queue[p]) \in Nat
      /\ 0 \in Versions /\ Versions = 0..MaxVersion
  BY PanelAssumption, EventsOfQueue DEF PagesRest, Versions
<1>1. ASSUME NEW o \in Owners, OnCurrent(o) PROVE PagesRest'
  <2>1. currents[o] + 1 \in Versions
    BY <1>1, PanelAssumption DEF OnCurrent, PagesRest, Versions
  <2> QED
    BY <1>1, <2>1 DEF OnCurrent, PagesRest
<1>2. ASSUME NEW o \in Owners, Broadcast(o) PROVE PagesRest'
  <2>1. <<o, telling[o]>> \in Events
    BY DEF PagesRest, Events
  <2> DEFINE new(p) == IF p \in clients \ Full THEN Append(queue[p], <<o, telling[o]>>) ELSE queue[p]
  <2>2. ASSUME NEW p \in Pages PROVE new(p) \in Seq(Events) /\ Len(new(p)) <= QueueSize
    <3>1. CASE p \in clients \ Full
      <4>1. Len(queue[p]) < QueueSize
        BY <1>0, <3>1, PanelAssumption DEF Full
      <4>2. Append(queue[p], <<o, telling[o]>>) \in Seq(Events)
            /\ Len(Append(queue[p], <<o, telling[o]>>)) = Len(queue[p]) + 1
        BY <1>0, <2>1, EventsOfQueue
      <4> QED
        BY <1>0, <3>1, <4>1, <4>2, PanelAssumption
    <3>2. CASE ~(p \in clients \ Full)
      BY <1>0, <3>2
    <3> QED
      BY <3>1, <3>2
  <2>3. queue' = [p \in Pages |-> new(p)]
    BY <1>2 DEF Broadcast
  <2> HIDE DEF new
  <2>4. queue' \in [Pages -> Seq(Events)] /\ \A p \in Pages : Len(queue'[p]) <= QueueSize
    BY <2>2, <2>3
  <2>5. telling' \in [Owners -> Versions]
    BY <1>0, <1>2 DEF Broadcast, PagesRest
  <2>6. clients' \subseteq Pages /\ closed' \subseteq Pages
    BY <1>2 DEF Broadcast, Dropped, Full, PagesRest
  <2> QED
    BY <1>2, <2>4, <2>5, <2>6 DEF Broadcast, PagesRest
<1>3. ASSUME NEW p \in Pages, Open(p) PROVE PagesRest'
  <2>1. <<>> \in Seq(Events) /\ Len(<<>>) = 0
    OBVIOUS
  <2> QED
    BY <1>3, <2>1, PanelAssumption DEF Open, PagesRest
<1>4. ASSUME NEW p \in Pages, Hello(p) PROVE PagesRest'
  BY <1>4 DEF Hello, PagesRest
<1>5. ASSUME NEW p \in Pages, Event(p) PROVE PagesRest'
  <2>1. queue[p] # <<>> /\ queue[p] \in Seq(Events)
    BY <1>0, <1>5 DEF Event
  <2>2. Head(queue[p]) \in Events /\ Tail(queue[p]) \in Seq(Events) /\ Len(Tail(queue[p])) <= Len(queue[p])
        /\ Len(Tail(queue[p])) \in Nat
    BY <2>1, EventsOfQueue
  <2>3. Head(queue[p])[1] \in Owners /\ Head(queue[p])[2] \in Versions
    BY <2>2 DEF Events
  <2>4. page' \in [Pages -> [Owners -> Versions]]
    BY <1>5, <2>3 DEF Event, PagesRest
  <2>5. Len(Tail(queue[p])) <= QueueSize
    BY <1>0, <2>2, PanelAssumption
  <2>6. queue' \in [Pages -> Seq(Events)] /\ \A s \in Pages : Len(queue'[s]) <= QueueSize
    <3>1. queue' = [queue EXCEPT ![p] = Tail(queue[p])]
      BY <1>5 DEF Event
    <3> QED
      BY <1>0, <3>1, <2>2, <2>5 DEF PagesRest
  <2> QED
    BY <1>5, <2>4, <2>6 DEF Event, PagesRest
<1>6. ASSUME NEW p \in Pages, End(p) PROVE PagesRest'
  <2>1. <<>> \in Seq(Events) /\ Len(<<>>) = 0
    OBVIOUS
  <2> QED
    BY <1>6, <2>1, PanelAssumption DEF End, PagesRest
<1>7. CASE UNCHANGED panelEventsVars
  BY <1>7 DEF panelEventsVars, PagesRest
<1> QED
  BY <1>1, <1>2, <1>3, <1>4, <1>5, <1>6, <1>7 DEF PanelEventsNext

\* The types are those that the run checks.
LEMMA PagesAreTyped == PagesRest => PanelEventsTypeOK
<1> SUFFICES ASSUME PagesRest PROVE PanelEventsTypeOK
  OBVIOUS
<1>1. ASSUME NEW p \in Pages PROVE \A i \in DOMAIN queue[p] : queue[p][i] \in Events
  BY EventsOfQueue DEF PagesRest
<1> QED
  BY <1>1 DEF PagesRest, PanelEventsTypeOK

-----------------------------------------------------------------------------
\* The message of a sample says whether it is engaged and fresh.
LEMMA MessageIsTyped ==
    ASSUME NEW s, s = None \/ s \in MappedSamples, NEW forced \in BOOLEAN
    PROVE  Message(s, forced) \in Messages
<1>1. CASE s = None
  BY <1>1 DEF Message, Messages
<1>2. CASE s # None
  <2>1. s.fresh \in BOOLEAN /\ (s.grip /\ s.fresh /\ ~forced) \in BOOLEAN
    BY <1>2 DEF MappedSamples
  <2> DEFINE e == s.grip /\ s.fresh /\ ~forced
             f == s.fresh
  <2>2. Message(s, forced) = [engaged |-> e, fresh |-> f]
    BY <1>2 DEF Message
  <2>3. e \in BOOLEAN /\ f \in BOOLEAN
    BY <2>1
  <2> HIDE DEF e, f
  <2> QED
    BY <2>2, <2>3 DEF Messages
<1> QED
  BY <1>1, <1>2

SentIsTyped == sent \in [Channels -> Messages]

\* What a channel publishes is a message.
LEMMA SentStep == BridgeInv /\ BridgeInv' /\ SentIsTyped /\ [BridgeNext]_bridgeVars => SentIsTyped'
<1> SUFFICES ASSUME BridgeInv, BridgeInv', SentIsTyped, [BridgeNext]_bridgeVars PROVE SentIsTyped'
  OBVIOUS
<1>1. CASE BridgeTick
  <2>1. PICK frame \in [Channels -> Frames], d \in 1..MaxTick :
          /\ lastSample' = [ch \in Channels |-> Kept(ch, frame[ch], d)]
          /\ sent' = [ch \in Channels |-> Message(Resolved(ch, frame[ch], d), forcedOpen'[ch])]
    BY <1>1 DEF BridgeTick
  <2>2. ASSUME NEW ch \in Channels PROVE Message(Resolved(ch, frame[ch], d), forcedOpen'[ch]) \in Messages
    <3>1. Resolved(ch, frame[ch], d) = lastSample'[ch]
      BY <2>1 DEF Kept
    <3>2. lastSample'[ch] \in MappedSamples \cup {None} /\ forcedOpen'[ch] \in BOOLEAN
      BY DEF BridgeInv, BridgeType
    <3> QED
      BY <3>1, <3>2, MessageIsTyped
  <2> QED
    BY <2>1, <2>2 DEF SentIsTyped
<1>2. CASE UNCHANGED bridgeVars
  BY <1>2 DEF bridgeVars, SentIsTyped
<1> QED
  BY <1>1, <1>2 DEF BridgeNext

\* The types are those that the run checks.
LEMMA BridgeIsTyped == BridgeInv /\ SentIsTyped => BridgeTypeOK
  BY DEF BridgeInv, BridgeType, SentIsTyped, BridgeTypeOK

\* Nothing was published at the start.
LEMMA SentInitially == BridgeInit => SentIsTyped
<1> SUFFICES ASSUME BridgeInit PROVE SentIsTyped
  OBVIOUS
<1>1. [engaged |-> FALSE, fresh |-> FALSE] \in Messages
  BY DEF Messages
<1> QED
  BY <1>1 DEF BridgeInit, SentIsTyped

-----------------------------------------------------------------------------
\* Where a call is, whose token there is, and which stops raised.
SessionRest ==
    /\ token \in BOOLEAN /\ seen \in BOOLEAN /\ failed \subseteq Objects
    /\ call.next \in Calls /\ call.leaves \in BOOLEAN

\* A call goes on to a step of a call.
LEMMA CallGoes ==
    ASSUME NEW next \in Calls, NEW o, NEW leaves \in BOOLEAN, call' = [next |-> next, of |-> o, leaves |-> leaves]
    PROVE  call'.next \in Calls /\ call'.leaves \in BOOLEAN
<1>1. call'.next = next /\ call'.leaves = leaves
  BY Zenon
<1> QED
  BY <1>1, Zenon

\* No call runs at the start.
LEMMA SessionRestInitially == SessionInit => SessionRest
<1> SUFFICES ASSUME SessionInit PROVE SessionRest
  OBVIOUS
<1>1. call.next = "none" /\ call.leaves = FALSE
  BY Zenon DEF SessionInit
<1> QED
  BY <1>1 DEF SessionInit, SessionRest, Calls

\* Each verb, answer, claim and stop keeps the types.
LEMMA SessionRestStep == SessionInv /\ SessionRest /\ [SessionNext]_sessionVars => SessionRest'
<1> SUFFICES ASSUME SessionInv, SessionRest, [SessionNext]_sessionVars PROVE SessionRest'
  OBVIOUS
<1> DEFINE CallRest == call'.next \in Calls /\ call'.leaves \in BOOLEAN
<1>0. /\ call.leaves \in BOOLEAN /\ TRUE \in BOOLEAN /\ FALSE \in BOOLEAN
      /\ {"none", "acquire", "enable", "confirm", "judge", "verb", "release", "undeclare", "left"} \subseteq Calls
      /\ AfterStop \in Calls /\ AfterFailure \in Calls
  BY DEF SessionRest, Calls, AfterStop, AfterFailure
<1>a. ASSUME CallRest, token' \in BOOLEAN, seen' \in BOOLEAN, failed' \subseteq Objects PROVE SessionRest'
  BY <1>a DEF SessionRest
<1>b. ASSUME NEW next \in Calls, NEW o, NEW leaves \in BOOLEAN, Goes(next, o, leaves) PROVE CallRest
  <2>1. call' = [next |-> next, of |-> o, leaves |-> leaves]
    BY <1>b, Zenon DEF Goes
  <2> QED
    BY <2>1, CallGoes
<1>c. ASSUME UNCHANGED call PROVE CallRest
  BY <1>c DEF SessionRest
<1>d. ASSUME UNCHANGED <<token, seen, failed>>, CallRest PROVE SessionRest'
  BY <1>a, <1>d DEF SessionRest
<1>e. ASSUME Returns PROVE CallRest
  <2>1. Goes("none", NoObject, FALSE)
    BY <1>e, Zenon DEF Returns
  <2>2. "none" \in Calls
    BY <1>0
  <2> QED
    BY <1>0, <1>b, <2>1, <2>2, Zenon
<1> HIDE DEF CallRest
<1>1. CASE Acquire
  <2>1. Goes("acquire", NoObject, FALSE) /\ token' = TRUE /\ UNCHANGED <<seen, failed>>
    BY <1>1, Zenon DEF Acquire
  <2>2. "acquire" \in Calls
    BY <1>0
  <2>3. CallRest
    BY <1>0, <1>b, <2>1, <2>2, Zenon
  <2> QED
    BY <1>a, <2>1, <2>3 DEF SessionRest
<1>2. CASE Acquired
  <2>1. Returns /\ UNCHANGED <<token, seen, failed>>
    BY <1>2, Zenon DEF Acquired
  <2> QED
    BY <1>d, <1>e, <2>1, Zenon
<1>3. CASE AcquireRaises
  <2>1. Returns /\ token' = FALSE /\ UNCHANGED <<seen, failed>>
    BY <1>3, Zenon DEF AcquireRaises
  <2>2. CallRest
    BY <1>e, <2>1, Zenon
  <2> QED
    BY <1>a, <2>1, <2>2 DEF SessionRest
<1>4. CASE Claim
  <2>1. Goes("enable", made + 1, FALSE) /\ UNCHANGED <<token, seen, failed>>
    BY <1>4, Zenon DEF Claim
  <2>2. "enable" \in Calls
    BY <1>0
  <2> QED
    BY <1>0, <1>b, <1>d, <2>1, <2>2, Zenon
<1>5. CASE Enable
  <2>1. Goes("confirm", call.of, FALSE) /\ UNCHANGED <<token, seen, failed>>
    BY <1>5, Zenon DEF Enable
  <2>2. "confirm" \in Calls
    BY <1>0
  <2> QED
    BY <1>0, <1>b, <1>d, <2>1, <2>2, Zenon
<1>6. CASE EnableRaises
  <2>1. Returns /\ UNCHANGED <<token, seen, failed>>
    BY <1>6, Zenon DEF EnableRaises
  <2> QED
    BY <1>d, <1>e, <2>1, Zenon
<1>7. CASE Confirmed
  <2>1. Returns /\ UNCHANGED <<token, seen, failed>>
    BY <1>7, Zenon DEF Confirmed
  <2> QED
    BY <1>d, <1>e, <2>1, Zenon
<1>8. CASE NotConfirmed
  <2>1. Returns /\ UNCHANGED <<token, seen, failed>>
    BY <1>8, Zenon DEF NotConfirmed
  <2> QED
    BY <1>d, <1>e, <2>1, Zenon
<1>9. ASSUME NEW o \in Objects, Observe(o) \/ LoseTheNode(o) PROVE SessionRest'
  <2>1. UNCHANGED <<token, seen, failed, call>>
    BY <1>9, Zenon DEF Observe, LoseTheNode
  <2> QED
    BY <1>c, <1>d, <2>1, Zenon
<1>10. ASSUME NEW o, NEW leaves \in BOOLEAN, StopHalts(o, leaves) PROVE SessionRest'
  <2>1. Goes("judge", o, leaves) /\ UNCHANGED <<token, seen, failed>>
    BY <1>10, Zenon DEF StopHalts
  <2>2. "judge" \in Calls
    BY <1>0
  <2> QED
    BY <1>b, <1>d, <2>1, <2>2, Zenon
<1>11. CASE StopJudges
  <2>1. Goes(IF Own /\ Mine(lastState) THEN "verb" ELSE AfterStop, call.of, call.leaves)
        /\ UNCHANGED <<token, seen, failed>>
    BY <1>11, Zenon DEF StopJudges
  <2>2. (IF Own /\ Mine(lastState) THEN "verb" ELSE AfterStop) \in Calls
    BY <1>0
  <2> QED
    BY <1>0, <1>b, <1>d, <2>1, <2>2, Zenon
<1>12. CASE StopVerb
  <2>1. Goes(AfterStop, call.of, call.leaves) /\ UNCHANGED <<token, seen, failed>>
    BY <1>12, Zenon DEF StopVerb
  <2> QED
    BY <1>0, <1>b, <1>d, <2>1, Zenon
<1>13. CASE StopVerbRaises
  <2>1. /\ Goes(AfterFailure, call.of, call.leaves) /\ UNCHANGED <<token, seen>>
        /\ failed' = failed \cup {call.of} /\ call.next = "verb"
    BY <1>13, Zenon DEF StopVerbRaises
  <2>2. CallRest
    BY <1>0, <1>b, <2>1, Zenon
  <2>3. call.of \in Objects
    BY <2>1, ObjectNumbers DEF SessionInv, SessionTypes, CallsAt
  <2> QED
    BY <1>a, <2>1, <2>2, <2>3 DEF SessionRest
<1>14. CASE Exit
  <2>1. CASE session # NoObject /\ StopHalts(session, TRUE)
    BY <1>0, <1>10, <2>1, Zenon
  <2>2. CASE Goes("release", NoObject, TRUE) /\ UNCHANGED <<token, seen, failed>>
    <3>1. "release" \in Calls
      BY <1>0
    <3> QED
      BY <1>0, <1>b, <1>d, <2>2, <3>1, Zenon
  <2> QED
    BY <1>14, <2>1, <2>2, Zenon DEF Exit
<1>15. CASE Release
  <2>1. Goes("undeclare", call.of, TRUE) /\ UNCHANGED <<token, seen, failed>>
    BY <1>15, Zenon DEF Release
  <2>2. "undeclare" \in Calls
    BY <1>0
  <2> QED
    BY <1>0, <1>b, <1>d, <2>1, <2>2, Zenon
<1>16. CASE Undeclare \/ Abandon
  <2>1. Goes("left", NoObject, TRUE) /\ token' = FALSE /\ UNCHANGED <<seen, failed>>
    BY <1>16, Zenon DEF Undeclare, Abandon
  <2>2. "left" \in Calls
    BY <1>0
  <2>3. CallRest
    BY <1>0, <1>b, <2>1, <2>2, Zenon
  <2> QED
    BY <1>a, <2>1, <2>3 DEF SessionRest
<1>17. CASE ArmStop \/ SessionStateArrives \/ NodeActs
  <2>1. UNCHANGED <<token, seen, failed, call>>
    BY <1>17, Zenon DEF ArmStop, SessionStateArrives, NodeActs
  <2> QED
    BY <1>c, <1>d, <2>1, Zenon
<1>18. CASE TokenSeen
  <2>1. seen' = token /\ UNCHANGED <<token, failed, call>>
    BY <1>18, Zenon DEF TokenSeen
  <2> QED
    BY <1>a, <1>c, <2>1 DEF SessionRest
<1>19. CASE UNCHANGED sessionVars
  <2>1. UNCHANGED <<token, seen, failed, call>>
    BY <1>19, Zenon DEF sessionVars
  <2> QED
    BY <1>c, <1>d, <2>1, Zenon
<1>20. CASE StopCall
  <2>1. PICK o \in Objects : StopHalts(o, FALSE)
    BY <1>20 DEF StopCall
  <2> QED
    BY <1>0, <1>10, <2>1, Zenon
<1> QED
  BY <1>1, <1>2, <1>3, <1>4, <1>5, <1>6, <1>7, <1>8, <1>9, <1>11, <1>12, <1>13, <1>14, <1>15, <1>16,
     <1>17, <1>18, <1>19, <1>20, Zenon DEF SessionNext, UserNext

\* Only a session is taken for ended.
LEMMA MisledStep ==
    SessionInv /\ misled \subseteq Objects /\ [SessionNext]_sessionVars => misled' \subseteq Objects
<1> SUFFICES ASSUME SessionInv, misled \subseteq Objects, [SessionNext]_sessionVars
             PROVE  misled' \subseteq Objects
  OBVIOUS
<1>1. ASSUME NEW o \in Objects, Judged(o) PROVE misled' \subseteq Objects
  BY <1>1, Zenon DEF Judged
<1>2. CASE UNCHANGED misled
  BY <1>2
<1>3. CASE UserNext
  <2>1. CASE Acquire \/ Acquired \/ AcquireRaises \/ Claim \/ Enable \/ EnableRaises \/ Confirmed
    BY <1>2, <2>1, Zenon
       DEF Acquire, Acquired, AcquireRaises, Claim, Enable, EnableRaises, Confirmed
  <2>2. CASE NotConfirmed \/ StopCall \/ StopVerb \/ StopVerbRaises
    BY <1>2, <2>2, Zenon DEF NotConfirmed, StopCall, StopHalts, StopVerb, StopVerbRaises
  <2>3. CASE \E o \in Objects : Observe(o) \/ LoseTheNode(o)
    BY <1>1, <1>2, <2>3, Zenon DEF Observe, LoseTheNode
  <2>4. CASE StopJudges
    <3>1. call.of \in Objects
      BY <2>4, ObjectNumbers DEF StopJudges, SessionInv, SessionTypes, CallsAt
    <3> QED
      BY <1>1, <2>4, <3>1, Zenon DEF StopJudges
  <2>5. CASE Exit \/ Release \/ Undeclare \/ ArmStop \/ Abandon
    BY <1>2, <2>5, Zenon DEF Exit, StopHalts, Release, Undeclare, ArmStop, Abandon
  <2> QED
    BY <1>3, <2>1, <2>2, <2>3, <2>4, <2>5, Zenon DEF UserNext
<1>4. CASE SessionStateArrives \/ TokenSeen \/ NodeActs \/ UNCHANGED sessionVars
  BY <1>2, <1>4, Zenon DEF SessionStateArrives, TokenSeen, NodeActs, sessionVars
<1> QED
  BY <1>3, <1>4, Zenon DEF SessionNext

\* The types are those that the run checks.
LEMMA SessionIsTyped == SessionInv /\ SessionRest /\ misled \subseteq Objects => SessionTypeOK
  BY ObjectNumbers
     DEF SessionInv, StatesKept, SessionTypes, SessionRest, SessionTypeOK, ObjectCount

-----------------------------------------------------------------------------
\* The counts of the sessions: one more than the recoveries, and in a recovery not yet one.
TeleopFlags ==
    /\ armed \in BOOLEAN /\ tripped \in BOOLEAN /\ needRelatch \in BOOLEAN /\ prevEngaged \in BOOLEAN
    /\ held \in BOOLEAN /\ quiet \in BOOLEAN /\ enabled \in BOOLEAN

TeleopTurns ==
    {"poll", "advance", "wire", "wire speed", "wire drive", "advance again", "keepalive", "fault", "recover",
     "await clean", "acquire", "enable", "await active", "stop", "release", "end"}
TeleopCounts ==
    /\ does \in TeleopTurns /\ put \in {"none", "drive", "dq_hold", "keepalive"}
    /\ recoveries \in 0..MaxRecoveries
    /\ does = "recover" => recoveries < MaxRecoveries
    /\ arm.session <= recoveries + 1
    /\ does \in {"await clean", "acquire", "enable"} => arm.session <= recoveries
    /\ armState.of.session <= arm.session
    /\ lastTarget = NoTarget \/ lastTarget \in 0..arm.session

\* Teleoperation starts in the first session.
LEMMA TeleopRestInitially == VrInit => TeleopFlags /\ TeleopCounts
<1> SUFFICES ASSUME VrInit PROVE TeleopFlags /\ TeleopCounts
  OBVIOUS
<1>1. TeleopFlags
  BY DEF VrInit, TeleopFlags
<1>2. arm.session = 1 /\ armState.of = arm /\ recoveries = 0 /\ lastTarget = NoTarget /\ does = "poll" /\ put = "none"
  BY DEF VrInit
<1>3. TeleopCounts
  BY <1>2, TeleopAssumption DEF TeleopCounts, TeleopTurns
<1> QED
  BY <1>1, <1>3

\* Each step of the loop, of the node and of the operator keeps the flags' types.
LEMMA TeleopFlagsStep == TeleopFlags /\ [VrNext]_vrVars => TeleopFlags'
<1> SUFFICES ASSUME TeleopFlags, [VrNext]_vrVars PROVE TeleopFlags'
  OBVIOUS
<1> USE DEF TeleopFlags, flags
<1>1. CASE Poll
  BY <1>1 DEF Poll
<1>2. CASE AdvanceSample
  BY <1>2 DEF AdvanceSample, Advance, JointSpeed, Disarm, Broken, Publish
<1>3. CASE AdvanceTurn
  BY <1>3 DEF AdvanceTurn, Advance, JointSpeed, Disarm, Broken, Publish
<1>4. CASE OnWire
  BY <1>4 DEF OnWire, KeepsFlags, Refuse, NotFresh, PutsNothing
<1>5. CASE OnWireSpeed
  BY <1>5 DEF OnWireSpeed, JointSpeed, Disarm, Broken, Publish
<1>6. CASE OnWireDrive
  BY <1>6 DEF OnWireDrive, KeepsFlags, Refuse, NoState, Drive, PutsNothing, Broken, Publish
<1>7. CASE Keepalive
  BY <1>7 DEF Keepalive, Publish, PutsNothing
<1>8. CASE FaultCheck
  BY <1>8 DEF FaultCheck, PutsNothing
<1>9. CASE Recover
  BY <1>9 DEF Recover, Disarm, Disarmed, PutsNothing
<1>10. CASE AwaitClean
  BY <1>10 DEF AwaitClean, PutsNothing
<1>11. CASE AcquireVerb
  BY <1>11 DEF AcquireVerb, PutsNothing
<1>12. CASE EnableVerb
  BY <1>12 DEF EnableVerb, PutsNothing
<1>13. CASE AwaitActive
  BY <1>13 DEF AwaitActive, SeedOfNewSession
<1>14. CASE StopArm
  BY <1>14 DEF StopArm, PutsNothing
<1>15. CASE ReleaseVerb
  BY <1>15 DEF ReleaseVerb, Close, PutsNothing
<1>16. CASE HoldEnds
  BY <1>16 DEF HoldEnds, PutsNothing
<1>17. CASE SourceQuiet
  BY <1>17 DEF SourceQuiet, PutsNothing
<1>18. CASE VrStateArrives
  BY <1>18 DEF VrStateArrives, PutsNothing
<1>19. CASE StatesStop
  BY <1>19 DEF StatesStop, PutsNothing
<1>20. CASE ArmActs
  BY <1>20 DEF ArmActs, PutsNothing
<1>21. CASE UNCHANGED vrVars
  BY <1>21 DEF vrVars
<1> QED
  BY <1>1, <1>2, <1>3, <1>4, <1>5, <1>6, <1>7, <1>8, <1>9, <1>10, <1>11, <1>12, <1>13, <1>14, <1>15, <1>16, <1>17, <1>18, <1>19, <1>20, <1>21, Zenon DEF VrNext, LoopNext

\* Each step keeps the counts: a session begins only in a recovery.
LEMMA TeleopCountsStep == TeleopInv /\ TeleopCounts /\ [VrNext]_vrVars => TeleopCounts'
<1> SUFFICES ASSUME TeleopInv, TeleopCounts, [VrNext]_vrVars PROVE TeleopCounts'
  OBVIOUS
<1> DEFINE Ok(t) == t = NoTarget \/ t \in 0..arm.session
           Puts == {"none", "drive", "dq_hold", "keepalive"}
<1> HIDE DEF Ok, Puts
<1>0. /\ TeleopType /\ arm.session \in Nat /\ armState.of.session \in Nat /\ recoveries \in Nat
      /\ MaxRecoveries \in Nat /\ Ok(lastTarget) /\ Ok(armState.of.session) /\ Ok(NoTarget)
  <2>1. TeleopType /\ arm \in AnyArm /\ armState.of \in AnyArm
    BY DEF TeleopInv, TeleopType
  <2>2. arm.session \in Nat /\ armState.of.session \in Nat
    BY <2>1 DEF AnyArm
  <2>3. recoveries \in 0..MaxRecoveries /\ armState.of.session <= arm.session
        /\ (lastTarget = NoTarget \/ lastTarget \in 0..arm.session)
    BY DEF TeleopCounts
  <2> QED
    BY <2>1, <2>2, <2>3, TeleopAssumption DEF Ok
<1>a. ASSUME NEW why \in Puts, NEW seed, Ok(seed), Publish(why, seed) PROVE put' \in Puts /\ Ok(lastTarget')
  <2>1. put' = "none" \/ put' = why
    BY <1>a, Zenon DEF Publish
  <2>2. lastTarget' = seed \/ lastTarget' = armState.of.session
    BY <1>a, Zenon DEF Publish
  <2> QED
    BY <1>0, <1>a, <2>1, <2>2 DEF Puts
<1>b. ASSUME NEW seed, Ok(seed), JointSpeed(seed) PROVE put' \in Puts /\ Ok(lastTarget')
  <2>1. CASE Publish("dq_hold", seed)
    <3>1. "dq_hold" \in Puts
      BY DEF Puts
    <3> QED
      BY <1>a, <1>b, <2>1, <3>1, Zenon
  <2>2. CASE put' = "none" /\ lastTarget' = seed
    BY <1>b, <2>2 DEF Puts
  <2> QED
    BY <1>b, <2>1, <2>2, Zenon DEF JointSpeed
<1>c. ASSUME UNCHANGED <<arm, armState, recoveries>>, put' \in Puts, Ok(lastTarget'),
             does' \in TeleopTurns \ {"recover", "await clean", "acquire", "enable"}
      PROVE  TeleopCounts'
  <2>1. recoveries \in 0..MaxRecoveries /\ arm.session <= recoveries + 1 /\ armState.of.session <= arm.session
    BY DEF TeleopCounts
  <2>2. lastTarget' = NoTarget \/ lastTarget' \in 0..arm'.session
    BY <1>c DEF Ok
  <2> QED
    BY <1>c, <2>1, <2>2 DEF TeleopCounts, TeleopTurns, Puts
<1>e. ASSUME arm'.session = arm.session, UNCHANGED recoveries, lastTarget' \in {lastTarget, NoTarget}, put' \in Puts,
             does' \in TeleopTurns, armState'.of.session \in {armState.of.session, arm.session},
             does' \in {"await clean", "acquire", "enable"} => arm.session <= recoveries,
             does' = "recover" => recoveries < MaxRecoveries
      PROVE  TeleopCounts'
  <2>1. recoveries \in 0..MaxRecoveries /\ arm.session <= recoveries + 1 /\ armState.of.session <= arm.session
    BY DEF TeleopCounts
  <2>2. arm'.session <= recoveries' + 1 /\ recoveries' \in 0..MaxRecoveries
    BY <1>e, <2>1
  <2>3. arm.session <= arm.session
    BY <1>0
  <2>4. armState'.of.session <= arm'.session
    BY <1>e, <2>1, <2>3
  <2>5. lastTarget' = NoTarget \/ lastTarget' \in 0..arm'.session
    BY <1>0, <1>e DEF Ok
  <2>6. /\ does' \in {"await clean", "acquire", "enable"} => arm'.session <= recoveries'
        /\ does' = "recover" => recoveries' < MaxRecoveries
    BY <1>e
  <2> QED
    BY <1>e, <2>2, <2>4, <2>5, <2>6 DEF TeleopCounts, Puts
<1>f. /\ arm \in AnyArm /\ "none" \in Puts /\ does \in TeleopTurns
      /\ {"advance", "advance again", "wire", "poll", "stop", "release", "end", "acquire", "enable", "fault"} \subseteq TeleopTurns
      /\ does \in {"await clean", "acquire", "enable"} => arm.session <= recoveries
      /\ does = "recover" => recoveries < MaxRecoveries
      /\ recoveries \in 0..MaxRecoveries /\ arm.session <= recoveries + 1 /\ armState.of.session <= arm.session
  BY <1>0 DEF TeleopType, TeleopCounts, TeleopTurns, Puts
<1>d. Ok(Seeded)
  BY <1>0 DEF Seeded
<1>1. CASE Poll
  <2>1. does' \in {"advance", "advance again"} /\ put' = "none" /\ UNCHANGED <<lastTarget, armState, recoveries, arm>>
    BY <1>1 DEF Poll
  <2> QED
    BY <1>e, <1>f, <2>1
<1>2. CASE AdvanceSample
  <2>1. JointSpeed(Seeded) /\ does' = "wire" /\ UNCHANGED <<armState, recoveries, arm>>
    BY <1>2, Zenon DEF AdvanceSample, Advance
  <2>2. put' \in Puts /\ Ok(lastTarget')
    BY <1>b, <1>d, <2>1, Zenon
  <2>3. does' \in TeleopTurns \ {"recover", "await clean", "acquire", "enable"}
    BY <2>1 DEF TeleopTurns
  <2> QED
    BY <1>c, <2>1, <2>2, <2>3
<1>3. CASE AdvanceTurn
  <2>1. JointSpeed(Seeded) /\ does' = "keepalive" /\ UNCHANGED <<armState, recoveries, arm>>
    BY <1>3, Zenon DEF AdvanceTurn, Advance
  <2>2. put' \in Puts /\ Ok(lastTarget')
    BY <1>b, <1>d, <2>1, Zenon
  <2>3. does' \in TeleopTurns \ {"recover", "await clean", "acquire", "enable"}
    BY <2>1 DEF TeleopTurns
  <2> QED
    BY <1>c, <2>1, <2>2, <2>3
<1>4. CASE OnWire
  <2>1. does' \in {"advance again", "wire speed"} /\ put' = "none" /\ UNCHANGED <<lastTarget, armState, recoveries, arm>>
    BY <1>4 DEF OnWire, KeepsFlags, Refuse, NotFresh, PutsNothing
  <2> QED
    BY <1>e, <1>f, <2>1 DEF TeleopTurns
<1>5. CASE OnWireSpeed
  <2>1. JointSpeed(lastTarget) /\ does' = "wire drive" /\ UNCHANGED <<armState, recoveries, arm>>
    BY <1>5, Zenon DEF OnWireSpeed
  <2>2. put' \in Puts /\ Ok(lastTarget')
    BY <1>0, <1>b, <2>1, Zenon
  <2>3. does' \in TeleopTurns \ {"recover", "await clean", "acquire", "enable"}
    BY <2>1 DEF TeleopTurns
  <2> QED
    BY <1>c, <2>1, <2>2, <2>3
<1>6. CASE OnWireDrive
  <2>1. does' = "advance again" /\ UNCHANGED <<armState, recoveries, arm>>
        /\ (Publish("drive", lastTarget) \/ PutsNothing)
    BY <1>6, Zenon DEF OnWireDrive, KeepsFlags, Refuse, NoState, Drive
  <2>2. put' \in Puts /\ Ok(lastTarget')
    <3>1. CASE Publish("drive", lastTarget)
      <4>1. "drive" \in Puts
        BY DEF Puts
      <4> QED
        BY <1>0, <1>a, <3>1, <4>1, Zenon
    <3>2. CASE PutsNothing
      BY <1>0, <3>2 DEF PutsNothing, Puts
    <3> QED
      BY <2>1, <3>1, <3>2
  <2>3. does' \in TeleopTurns \ {"recover", "await clean", "acquire", "enable"}
    BY <2>1 DEF TeleopTurns
  <2> QED
    BY <1>c, <2>1, <2>2, <2>3
<1>7. CASE Keepalive
  <2>1. does' = "fault" /\ UNCHANGED <<armState, recoveries, arm>>
        /\ (Publish("keepalive", lastTarget) \/ PutsNothing)
    BY <1>7, Zenon DEF Keepalive
  <2>2. put' \in Puts /\ Ok(lastTarget')
    <3>1. CASE Publish("keepalive", lastTarget)
      <4>1. "keepalive" \in Puts
        BY DEF Puts
      <4> QED
        BY <1>0, <1>a, <3>1, <4>1, Zenon
    <3>2. CASE PutsNothing
      BY <1>0, <3>2 DEF PutsNothing, Puts
    <3> QED
      BY <2>1, <3>1, <3>2
  <2>3. does' \in TeleopTurns \ {"recover", "await clean", "acquire", "enable"}
    BY <2>1 DEF TeleopTurns
  <2> QED
    BY <1>c, <2>1, <2>2, <2>3
<1>8. CASE FaultCheck
  <2>1. /\ does' \in {"recover", "stop", "poll"} /\ (does' = "recover" => recoveries < MaxRecoveries)
        /\ put' = "none" /\ UNCHANGED <<lastTarget, armState, recoveries, arm>>
    BY <1>8 DEF FaultCheck, PutsNothing
  <2> QED
    BY <1>e, <1>f, <2>1 DEF TeleopTurns
<1>9. CASE Recover
  <2>1. /\ does = "recover" /\ does' = "await clean" /\ put' = "none" /\ recoveries' = recoveries + 1
        /\ UNCHANGED <<lastTarget, armState, arm>>
    BY <1>9 DEF Recover, PutsNothing
  <2>2. recoveries < MaxRecoveries
    BY <1>f, <2>1
  <2>3. recoveries' \in 0..MaxRecoveries /\ arm'.session <= recoveries' /\ arm'.session <= recoveries' + 1
    <3>1. /\ recoveries \in Nat /\ MaxRecoveries \in Nat /\ arm.session \in Nat
          /\ arm.session <= recoveries + 1 /\ recoveries < MaxRecoveries
      BY <1>0, <1>f, <2>2
    <3>2. arm'.session = arm.session /\ recoveries' = recoveries + 1
      BY <2>1
    <3>3. recoveries' \in 0..MaxRecoveries /\ arm.session <= recoveries' /\ arm.session <= recoveries' + 1
      BY <3>1, <3>2
    <3> QED
      BY <3>2, <3>3
  <2>4. lastTarget' = NoTarget \/ lastTarget' \in 0..arm'.session
    BY <1>0, <2>1 DEF Ok
  <2> QED
    BY <1>f, <2>1, <2>3, <2>4 DEF TeleopCounts, TeleopTurns
<1>10. CASE AwaitClean
  <2>1. does = "await clean" /\ does' \in {"acquire", "stop"} /\ UNCHANGED <<arm, armState, recoveries, lastTarget>> /\ put' = "none"
    BY <1>10 DEF AwaitClean, PutsNothing
  <2> QED
    BY <1>e, <1>f, <2>1
<1>11. CASE AcquireVerb
  <2>1. does = "acquire" /\ does' \in {"enable", "stop"} /\ UNCHANGED <<armState, recoveries, lastTarget>> /\ put' = "none"
    BY <1>11 DEF AcquireVerb, PutsNothing
  <2>2. arm'.session = arm.session
    BY <1>11, <1>f DEF AcquireVerb, AnyArm
  <2> QED
    BY <1>e, <1>f, <2>1, <2>2
<1>12. CASE EnableVerb
  <2>1. CASE does' = "stop" /\ UNCHANGED <<arm, armState, recoveries, lastTarget>> /\ put' = "none"
    BY <1>e, <1>f, <2>1
  <2>2. CASE /\ does = "enable" /\ does' = "await active" /\ UNCHANGED <<armState, recoveries, lastTarget>>
             /\ put' = "none" /\ arm' = [arm EXCEPT !.phase = "active", !.session = @ + 1]
    <3>1. arm'.session = arm.session + 1
      BY <1>f, <2>2 DEF AnyArm
    <3>2. arm.session <= recoveries
      BY <1>f, <2>2
    <3>3. /\ recoveries \in Nat /\ arm.session \in Nat /\ armState.of.session \in Nat
          /\ armState.of.session <= arm.session /\ (lastTarget = NoTarget \/ lastTarget \in 0..arm.session)
      BY <1>0, <1>f DEF Ok
    <3>a. arm.session + 1 <= recoveries + 1 /\ armState.of.session <= arm.session + 1
          /\ (lastTarget = NoTarget \/ lastTarget \in 0..(arm.session + 1))
      BY <3>2, <3>3
    <3>b. armState'.of.session = armState.of.session /\ recoveries' = recoveries /\ lastTarget' = lastTarget
      BY <2>2, Zenon
    <3>4. lastTarget' = NoTarget \/ lastTarget' \in 0..arm'.session
      BY <3>1, <3>a, <3>b, Zenon
    <3>5. armState'.of.session <= arm'.session /\ arm'.session <= recoveries' + 1
      BY <3>1, <3>a, <3>b, Zenon
    <3> QED
      BY <1>f, <2>2, <3>4, <3>5 DEF TeleopCounts, TeleopTurns
  <2> QED
    BY <1>12, <2>1, <2>2, Zenon DEF EnableVerb, PutsNothing
<1>13. CASE AwaitActive
  <2>1. /\ does' \in {"poll", "stop"} /\ UNCHANGED <<arm, armState, recoveries>> /\ put' = "none"
        /\ lastTarget' \in {lastTarget, NoTarget}
    BY <1>13 DEF AwaitActive, SeedOfNewSession
  <2> QED
    BY <1>e, <1>f, <2>1
<1>14. CASE StopArm
  <2>1. does' = "release" /\ UNCHANGED <<armState, recoveries, lastTarget>> /\ put' = "none"
    BY <1>14 DEF StopArm, PutsNothing
  <2>2. arm'.session = arm.session
    BY <1>14, <1>f DEF StopArm, AnyArm
  <2> QED
    BY <1>e, <1>f, <2>1, <2>2
<1>15. CASE ReleaseVerb
  <2>1. does' = "end" /\ UNCHANGED <<armState, recoveries, lastTarget>> /\ put' = "none"
    BY <1>15 DEF ReleaseVerb, PutsNothing
  <2>2. arm'.session = arm.session
    BY <1>15, <1>f DEF ReleaseVerb, Close, AnyArm
  <2> QED
    BY <1>e, <1>f, <2>1, <2>2
<1>16. CASE HoldEnds \/ SourceQuiet
  <2>1. UNCHANGED <<does, arm, armState, recoveries, lastTarget>> /\ put' = "none"
    BY <1>16 DEF HoldEnds, SourceQuiet, PutsNothing
  <2> QED
    BY <1>e, <1>f, <2>1
<1>17. CASE VrStateArrives
  <2>1. armState'.of = arm /\ put' = "none" /\ UNCHANGED <<does, lastTarget, recoveries, arm>>
    BY <1>17 DEF VrStateArrives, PutsNothing
  <2> QED
    BY <1>e, <1>f, <2>1
<1>18. CASE StatesStop
  <2>1. put' = "none" /\ UNCHANGED <<does, lastTarget, recoveries, arm>>
    BY <1>18 DEF StatesStop, PutsNothing
  <2>2. armState'.of.session = armState.of.session
    BY <1>18, <1>0 DEF StatesStop, TeleopType
  <2> QED
    BY <1>e, <1>f, <2>1, <2>2
<1>19. CASE ArmActs
  <2>1. put' = "none" /\ UNCHANGED <<does, lastTarget, recoveries, armState>>
    BY <1>19 DEF ArmActs, PutsNothing
  <2>2. arm'.session = arm.session
    BY <1>19, <1>f DEF ArmActs, AnyArm
  <2> QED
    BY <1>e, <1>f, <2>1, <2>2
<1>20. CASE UNCHANGED vrVars
  BY <1>20 DEF vrVars, TeleopCounts
<1> QED
  BY <1>1, <1>2, <1>3, <1>4, <1>5, <1>6, <1>7, <1>8, <1>9, <1>10,
     <1>11, <1>12, <1>13, <1>14, <1>15, <1>16, <1>17, <1>18, <1>19, <1>20, Zenon DEF VrNext, LoopNext

\* The types are those that the run checks.
LEMMA TeleopIsTyped == TeleopInv /\ TeleopFlags /\ TeleopCounts => VrTypeOK
<1> SUFFICES ASSUME TeleopInv, TeleopFlags, TeleopCounts PROVE VrTypeOK
  OBVIOUS
<1>0. arm.session \in Nat /\ armState.of.session \in Nat /\ recoveries \in 0..MaxRecoveries
  <2>1. arm \in AnyArm /\ armState.of \in AnyArm
    BY DEF TeleopInv, TeleopType
  <2> QED
    BY <2>1 DEF AnyArm, TeleopCounts
<1>1. /\ arm.session \in 0..(MaxRecoveries + 1) /\ armState.of.session \in 0..(MaxRecoveries + 1)
      /\ lastTarget = NoTarget \/ lastTarget \in 0..(MaxRecoveries + 1)
  <2>1. armState.of.session <= arm.session /\ arm.session <= recoveries + 1
        /\ (lastTarget = NoTarget \/ lastTarget \in 0..arm.session)
    BY DEF TeleopCounts
  <2> QED
    BY <1>0, <2>1, TeleopAssumption
<1>2. arm \in ArmStates /\ armState.of \in ArmStates /\ armState.age \in Ages /\ armState.dq \in Speeds
  BY <1>1 DEF TeleopInv, TeleopType, AnyArm, ArmPhases, ArmStates
<1>3. armState.finite \in BOOLEAN
  BY Zenon DEF TeleopInv, TeleopType
<1>4. {armed, tripped, needRelatch, prevEngaged, held, quiet, enabled} \subseteq BOOLEAN
  BY DEF TeleopFlags
<1>5. lastTarget \in 0..(MaxRecoveries + 1) \cup {NoTarget} /\ recoveries \in 0..MaxRecoveries
  BY <1>0, <1>1
<1> HIDE DEF TeleopFlags
<1>6. does \in TeleopTurns /\ put \in {"none", "drive", "dq_hold", "keepalive"}
  BY DEF TeleopCounts
<1> QED
  BY <1>2, <1>3, <1>4, <1>5, <1>6, Zenon DEF VrTypeOK, TeleopTurns

-----------------------------------------------------------------------------
\* The places and eras that the streamer and the node know of, and the rows it still follows.
TargetsKnown ==
    /\ joints \in BOOLEAN /\ current \in Line /\ aim \in Line /\ chunk \in Seq(Line)
    /\ latest \in [target : Line, at : Line, accepted : Nat, refused : BOOLEAN]
    /\ nodeSide \in [target : Line, at : Line, accepted : Nat, refused : BOOLEAN]
    /\ inflight = <<>> \/ (inflight = <<Head(inflight)>> /\ Head(inflight).to \in Line)

\* Every era costs a goal of the user, twice: it begins with the goal and with its first target.
EraBudget ==
    /\ budget.goals \in Nat /\ "goals" \in DOMAIN budget
    /\ era.next + 2 * (Len(chunk) + budget.goals) <= 2 * MaxGoals + (IF goalSeq = NoGoalSeq THEN 1 ELSE 2)

\* An era that anyone knows of has begun.
ErasBegun ==
    /\ goalSeq = NoGoalSeq \/ goalSeq <= era.next
    /\ latest.accepted <= era.next /\ nodeSide.accepted <= era.next
    /\ inflight # <<>> => Head(inflight).era <= era.next

\* A point on the way between two places is a place.
LEMMA TowardStays ==
    ASSUME NEW a \in Line, NEW b \in Line, NEW d \in Nat PROVE Toward(a, b, d) \in Line
<1>1. a \in Int /\ b \in Int /\ a..b \subseteq Line /\ b..a \subseteq Line
  BY LineAssumption
<1>2. CASE b > a + d
  <2>1. a + d \in a..b
    BY <1>1, <1>2
  <2> QED
    BY <1>1, <1>2, <2>1 DEF Toward
<1>3. CASE ~(b > a + d) /\ b < a - d
  <2>1. a - d \in b..a
    BY <1>1, <1>3
  <2> QED
    BY <1>1, <1>3, <2>1 DEF Toward
<1>4. CASE ~(b > a + d) /\ ~(b < a - d)
  BY <1>4 DEF Toward
<1> QED
  BY <1>2, <1>3, <1>4

\* So is every step.
LEMMA SteppedStays ==
    ASSUME TargetsKnown PROVE Stepped(Resumed, latest) \in Line
<1>1. latest.at \in Line /\ latest.target \in Line /\ current \in Line /\ aim \in Line
  BY DEF TargetsKnown
<1>2. Resumed \in Line
  BY <1>1 DEF Resumed
<1>3. StepCap \in Nat /\ (IF joints THEN JointLead ELSE Lead) \in Nat
  BY LeadAssumption
<1>4. Toward(Resumed, aim, StepCap) \in Line
  BY <1>1, <1>2, <1>3, TowardStays
<1> DEFINE led == Toward(latest.at, Toward(Resumed, aim, StepCap), IF joints THEN JointLead ELSE Lead)
<1>5. led \in Line
  BY <1>1, <1>3, <1>4, TowardStays
<1>6. Stepped(Resumed, latest) = IF joints THEN Toward(Resumed, led, StepCap) ELSE led
  BY DEF Stepped
<1> HIDE DEF led
<1>7. Toward(Resumed, led, StepCap) \in Line
  BY <1>2, <1>3, <1>5, TowardStays
<1> QED
  BY <1>5, <1>6, <1>7, Zenon

\* The rows after some of a chunk.
LEMMA RowsOf ==
    ASSUME NEW S, NEW q \in Seq(S)
    PROVE  /\ Len(q) \in Nat /\ (\A i \in DOMAIN q : q[i] \in S)
           /\ q # <<>> => Head(q) \in S /\ Tail(q) \in Seq(S) /\ Len(Tail(q)) = Len(q) - 1
           /\ \A i \in DOMAIN q : SubSeq(q, i + 1, Len(q)) \in Seq(S) /\ Len(SubSeq(q, i + 1, Len(q))) = Len(q) - i
                                  /\ i \in 1..Len(q)
           /\ <<>> \in Seq(S) /\ Len(<<>>) = 0
  OBVIOUS

\* No goal is set at the start.
LEMMA TargetsKnownInitially == TargetsInit => TargetsKnown /\ EraBudget /\ ErasBegun
<1> SUFFICES ASSUME TargetsInit PROVE TargetsKnown /\ EraBudget /\ ErasBegun
  OBVIOUS
<1>1. 0 \in Line /\ <<>> \in Seq(Line) /\ Len(<<>>) = 0 /\ MaxGoals \in Nat
  BY LineAssumption
<1>2. TargetsKnown
  BY <1>1 DEF TargetsInit, TargetsKnown
<1>3. EraBudget
  BY <1>1 DEF TargetsInit, EraBudget
<1>4. ErasBegun
  BY DEF TargetsInit, ErasBegun
<1> QED
  BY <1>2, <1>3, <1>4

\* Each goal, state and wake-up keeps the places.
LEMMA TargetsKnownStep == WaitInv /\ TargetsKnown /\ [TargetsNext]_targetsVars => TargetsKnown'
<1> SUFFICES ASSUME WaitInv, TargetsKnown, [TargetsNext]_targetsVars PROVE TargetsKnown'
  OBVIOUS
<1>0. /\ chunk \in Seq(Line) /\ latest.at \in Line /\ latest.target \in Line /\ nodeSide.at \in Line
      /\ nodeSide.target \in Line /\ 1 \in Nat
  BY DEF TargetsKnown
<1>a. ASSUME NEW g \in Line, GoalIs(g), chunk' \in Seq(Line), UNCHANGED <<joints, current, latest, inflight, nodeSide>>
      PROVE  TargetsKnown'
  <2>1. aim' \in Line
    BY <1>a DEF GoalIs
  <2> QED
    BY <1>a, <2>1 DEF TargetsKnown
<1>1. CASE MoveTo
  <2>1. <<>> \in Seq(Line)
    OBVIOUS
  <2> QED
    BY <1>1, <1>a, <2>1 DEF MoveTo
<1>2. CASE Follows
  <2>1. PICK rows \in Rows : /\ chunk' = Tail(rows) /\ GoalIs(Head(rows))
                             /\ UNCHANGED <<joints, current, latest, inflight, nodeSide>>
    BY <1>2 DEF Follows
  <2>2. Head(rows) \in Line /\ Tail(rows) \in Seq(Line)
    BY LineAssumption, RowsOf
  <2> QED
    BY <1>a, <2>1, <2>2
<1>3. CASE AdvanceChunk
  <2>1. PICK i \in DOMAIN chunk : chunk' = SubSeq(chunk, i + 1, Len(chunk)) /\ GoalIs(chunk[i])
    BY <1>3 DEF AdvanceChunk
  <2>2. chunk' \in Seq(Line) /\ chunk[i] \in Line
    BY <1>0, <2>1, RowsOf
  <2> QED
    BY <1>3, <1>a, <2>1, <2>2 DEF AdvanceChunk
<1>4. CASE Cycle
  <2> DEFINE next == Stepped(Resumed, latest)
             e == IF goalSeq = NoGoalSeq /\ next = aim THEN era.next + 1 ELSE era.next
  <2>1. /\ current' = next /\ inflight' = Append(<<>>, [to |-> next, era |-> e])
        /\ latest' = [latest EXCEPT !.refused = FALSE] /\ UNCHANGED <<joints, aim, chunk, nodeSide>>
    BY <1>4, Zenon DEF Cycle
  <2>2. next \in Line
    BY SteppedStays
  <2> HIDE DEF next, e
  <2>3. inflight' = <<Head(inflight')>> /\ Head(inflight').to \in Line
    BY <2>1, <2>2
  <2>4. latest' \in [target : Line, at : Line, accepted : Nat, refused : BOOLEAN]
    BY <2>1 DEF TargetsKnown
  <2> QED
    BY <2>1, <2>2, <2>3, <2>4 DEF TargetsKnown
<1>5. CASE NodeTakes
  <2>1. /\ inflight # <<>> /\ inflight' = Tail(inflight)
        /\ UNCHANGED <<joints, current, aim, chunk, latest>>
        /\ \/ nodeSide' = [nodeSide EXCEPT !.target = Head(inflight).to, !.accepted = Head(inflight).era]
           \/ nodeSide' = [nodeSide EXCEPT !.refused = TRUE]
    BY <1>5, Zenon DEF NodeTakes
  <2>2. Head(inflight).to \in Line /\ Head(inflight).era \in Nat /\ Tail(inflight) = <<>>
    BY <2>1 DEF TargetsKnown, WaitInv
  <2>3. nodeSide' \in [target : Line, at : Line, accepted : Nat, refused : BOOLEAN]
    BY <2>1, <2>2 DEF TargetsKnown
  <2> QED
    BY <2>1, <2>2, <2>3 DEF TargetsKnown
<1>6. CASE TargetLost
  BY <1>6 DEF TargetLost, TargetsKnown
<1>7. CASE ArmMoves
  <2>1. Toward(nodeSide.at, nodeSide.target, 1) \in Line
    BY <1>0, TowardStays
  <2>2. nodeSide' = [nodeSide EXCEPT !.at = Toward(nodeSide.at, nodeSide.target, 1)]
    BY <1>7 DEF ArmMoves
  <2> QED
    BY <1>7, <2>1, <2>2 DEF ArmMoves, TargetsKnown
<1>8. CASE HandMoves
  BY <1>8 DEF HandMoves, TargetsKnown
<1>9. CASE TargetStateArrives
  BY <1>9 DEF TargetStateArrives, TargetsKnown
<1>10. CASE UNCHANGED targetsVars
  BY <1>10 DEF targetsVars, TargetsKnown
<1> QED
  BY <1>1, <1>2, <1>3, <1>4, <1>5, <1>6, <1>7, <1>8, <1>9, <1>10 DEF TargetsNext

\* Each goal, state and wake-up keeps the budget of the eras.
LEMMA EraBudgetStep == WaitInv /\ TargetsKnown /\ EraBudget /\ [TargetsNext]_targetsVars => EraBudget'
<1> SUFFICES ASSUME WaitInv, TargetsKnown, EraBudget, [TargetsNext]_targetsVars PROVE EraBudget'
  OBVIOUS
<1> DEFINE Firsts == IF goalSeq = NoGoalSeq THEN 1 ELSE 2
<1>0. /\ era.next \in Nat /\ Len(chunk) \in Nat /\ budget.goals \in Nat /\ MaxGoals \in Nat /\ Firsts \in {1, 2}
      /\ era.next + 2 * (Len(chunk) + budget.goals) <= 2 * MaxGoals + Firsts
      /\ "goals" \in DOMAIN budget
  BY LineAssumption DEF WaitInv, TargetsKnown, EraBudget
<1>a. ASSUME NEW g, GoalIs(g)
      PROVE  era'.next + Firsts <= era.next + 2 + Firsts' /\ era'.next \in Nat /\ Firsts' \in {1, 2}
  <2>1. CASE g = aim
    <3>1. era' = era /\ goalSeq' = goalSeq
      BY <1>a, <2>1, Zenon DEF GoalIs
    <3> QED
      BY <1>0, <3>1
  <2>2. CASE g # aim
    <3>1. era'.next = era.next + 1 /\ goalSeq' = NoGoalSeq
      BY <1>a, <2>2 DEF GoalIs
    <3> QED
      BY <1>0, <3>1
  <2> QED
    BY <2>1, <2>2
<1>b. ASSUME NEW n \in Nat, NEW c \in Nat, budget'.goals = n, "goals" \in DOMAIN budget', Len(chunk') = c,
             c + n + 1 <= Len(chunk) + budget.goals,
             era'.next + Firsts <= era.next + 2 + Firsts', era'.next \in Nat, Firsts' \in {1, 2}
      PROVE  EraBudget'
  <2>1. era'.next + 2 * (c + n) <= 2 * MaxGoals + Firsts'
    <3> DEFINE f == Firsts
               e == era'.next
               h == Firsts'
               l == Len(chunk)
               b == budget.goals
               x == era.next
    <3>1. /\ f \in {1, 2} /\ e \in Nat /\ h \in {1, 2} /\ l \in Nat /\ b \in Nat /\ x \in Nat
          /\ x + 2 * (l + b) <= 2 * MaxGoals + f /\ e + f <= x + 2 + h /\ c + n + 1 <= l + b
      BY <1>0, <1>b
    <3> HIDE DEF f, e, h, l, b, x
    <3>2. e + 2 * (c + n) <= 2 * MaxGoals + h
      BY <1>0, <3>1
    <3> QED
      BY <3>2 DEF e, h
  <2> QED
    BY <1>b, <2>1 DEF EraBudget
<1> HIDE DEF Firsts
<1>1. CASE MoveTo
  <2>1. PICK g \in Line : /\ budget.goals > 0 /\ budget' = [budget EXCEPT !.goals = @ - 1]
                          /\ chunk' = <<>> /\ GoalIs(g)
    BY <1>1, Zenon DEF MoveTo
  <2>2. budget'.goals = budget.goals - 1 /\ budget.goals - 1 \in Nat /\ "goals" \in DOMAIN budget' /\ Len(chunk') = 0
    BY <1>0, <2>1
  <2>3. 0 + (budget.goals - 1) + 1 <= Len(chunk) + budget.goals
    BY <1>0
  <2> QED
    BY <1>a, <1>b, <2>1, <2>2, <2>3
<1>2. CASE Follows
  <2>1. PICK rows \in Rows : /\ budget.goals >= Len(rows) /\ budget' = [budget EXCEPT !.goals = @ - Len(rows)]
                             /\ chunk' = Tail(rows) /\ GoalIs(Head(rows))
    BY <1>2, Zenon DEF Follows
  <2>2. Len(rows) \in Nat /\ Len(Tail(rows)) = Len(rows) - 1 /\ Len(Tail(rows)) \in Nat
    <3>1. rows \in Seq(Line) /\ rows # <<>>
      BY LineAssumption
    <3>2. Tail(rows) \in Seq(Line) /\ Len(rows) \in Nat /\ Len(Tail(rows)) = Len(rows) - 1
      BY <3>1, RowsOf
    <3> QED
      BY <3>2, RowsOf
  <2>3. /\ budget'.goals = budget.goals - Len(rows) /\ budget.goals - Len(rows) \in Nat
        /\ "goals" \in DOMAIN budget' /\ Len(chunk') = Len(rows) - 1 /\ Len(rows) - 1 \in Nat
    BY <1>0, <2>1, <2>2
  <2>4. (Len(rows) - 1) + (budget.goals - Len(rows)) + 1 <= Len(chunk) + budget.goals
    BY <1>0, <2>2
  <2> QED
    BY <1>a, <1>b, <2>1, <2>3, <2>4
<1>3. CASE AdvanceChunk
  <2>1. PICK i \in DOMAIN chunk : chunk' = SubSeq(chunk, i + 1, Len(chunk)) /\ GoalIs(chunk[i])
    BY <1>3 DEF AdvanceChunk
  <2>2. i \in 1..Len(chunk) /\ Len(chunk') = Len(chunk) - i
    BY <2>1, RowsOf DEF TargetsKnown
  <2>3. /\ budget'.goals = budget.goals /\ "goals" \in DOMAIN budget'
    BY <1>0, <1>3 DEF AdvanceChunk
  <2>4. Len(chunk) - i \in Nat /\ (Len(chunk) - i) + budget.goals + 1 <= Len(chunk) + budget.goals
    BY <1>0, <2>2
  <2> QED
    BY <1>0, <1>a, <1>b, <2>1, <2>2, <2>3, <2>4
<1>4. CASE Cycle
  <2>1. PICK next, e : /\ era' = [era EXCEPT !.next = e]
                       /\ IF goalSeq = NoGoalSeq /\ next = aim THEN goalSeq' = e /\ e = era.next + 1
                          ELSE goalSeq' = goalSeq /\ e = era.next
    <3> DEFINE n == Stepped(Resumed, latest)
               e == IF goalSeq = NoGoalSeq /\ n = aim THEN era.next + 1 ELSE era.next
    <3>1. era' = [era EXCEPT !.next = e] /\ goalSeq' = IF goalSeq = NoGoalSeq /\ n = aim THEN e ELSE goalSeq
      BY <1>4, Zenon DEF Cycle
    <3> HIDE DEF n
    <3>2. IF goalSeq = NoGoalSeq /\ n = aim THEN goalSeq' = e /\ e = era.next + 1
          ELSE goalSeq' = goalSeq /\ e = era.next
      BY <3>1
    <3> HIDE DEF e
    <3> QED
      BY <3>1, <3>2
  <2>2. era'.next = e /\ UNCHANGED <<chunk, budget>>
    BY <1>4, <2>1 DEF Cycle, WaitInv
  <2>3. CASE goalSeq = NoGoalSeq /\ next = aim
    <3>1. Firsts = 1 /\ e = era.next + 1 /\ (Firsts' = 1 \/ Firsts' = 2)
      BY <2>1, <2>3 DEF Firsts
    <3>2. Firsts' = 2
      <4>1. goalSeq' = e /\ e \in Nat
        BY <1>0, <2>1, <2>3, <3>1
      <4> QED
        BY <4>1, LineAssumption DEF Firsts
    <3> QED
      BY <1>0, <2>2, <3>1, <3>2 DEF EraBudget, Firsts
  <2>4. CASE ~(goalSeq = NoGoalSeq /\ next = aim)
    <3>1. goalSeq' = goalSeq /\ e = era.next
      BY <2>1, <2>4
    <3> QED
      BY <2>2, <3>1 DEF EraBudget
  <2> QED
    BY <2>3, <2>4
<1>5. CASE NodeTakes
  BY <1>5 DEF NodeTakes, EraBudget
<1>6. CASE TargetLost
  <2>1. budget'.goals = budget.goals /\ "goals" \in DOMAIN budget' /\ UNCHANGED <<era, chunk, goalSeq>>
    BY <1>6, <1>0 DEF TargetLost
  <2> QED
    BY <2>1 DEF EraBudget
<1>7. CASE ArmMoves \/ TargetStateArrives
  BY <1>7 DEF ArmMoves, TargetStateArrives, EraBudget
<1>8. CASE HandMoves
  <2>1. budget'.goals = budget.goals /\ "goals" \in DOMAIN budget' /\ UNCHANGED <<era, chunk, goalSeq>>
    BY <1>8, <1>0 DEF HandMoves
  <2> QED
    BY <2>1 DEF EraBudget
<1>9. CASE UNCHANGED targetsVars
  BY <1>9 DEF targetsVars, EraBudget
<1> QED
  BY <1>1, <1>2, <1>3, <1>4, <1>5, <1>6, <1>7, <1>8, <1>9 DEF TargetsNext

\* Each goal, state and wake-up keeps the eras that are known.
LEMMA ErasBegunStep == WaitInv /\ TargetsKnown /\ ErasBegun /\ [TargetsNext]_targetsVars => ErasBegun'
<1> SUFFICES ASSUME WaitInv, TargetsKnown, ErasBegun, [TargetsNext]_targetsVars PROVE ErasBegun'
  OBVIOUS
<1>0. /\ era.next \in Nat /\ latest.accepted \in Nat /\ nodeSide.accepted \in Nat
      /\ goalSeq = NoGoalSeq \/ goalSeq \in Nat
      /\ inflight # <<>> => Head(inflight).era \in Nat
      /\ goalSeq = NoGoalSeq \/ goalSeq <= era.next
      /\ latest.accepted <= era.next /\ nodeSide.accepted <= era.next
      /\ inflight # <<>> => Head(inflight).era <= era.next
  BY DEF WaitInv, ErasBegun
<1>a. ASSUME NEW g, GoalIs(g), UNCHANGED <<latest, nodeSide, inflight>> PROVE ErasBegun'
  <2>1. CASE g = aim
    <3>1. era' = era /\ goalSeq' = goalSeq
      BY <1>a, <2>1, Zenon DEF GoalIs
    <3> QED
      BY <1>a, <3>1 DEF ErasBegun
  <2>2. CASE g # aim
    <3>1. era'.next = era.next + 1 /\ goalSeq' = NoGoalSeq
      BY <1>a, <2>2 DEF GoalIs
    <3> QED
      BY <1>0, <1>a, <3>1 DEF ErasBegun
  <2> QED
    BY <2>1, <2>2
<1>1. CASE MoveTo
  BY <1>1, <1>a DEF MoveTo
<1>2. CASE Follows
  BY <1>2, <1>a DEF Follows
<1>3. CASE AdvanceChunk
  BY <1>3, <1>a DEF AdvanceChunk
<1>4. CASE Cycle
  <2>1. PICK next, e : /\ e \in {era.next, era.next + 1} /\ era' = [era EXCEPT !.next = e]
                       /\ goalSeq' \in {goalSeq, e}
                       /\ inflight' = Append(<<>>, [to |-> next, era |-> e])
    BY <1>4, Zenon DEF Cycle
  <2>2. era'.next = e /\ e \in Nat /\ era.next <= e
    BY <1>0, <2>1 DEF WaitInv
  <2>3. Head(inflight').era = e
    BY <2>1
  <2>4. nodeSide'.accepted = nodeSide.accepted /\ latest'.accepted = latest.accepted
    BY <1>4 DEF Cycle, TargetsKnown
  <2>5. /\ goalSeq' = NoGoalSeq \/ goalSeq' <= e
        /\ latest.accepted <= e /\ nodeSide.accepted <= e
    BY <1>0, <2>1, <2>2
  <2> QED
    BY <2>2, <2>3, <2>4, <2>5 DEF ErasBegun
<1>5. CASE NodeTakes
  <2>1. /\ inflight # <<>> /\ inflight' = Tail(inflight) /\ UNCHANGED <<era, goalSeq, latest>>
        /\ \/ nodeSide' = [nodeSide EXCEPT !.target = Head(inflight).to, !.accepted = Head(inflight).era]
           \/ nodeSide' = [nodeSide EXCEPT !.refused = TRUE]
    BY <1>5, Zenon DEF NodeTakes
  <2>2. inflight' = <<>>
    BY <2>1 DEF WaitInv
  <2>3. nodeSide'.accepted \in {Head(inflight).era, nodeSide.accepted}
    BY <2>1 DEF TargetsKnown
  <2>4. nodeSide'.accepted <= era.next
    BY <1>0, <2>1, <2>3
  <2> QED
    BY <1>0, <2>1, <2>2, <2>4 DEF ErasBegun
<1>6. CASE TargetLost
  <2>1. inflight' = <<>> /\ UNCHANGED <<era, goalSeq, latest, nodeSide>>
    BY <1>6 DEF TargetLost, WaitInv
  <2> QED
    BY <2>1 DEF ErasBegun
<1>7. CASE ArmMoves \/ HandMoves
  <2>1. nodeSide'.accepted = nodeSide.accepted /\ UNCHANGED <<era, goalSeq, latest, inflight>>
    BY <1>7 DEF ArmMoves, HandMoves, TargetsKnown
  <2> QED
    BY <2>1 DEF ErasBegun
<1>8. CASE TargetStateArrives
  <2>1. latest'.accepted = nodeSide.accepted /\ nodeSide'.accepted = nodeSide.accepted
        /\ UNCHANGED <<era, goalSeq, inflight>>
    BY <1>8 DEF TargetStateArrives, TargetsKnown
  <2> QED
    BY <2>1 DEF ErasBegun
<1>9. CASE UNCHANGED targetsVars
  BY <1>9 DEF targetsVars, ErasBegun
<1> QED
  BY <1>1, <1>2, <1>3, <1>4, <1>5, <1>6, <1>7, <1>8, <1>9 DEF TargetsNext

\* The types are those that the run checks: no era is beyond the user's goals.
LEMMA TargetsAreTyped == WaitInv /\ TargetsKnown /\ EraBudget /\ ErasBegun => TargetsTypeOK
<1> SUFFICES ASSUME WaitInv, TargetsKnown, EraBudget, ErasBegun PROVE TargetsTypeOK
  OBVIOUS
<1>1. Len(chunk) \in Nat /\ budget.goals \in Nat /\ era.next \in Nat /\ MaxGoals \in Nat
  BY LineAssumption DEF WaitInv, TargetsKnown, EraBudget
<1>2. era.next <= 2 * MaxGoals + 2
  <2>1. era.next + 2 * (Len(chunk) + budget.goals) <= 2 * MaxGoals + 2
    <3>1. CASE goalSeq = NoGoalSeq
      BY <1>1, <3>1 DEF EraBudget
    <3>2. CASE goalSeq # NoGoalSeq
      BY <1>1, <3>2 DEF EraBudget
    <3> QED
      BY <3>1, <3>2
  <2> QED
    BY <1>1, <2>1
<1>3. \A e \in Nat : e <= era.next => e \in Eras
  BY <1>1, <1>2 DEF Eras
<1>4. era.next \in Eras /\ era.of \in Eras /\ goalSeq \in Eras \cup {NoGoalSeq}
  BY <1>1, <1>3 DEF WaitInv, ErasBegun
<1>5. latest.accepted \in Eras /\ nodeSide.accepted \in Eras
  BY <1>3 DEF WaitInv, ErasBegun
<1>6. latest \in States /\ nodeSide \in States
  BY <1>5 DEF TargetsKnown, States
<1>7. ASSUME NEW i \in DOMAIN inflight PROVE inflight[i].to \in Line
  <2>1. inflight = <<Head(inflight)>> /\ Head(inflight).to \in Line
    BY <1>7 DEF TargetsKnown
  <2> DEFINE h == Head(inflight)
  <2> HIDE DEF h
  <2>2. inflight = <<h>> /\ h.to \in Line
    BY <2>1 DEF h
  <2>3. i = 1 /\ inflight[1] = h
    BY <1>7, <2>2
  <2> QED
    BY <2>2, <2>3
<1> QED
  BY <1>4, <1>6, <1>7 DEF TargetsTypeOK, TargetsKnown

(* Every part keeps to its types: a page's queue to its size, teleoperation *)
(* to its recoveries, and each era of a streamer to a goal of the user      *)
(* (broadcast, recover, _set_goal_locked).                                  *)
THEOREM ClientsAreTyped == ClientsSpec => []ClientsTypeOK
<1> DEFINE Pg == PagesRest
           Br == BridgeInv /\ SentIsTyped
           Se == SessionInv /\ SessionRest /\ misled \subseteq Objects
           Te == TeleopInv /\ TeleopFlags /\ TeleopCounts
           Ta == WaitInv /\ TargetsKnown /\ EraBudget /\ ErasBegun
<1>1. ClientsInit => Pg /\ Br /\ Se /\ Te /\ Ta
  <2>1. SessionInit => misled \subseteq Objects
    BY DEF SessionInit
  <2> QED
    BY <2>1, PagesRestInitially, BridgeInitially, SentInitially, SessionInitially, SessionRestInitially, TeleopInitially,
       TeleopRestInitially, WaitInitially, TargetsKnownInitially DEF ClientsInit
<1>2. [ClientsNext]_clientsVars =>
        /\ [PanelEventsNext]_panelEventsVars /\ [BridgeNext]_bridgeVars /\ [SessionNext]_sessionVars
        /\ [VrNext]_vrVars /\ [TargetsNext]_targetsVars
  BY DEF ClientsNext, clientsVars
<1>3. Pg /\ [PanelEventsNext]_panelEventsVars => Pg'
  BY PagesRestStep
<1>4. Br /\ [BridgeNext]_bridgeVars => Br'
  BY BridgeStep, SentStep
<1>5. Se /\ [SessionNext]_sessionVars => Se'
  BY SessionStep, SessionRestStep, MisledStep
<1>6. Te /\ [VrNext]_vrVars => Te'
  BY TeleopStep, TeleopFlagsStep, TeleopCountsStep
<1>7. Ta /\ [TargetsNext]_targetsVars => Ta'
  BY WaitStep, TargetsKnownStep, EraBudgetStep, ErasBegunStep
<1>8. Pg /\ Br /\ Se /\ Te /\ Ta => ClientsTypeOK
  BY PagesAreTyped, BridgeIsTyped, SessionIsTyped, TeleopIsTyped, TargetsAreTyped DEF ClientsTypeOK
<1> HIDE DEF Pg, Br, Se, Te, Ta
<1> QED
  BY <1>1, <1>2, <1>3, <1>4, <1>5, <1>6, <1>7, <1>8, PTL DEF ClientsSpec
=============================================================================
