----------------------------- MODULE ArmProofs -----------------------------
(***************************************************************************)
(* Proofs about ArmMachine, for every set of clients, every alphabet and   *)
(* every value of the bounds, and about the command socket of a session    *)
(* and its states (FciLink), for any number of threads and any bodies.     *)
(*                                                                         *)
(* The handlers are operators on the arm's record, so the invariant is one *)
(* too: Core(m) holds of the record between any two handlers.  HasLease is *)
(* kept apart because LeaseLost breaks it in its first step and restores   *)
(* it in its last.  Each handler has a lemma; the steps of the arm thread  *)
(* and of its environment then cite them.  After that the open queries and *)
(* the targets in the channel are counted.                                 *)
(*                                                                         *)
(* Of the socket, the bytes that are left of a message and those on the    *)
(* wire are one stream, and each byte of it lies in a message that is      *)
(* there as a whole: so what a reader completes is that message and        *)
(* nothing of the next.                                                    *)
(***************************************************************************)
EXTENDS MCArm, FiniteSetTheorems, TLAPS

\* m \in Arm, field by field: the form in which the provers follow an EXCEPT.
Fields == {"phase", "holder", "alive", "loop", "goal", "guard", "homing", "recording", "episode",
           "targetAge", "acceptAge", "holding", "open", "gripLast", "hand", "gripperHome"}
Shape(m) == DOMAIN m = Fields /\ m = [f \in Fields |-> m[f]]
Typed(m) ==
    /\ m.phase \in Phases
    /\ m.holder \in Callers
    /\ m.alive \in SUBSET Clients
    /\ m.loop \in Loops
    /\ m.goal \in Goals
    /\ m.guard \in Guards
    /\ m.homing \in Homings
    /\ m.recording \in {"closed", "open"}
    /\ m.episode \in Nat
    /\ m.targetAge \in 0..StopAfter
    /\ m.acceptAge \in 0..StopAfter
    /\ m.holding \in BOOLEAN
    /\ m.open \in [Callers -> Int]
    /\ m.gripLast \in [client : Callers, seq : 0..MaxSeq]
    /\ m.hand \in {"none", "width", "grasp"}
    /\ m.gripperHome \in Callers
WellFormed(m) == Shape(m) /\ Typed(m)

\* Phase, loop, gate, holder, file and waiting home query agree; HasLease apart.
Agree(m) ==
    /\ InSession(m) <=> m.loop # "none"
    /\ InSession(m) <=> m.guard # NoGuard
    /\ InSession(m) => m.guard.kind # "none" /\ m.holder # NoClient /\ m.guard.holder = m.holder
    /\ m.phase = "acquired" => m.holder # NoClient
    /\ m.episode = (IF InSession(m) THEN 1 ELSE 0)
    /\ m.recording = "open" => InSession(m)
    /\ m.homing.client # NoClient <=> m.phase = "homing"
    /\ m.homing.client = NoClient => m.homing = NoHoming
    /\ m.phase = "homing" => m.guard.kind = "joints"

Core(m) == WellFormed(m) /\ Agree(m)

HasLease(m) == m.holder # NoClient => m.holder \in m.alive

\* What a stop needs of the record; finish_home has taken the query out by then.
Stoppable(m) == WellFormed(m) /\ m.loop # "none" /\ m.episode = 1 /\ m.holder # NoClient

\* What a stop leaves: no session, the same client as before it.
Ended(m, x) == Core(x) /\ ~InSession(x) /\ x.holder = m.holder /\ x.alive = m.alive

\* A running joints loop was re-targeted before it was stopped.
InPlace(m, x) ==
    (m.loop = "running" /\ x.loop = "none" /\ m.guard.kind = "joints") => x.goal = "here"

\* Across a handler a session keeps its owner.
NotTakenOver(m, x) ==
    (InSession(m) /\ InSession(x)) =>
        /\ x.holder = m.holder
        /\ x.guard.kind = m.guard.kind
        /\ x.guard.seq >= m.guard.seq

\* What every handler keeps.
Sound(m, x) == Core(x) /\ (HasLease(m) => HasLease(x)) /\ NotTakenOver(m, x)

-----------------------------------------------------------------------------
(* Helpers. *)

\* A well-formed record is one of Arm, and the other way round.
LEMMA Shaped ==
    ASSUME NEW m
    PROVE  m \in Arm <=> WellFormed(m)
<1>1. m \in Arm => WellFormed(m)
  BY DEF Arm, WellFormed, Shape, Typed, Fields
<1>2. WellFormed(m) => m \in Arm
  BY DEF Arm, WellFormed, Shape, Typed, Fields
<1>3. QED
  BY <1>1, <1>2

\* The constants of the types.
LEMMA Nothing ==
    /\ NoGuard \in Guards /\ NoHoming \in Homings /\ NoClient \in Callers
    /\ 0 \in 0..StopAfter /\ 0 \in 0..MaxSeq /\ 0 \in 0..HomeSettle /\ 0 \in 0..HomeTimeout
  BY BoundsAssumption, WatchdogAssumption DEF NoGuard, NoHoming, Guards, Homings, Callers

\* An answer changes the count of open queries and nothing else.
LEMMA Answered ==
    ASSUME NEW m, NEW c \in Callers, WellFormed(m)
    PROVE  /\ WellFormed(Reply(m, c))
           /\ \A f \in Fields \ {"open"} : Reply(m, c)[f] = m[f]
<1>1. Shape(Reply(m, c))
  BY DEF WellFormed, Shape, Reply
<1>2. \A f \in Fields \ {"open"} : Reply(m, c)[f] = m[f]
  BY DEF WellFormed, Shape, Reply
<1>3. Reply(m, c).open \in [Callers -> Int]
  BY DEF WellFormed, Shape, Typed, Reply, Fields
<1>4. Typed(Reply(m, c))
  BY <1>2, <1>3 DEF WellFormed, Typed, Fields
<1>5. QED
  BY <1>1, <1>2, <1>4 DEF WellFormed

\* An answer keeps the invariant.
LEMMA AnsweredCore ==
    ASSUME NEW m, NEW c \in Callers, Core(m)
    PROVE  /\ Core(Reply(m, c))
           /\ \A f \in Fields \ {"open"} : Reply(m, c)[f] = m[f]
<1>1. /\ WellFormed(Reply(m, c))
      /\ \A f \in Fields \ {"open"} : Reply(m, c)[f] = m[f]
  BY Answered DEF Core
<1>2. QED
  BY <1>1 DEF Core, Agree, InSession, Fields

-----------------------------------------------------------------------------
(* The end of a session. *)

\* after_loop leaves no session, and the goal alone.
LEMMA AfterLoopEnds ==
    ASSUME NEW m, WellFormed(m), m.loop = "none", m.episode = 1, m.holder # NoClient,
           NEW phase \in {"idle", "acquired", "faulted"}
    PROVE  /\ Ended(m, AfterLoop(m, phase))
           /\ AfterLoop(m, phase).goal = m.goal
<1> DEFINE over == [m EXCEPT !.phase = phase, !.guard = NoGuard, !.holding = FALSE,
                             !.recording = "closed",
                             !.episode = IF @ > 0 THEN @ - 1 ELSE 0,
                             !.targetAge = 0, !.acceptAge = 0, !.homing = NoHoming]
<1>1. Shape(over)
  BY DEF WellFormed, Shape
<1>2. /\ over.phase = phase /\ over.guard = NoGuard /\ over.recording = "closed"
      /\ over.episode = 0 /\ over.homing = NoHoming /\ over.loop = "none"
      /\ over.holder = m.holder /\ over.alive = m.alive /\ over.goal = m.goal
  BY DEF WellFormed, Shape, Fields
<1>3. Typed(over)
  BY Nothing DEF WellFormed, Typed, Shape, Fields, Phases
<1>4. Core(over) /\ ~InSession(over)
  BY <1>1, <1>2, <1>3 DEF Core, WellFormed, Agree, InSession, NoHoming
<1>5. AfterLoop(m, phase) = IF m.homing.client = NoClient THEN over
                            ELSE Reply(over, m.homing.client)
  BY DEF AfterLoop
<1> HIDE DEF over
<1>6. m.homing.client \in Callers
  BY DEF WellFormed, Typed, Homings
<1>7. /\ Core(Reply(over, m.homing.client))
      /\ \A f \in Fields \ {"open"} : Reply(over, m.homing.client)[f] = over[f]
  BY <1>4, <1>6, AnsweredCore
<1>8. QED
  BY <1>2, <1>4, <1>5, <1>7 DEF Ended, InSession, Fields

\* The same for a stop that takes the loop out first.
LEMMA LoopTaken ==
    ASSUME NEW m, Stoppable(m), NEW phase \in {"idle", "acquired", "faulted"}
    PROVE  LET x == AfterLoop([m EXCEPT !.loop = "none"], phase)
           IN  Ended(m, x) /\ x.goal = m.goal
<1> DEFINE taken == [m EXCEPT !.loop = "none"]
<1>1. Shape(taken)
  BY DEF Stoppable, WellFormed, Shape
<1>2. /\ taken.loop = "none" /\ taken.episode = 1 /\ taken.holder = m.holder
      /\ taken.alive = m.alive /\ taken.goal = m.goal /\ taken.holder # NoClient
  BY DEF Stoppable, WellFormed, Shape, Fields
<1>3. Typed(taken)
  BY DEF Stoppable, WellFormed, Shape, Typed, Fields, Loops
<1>4. /\ Ended(taken, AfterLoop(taken, phase))
      /\ AfterLoop(taken, phase).goal = taken.goal
  BY <1>1, <1>2, <1>3, AfterLoopEnds DEF WellFormed
<1>5. QED
  BY <1>2, <1>4 DEF Ended

\* stop_to ends the session.
LEMMA StopToEnds ==
    ASSUME NEW m, Stoppable(m), NEW landing \in {"idle", "acquired"},
           NEW x \in StopTo(m, landing)
    PROVE  Ended(m, x) /\ x.goal = m.goal
<1>1. PICK phase \in {landing, "faulted"} : x = AfterLoop([m EXCEPT !.loop = "none"], phase)
  BY DEF StopTo, Stoppable
<1>2. QED
  BY <1>1, LoopTaken

\* A re-target to where the arm is makes `here' the goal.
LEMMA Held ==
    ASSUME NEW m, Stoppable(m)
    PROVE  /\ Stoppable(HoldInPlace(m))
           /\ \A f \in Fields \ {"goal"} : HoldInPlace(m)[f] = m[f]
           /\ m.loop = "running" => HoldInPlace(m).goal = "here"
<1> DEFINE here == [m EXCEPT !.goal = "here"]
<1>1. Shape(here) /\ here.goal = "here" /\ \A f \in Fields \ {"goal"} : here[f] = m[f]
  BY DEF Stoppable, WellFormed, Shape, Fields
<1>2. Typed(here)
  BY <1>1 DEF Stoppable, WellFormed, Typed, Fields, Goals
<1>3. Stoppable(here)
  BY <1>1, <1>2 DEF Stoppable, WellFormed, Fields
<1>4. QED
  BY <1>1, <1>3 DEF HoldInPlace

\* stop ends the session, in place for joints.
LEMMA StopEnds ==
    ASSUME NEW m, Core(m), InSession(m), NEW x \in Stop(m)
    PROVE  Ended(m, x) /\ InPlace(m, x)
<1>1. Stoppable(m)
  BY DEF Core, Agree, Stoppable
<1>2. CASE m.guard.kind = "joints"
  <2>1. x \in StopTo(HoldInPlace(m), "idle")
    BY <1>2 DEF Stop
  <2>2. Ended(HoldInPlace(m), x) /\ x.goal = HoldInPlace(m).goal
    BY <1>1, <2>1, Held, StopToEnds
  <2>3. QED
    BY <1>1, <2>2, Held DEF Ended, InPlace, Fields
<1>3. CASE m.guard.kind # "joints"
  BY <1>1, <1>3, StopToEnds DEF Stop, InPlace
<1>4. QED
  BY <1>2, <1>3

\* The end of a home query ends the session; one that did not arrive, in place.
LEMMA FinishHomeEnds ==
    ASSUME NEW m, Core(m), m.phase = "homing", NEW there \in BOOLEAN,
           NEW x \in FinishHome(m, there)
    PROVE  Ended(m, x) /\ (~there => InPlace(m, x))
<1> DEFINE taken  == [m EXCEPT !.homing = NoHoming]
           halted == IF there THEN taken ELSE HoldInPlace(taken)
<1>1. m.homing.client \in Callers /\ m.homing.client # NoClient
  BY DEF Core, WellFormed, Typed, Homings, Agree
<1>2. /\ Shape(taken) /\ taken.homing = NoHoming
      /\ \A f \in Fields \ {"homing"} : taken[f] = m[f]
  BY DEF Core, WellFormed, Shape, Fields
<1>3. Typed(taken)
  BY <1>2, Nothing DEF Core, WellFormed, Typed, Fields
<1>4. Stoppable(taken)
  BY <1>2, <1>3 DEF Stoppable, WellFormed, Core, Agree, InSession, Fields
<1>5. /\ Stoppable(halted) /\ halted.holder = m.holder /\ halted.alive = m.alive
      /\ (~there /\ m.loop = "running") => halted.goal = "here"
  BY <1>2, <1>4, Held DEF Fields
<1>6. PICK y \in StopTo(halted, "acquired") : x = Reply(y, m.homing.client)
  BY <1>1 DEF FinishHome
<1>7. Ended(halted, y) /\ y.goal = halted.goal
  BY <1>5, <1>6, StopToEnds
<1>8. Core(x) /\ \A f \in Fields \ {"open"} : x[f] = y[f]
  BY <1>1, <1>6, <1>7, AnsweredCore DEF Ended
<1>9. QED
  BY <1>5, <1>7, <1>8 DEF Ended, InPlace, InSession, Fields

\* A fault ends the session.
LEMMA FaultEnds ==
    ASSUME NEW m, Core(m), InSession(m), NEW x \in Fault(m)
    PROVE  Ended(m, x)
  BY LoopTaken DEF Fault, Stoppable, Core, Agree

\* end_session ends the session, in place for joints.
LEMMA EndSessionEnds ==
    ASSUME NEW m, Core(m), NEW x \in EndSession(m)
    PROVE  Ended(m, x) /\ InPlace(m, x)
<1>1. CASE m.phase = "active"
  BY <1>1, StopEnds DEF EndSession, InSession
<1>2. CASE m.phase = "homing"
  BY <1>2, FinishHomeEnds DEF EndSession
<1>3. CASE ~InSession(m)
  BY <1>3 DEF EndSession, InSession, Ended, InPlace, Core, Agree
<1>4. QED
  BY <1>1, <1>2, <1>3 DEF InSession

\* What ends a session keeps the invariant.
LEMMA EndedIsSound ==
    ASSUME NEW m, NEW x, Ended(m, x)
    PROVE  Sound(m, x)
  BY DEF Ended, Sound, HasLease, NotTakenOver

-----------------------------------------------------------------------------
(* Leases and commands. *)

\* A client's liveness token keeps the invariant.
LEMMA LeaseAliveSound ==
    ASSUME NEW m, Core(m), NEW c \in Clients, NEW x \in LeaseAlive(m, c)
    PROVE  Sound(m, x) /\ InPlace(m, x)
<1>1. /\ Shape(x) /\ x.alive = m.alive \cup {c}
      /\ \A f \in Fields \ {"alive"} : x[f] = m[f]
  BY DEF LeaseAlive, Core, WellFormed, Shape, Fields
<1>2. Typed(x)
  BY <1>1 DEF Core, WellFormed, Typed, Fields
<1>3. QED
  BY <1>1, <1>2 DEF Sound, Core, WellFormed, Agree, InSession, HasLease, NotTakenOver, InPlace,
                    Fields, Typed, Guards

\* Without a session the holder can be cleared.
LEMMA Cleared ==
    ASSUME NEW m, Core(m), ~InSession(m)
    PROVE  /\ Core(ClearHolder(m)) /\ ~InSession(ClearHolder(m))
           /\ ClearHolder(m).holder = NoClient /\ ClearHolder(m).goal = m.goal
           /\ ClearHolder(m).loop = m.loop
<1> DEFINE x == ClearHolder(m)
<1>1. /\ Shape(x) /\ x.holder = NoClient
      /\ x.phase = (IF m.phase = "acquired" THEN "idle" ELSE m.phase)
      /\ \A f \in Fields \ {"holder", "phase"} : x[f] = m[f]
  BY DEF ClearHolder, Core, WellFormed, Shape, Fields
<1>2. Typed(x)
  BY <1>1, Nothing DEF Core, WellFormed, Typed, Fields, Phases
<1>3. QED
  BY <1>1, <1>2 DEF Core, WellFormed, Agree, InSession, Fields

\* The loss of a lease ends the holder's session first, so nobody dead holds the arm.
LEMMA LeaseLostSound ==
    ASSUME NEW m, Core(m), NEW c \in Clients, NEW x \in LeaseLost(m, c)
    PROVE  Sound(m, x) /\ InPlace(m, x)
<1> DEFINE gone == [m EXCEPT !.alive = @ \ {c}]
<1>1. /\ Shape(gone) /\ gone.alive = m.alive \ {c}
      /\ \A f \in Fields \ {"alive"} : gone[f] = m[f]
  BY DEF Core, WellFormed, Shape, Fields
<1>2. Typed(gone)
  BY <1>1 DEF Core, WellFormed, Typed, Fields
<1>3. Core(gone)
  BY <1>1, <1>2 DEF Core, WellFormed, Agree, InSession, Fields
<1>4. c # m.holder => x = gone
  BY DEF LeaseLost
<1>5. c = m.holder => \E y \in EndSession(gone) : x = ClearHolder(y)
  BY DEF LeaseLost
<1> HIDE DEF gone
<1>6. CASE c # m.holder
  BY <1>1, <1>3, <1>4, <1>6 DEF Sound, HasLease, NotTakenOver, InPlace, InSession, Fields, Core,
                                WellFormed, Typed, Guards
<1>7. CASE c = m.holder
  <2>1. PICK y \in EndSession(gone) : x = ClearHolder(y)
    BY <1>5, <1>7
  <2>2. Ended(gone, y) /\ InPlace(gone, y)
    BY <1>3, EndSessionEnds
  <2>3. /\ Core(x) /\ ~InSession(x) /\ x.holder = NoClient /\ x.goal = y.goal
        /\ x.loop = y.loop
    BY <2>1, <2>2, Cleared DEF Ended
  <2>4. QED
    BY <1>1, <2>2, <2>3 DEF Sound, HasLease, NotTakenOver, InPlace, Fields
<1>8. QED
  BY <1>6, <1>7

\* acquire keeps the invariant and takes no session over.
LEMMA AcquireSound ==
    ASSUME NEW m, Core(m), NEW c \in Callers, NEW x \in Acquire(m, c)
    PROVE  Sound(m, x) /\ InPlace(m, x)
<1>1. CASE x = m
  BY <1>1 DEF Sound, HasLease, NotTakenOver, InPlace, Core, WellFormed, Typed, Guards
<1>2. CASE /\ c \in m.alive /\ m.holder \in {NoClient, c} /\ m.phase \in {"idle", "acquired"}
           /\ x = [m EXCEPT !.holder = c, !.phase = "acquired"]
  <2>1. /\ Shape(x) /\ x.holder = c /\ x.phase = "acquired"
        /\ \A f \in Fields \ {"holder", "phase"} : x[f] = m[f]
    BY <1>2 DEF Core, WellFormed, Shape, Fields
  <2>2. c # NoClient
    BY <1>2, ClientsAssumption DEF Core, WellFormed, Typed
  <2>3. Typed(x)
    BY <2>1 DEF Core, WellFormed, Typed, Fields, Phases
  <2>4. QED
    BY <1>2, <2>1, <2>2, <2>3 DEF Sound, Core, WellFormed, Agree, InSession, HasLease,
                                  NotTakenOver, InPlace, Fields
<1>3. QED
  BY <1>1, <1>2 DEF Acquire

\* An arm that does not change keeps the invariant.
LEMMA Stays ==
    ASSUME NEW m, Core(m)
    PROVE  Sound(m, m) /\ InPlace(m, m)
  BY DEF Sound, HasLease, NotTakenOver, InPlace, Core, WellFormed, Typed, Guards

\* release keeps the invariant.
LEMMA ReleaseSound ==
    ASSUME NEW m, Core(m), NEW c \in Callers, NEW x \in Release(m, c)
    PROVE  Sound(m, x) /\ InPlace(m, x)
<1>1. CASE Holds(m, c) /\ ~InSession(m)
  BY <1>1, Cleared DEF Release, Sound, HasLease, NotTakenOver, InPlace, Core, Agree
<1>2. CASE ~(Holds(m, c) /\ ~InSession(m))
  BY <1>2, Stays DEF Release
<1>3. QED
  BY <1>1, <1>2

\* A session about to start: the file may be open already, nothing else differs.
LEMMA Opened ==
    ASSUME NEW m, Core(m), ~InSession(m), NEW x \in OpenRecording(m)
    PROVE  /\ WellFormed(x)
           /\ \A f \in Fields \ {"recording"} : x[f] = m[f]
<1>1. Shape(x) /\ \A f \in Fields \ {"recording"} : x[f] = m[f]
  BY DEF OpenRecording, Core, WellFormed, Shape, Fields
<1>2. x.recording \in {"closed", "open"}
  BY DEF OpenRecording, Core, WellFormed, Shape, Fields
<1>3. Typed(x)
  BY <1>1, <1>2 DEF Core, WellFormed, Typed, Fields
<1>4. QED
  BY <1>1, <1>3 DEF WellFormed

\* A start that fails leaves the arm as it was: a file opened for it is discarded.
LEMMA NotStartedIsNothing ==
    ASSUME NEW m, Core(m), ~InSession(m), NEW x \in NotStarted(m)
    PROVE  x = m
<1>1. CASE x = m
  BY <1>1
<1>2. CASE \E y \in OpenRecording(m) : x = Discard(y)
  <2>1. PICK y \in OpenRecording(m) : x = Discard(y)
    BY <1>2
  <2>2. /\ WellFormed(y)
        /\ \A f \in Fields \ {"recording"} : y[f] = m[f]
    BY Opened
  <2>3. /\ Shape(x) /\ x.recording = "closed"
        /\ \A f \in Fields \ {"recording"} : x[f] = y[f]
    BY <2>1, <2>2 DEF Discard, WellFormed, Shape, Fields
  <2>4. m.recording = "closed" /\ Shape(m)
    BY DEF Core, WellFormed, Typed, Agree
  <2>5. \A f \in Fields : x[f] = m[f]
    BY <2>2, <2>3, <2>4 DEF Fields
  <2>6. QED
    BY <2>3, <2>4, <2>5 DEF Shape
<1>3. QED
  BY <1>1, <1>2 DEF NotStarted

\* A session that begins has a loop, a gate and an owner.
LEMMA BeginsCore ==
    ASSUME NEW m, WellFormed(m), m.episode = 0, m.homing = NoHoming,
           NEW c \in Clients, m.holder = c, NEW kind \in Kinds,
           NEW phase \in {"active", "homing"}, NEW goal \in Goals
    PROVE  LET x == Begin(m, c, kind, phase, goal)
           IN  /\ WellFormed(x)
               /\ x.phase = phase /\ x.loop = "running" /\ x.homing = NoHoming /\ x.episode = 1
               /\ x.guard.kind = kind /\ x.guard.holder = c /\ x.guard # NoGuard
               /\ x.holder = c /\ x.alive = m.alive
<1> DEFINE x == Begin(m, c, kind, phase, goal)
           g == [kind |-> kind, holder |-> c, seq |-> 0]
<1>1. g \in Guards /\ g.kind = kind /\ g.holder = c /\ g # NoGuard
  BY Nothing DEF Guards, Callers, Kinds, NoGuard
<1>2. x = [m EXCEPT !.loop = "running", !.goal = goal, !.phase = phase, !.guard = g,
                    !.episode = @ + 1, !.targetAge = 0, !.acceptAge = 0, !.holding = FALSE]
  BY DEF Begin
<1> HIDE DEF x, g
<1>3. Shape(x)
  BY <1>2 DEF WellFormed, Shape
<1>4. /\ x.phase = phase /\ x.loop = "running" /\ x.goal = goal /\ x.guard = g
      /\ x.targetAge = 0 /\ x.acceptAge = 0
      /\ x.homing = NoHoming /\ x.holder = c /\ x.alive = m.alive /\ x.recording = m.recording
      /\ x.open = m.open /\ x.gripLast = m.gripLast /\ x.hand = m.hand
      /\ x.gripperHome = m.gripperHome
  BY <1>2 DEF WellFormed, Shape, Fields
<1>5. x.episode = 1
  BY <1>2 DEF WellFormed, Shape, Fields
<1>6. x.holding \in BOOLEAN
  BY <1>2 DEF WellFormed, Shape, Fields
<1>7. Typed(x)
  BY <1>1, <1>4, <1>5, <1>6, Nothing DEF WellFormed, Typed, Phases, Loops
<1>8. QED
  BY <1>1, <1>3, <1>4, <1>5, <1>7 DEF WellFormed, x

\* enable keeps the invariant.
LEMMA EnableSound ==
    ASSUME NEW m, Core(m), NEW c \in Callers, NEW mode \in Kinds, NEW x \in Enable(m, c, mode)
    PROVE  Sound(m, x) /\ InPlace(m, x)
<1>1. CASE ~(Holds(m, c) /\ m.phase \in {"idle", "acquired"})
  BY <1>1, Stays DEF Enable
<1>2. CASE Holds(m, c) /\ m.phase \in {"idle", "acquired"} /\ x \in NotStarted(m)
  BY <1>2, NotStartedIsNothing, Stays DEF InSession
<1>3. CASE /\ Holds(m, c) /\ m.phase \in {"idle", "acquired"}
           /\ \E y \in OpenRecording(m) : x = Begin(y, c, mode, "active", "start")
  <2>1. PICK y \in OpenRecording(m) : x = Begin(y, c, mode, "active", "start")
    BY <1>3
  <2>2. WellFormed(y) /\ \A f \in Fields \ {"recording"} : y[f] = m[f]
    BY <1>3, Opened DEF InSession
  <2>3. c \in Clients
    BY <1>3 DEF Holds, Callers
  <2>4. y.episode = 0 /\ y.homing = NoHoming /\ y.holder = c /\ ~InSession(m)
    BY <1>3, <2>2 DEF Core, Agree, InSession, Holds, Fields
  <2>5. /\ WellFormed(x)
        /\ x.phase = "active" /\ x.loop = "running" /\ x.homing = NoHoming /\ x.episode = 1
        /\ x.guard.kind = mode /\ x.guard.holder = c /\ x.guard # NoGuard
        /\ x.holder = c /\ x.alive = y.alive
    BY <2>1, <2>2, <2>3, <2>4, BeginsCore DEF Goals
  <2>6. c # NoClient /\ mode # "none"
    BY <1>3 DEF Holds, Kinds
  <2>7. Core(x)
    BY <2>5, <2>6 DEF Core, Agree, InSession, NoHoming
  <2>8. QED
    BY <1>3, <2>2, <2>4, <2>5, <2>7 DEF Sound, HasLease, NotTakenOver, InPlace, Holds, Fields
<1>4. QED
  BY <1>1, <1>2, <1>3 DEF Enable

\* An answer after a sound step is sound.
LEMMA RepliedSound ==
    ASSUME NEW m, NEW y, Sound(m, y) /\ InPlace(m, y), NEW c \in Callers
    PROVE  Sound(m, Reply(y, c)) /\ InPlace(m, Reply(y, c))
<1>1. Core(Reply(y, c)) /\ \A f \in Fields \ {"open"} : Reply(y, c)[f] = y[f]
  BY AnsweredCore DEF Sound
<1>2. QED
  BY <1>1 DEF Sound, HasLease, NotTakenOver, InPlace, InSession, Fields

\* home keeps the invariant.
LEMMA HomeSound ==
    ASSUME NEW m, Core(m), NEW c \in Callers, NEW x \in Home(m, c)
    PROVE  Sound(m, x) /\ InPlace(m, x)
<1>1. CASE ~(Holds(m, c) /\ m.phase = "acquired")
  BY <1>1, Stays, RepliedSound DEF Home
<1>2. CASE /\ Holds(m, c) /\ m.phase = "acquired"
           /\ \E y \in NotStarted(m) : x = Reply(y, c)
  BY <1>2, NotStartedIsNothing, Stays, RepliedSound DEF InSession
<1>3. CASE /\ Holds(m, c) /\ m.phase = "acquired"
           /\ \E y \in OpenRecording(m) :
                  x = [Begin(y, c, "joints", "homing", "ready") EXCEPT !.homing.client = c]
  <2>1. PICK y \in OpenRecording(m) :
            x = [Begin(y, c, "joints", "homing", "ready") EXCEPT !.homing.client = c]
    BY <1>3
  <2> DEFINE b == Begin(y, c, "joints", "homing", "ready")
  <2>2. WellFormed(y) /\ \A f \in Fields \ {"recording"} : y[f] = m[f]
    BY <1>3, Opened DEF InSession
  <2>3. c \in Clients /\ c # NoClient
    BY <1>3 DEF Holds, Callers
  <2>4. y.episode = 0 /\ y.homing = NoHoming /\ y.holder = c /\ ~InSession(m)
    BY <1>3, <2>2 DEF Core, Agree, InSession, Holds, NoHoming, Fields
  <2>5. /\ WellFormed(b)
        /\ b.phase = "homing" /\ b.loop = "running" /\ b.homing = NoHoming /\ b.episode = 1
        /\ b.guard.kind = "joints" /\ b.guard.holder = c /\ b.guard # NoGuard
        /\ b.holder = c /\ b.alive = y.alive
    BY <2>2, <2>3, <2>4, BeginsCore DEF Goals, Kinds
  <2>6. x = [b EXCEPT !.homing.client = c]
    BY <2>1
  <2> HIDE DEF b
  <2>7. Shape(x) /\ \A f \in Fields \ {"homing"} : x[f] = b[f]
    BY <2>5, <2>6 DEF WellFormed, Shape, Fields
  <2>8. x.homing = [b.homing EXCEPT !.client = c]
    BY <2>5, <2>6 DEF WellFormed, Shape, Fields
  <2>9. x.homing \in Homings /\ x.homing.client = c
    BY <2>5, <2>8, <2>3, Nothing DEF Homings, NoHoming, Callers
  <2>10. Typed(x)
    BY <2>5, <2>7, <2>9 DEF WellFormed, Typed, Fields
  <2>11. Core(x)
    BY <2>3, <2>5, <2>7, <2>9, <2>10 DEF Core, WellFormed, Typed, Agree, InSession, Fields
  <2>12. QED
    BY <1>3, <2>2, <2>4, <2>5, <2>7, <2>11 DEF Sound, HasLease, NotTakenOver, InPlace, Holds,
                                              Fields
<1>4. QED
  BY <1>1, <1>2, <1>3 DEF Home

\* recover keeps the invariant.
LEMMA RecoverSound ==
    ASSUME NEW m, Core(m), NEW x \in Recover(m)
    PROVE  Sound(m, x) /\ InPlace(m, x)
<1>1. CASE x = m
  BY <1>1, Stays
<1>2. CASE ~InSession(m) /\ x = [m EXCEPT !.phase = "idle"]
  <2>1. Shape(x) /\ x.phase = "idle" /\ \A f \in Fields \ {"phase"} : x[f] = m[f]
    BY <1>2 DEF Core, WellFormed, Shape, Fields
  <2>2. Typed(x)
    BY <2>1 DEF Core, WellFormed, Typed, Fields, Phases
  <2>3. QED
    BY <1>2, <2>1, <2>2 DEF Sound, Core, WellFormed, Agree, InSession, HasLease, NotTakenOver,
                            InPlace, Fields
<1>3. QED
  BY <1>1, <1>2 DEF Recover

\* A step that touches only what no session depends on.
Aside == {"open", "hand", "gripLast", "gripperHome", "targetAge", "acceptAge", "holding"}

\* A query beside the session keeps the invariant.
LEMMA AsideSound ==
    ASSUME NEW m, Core(m), NEW x, WellFormed(x), \A f \in Fields \ Aside : x[f] = m[f]
    PROVE  Sound(m, x) /\ InPlace(m, x)
  BY DEF Aside, Sound, Core, WellFormed, Typed, Agree, InSession, HasLease, NotTakenOver, InPlace,
         Fields, Guards

\* gripper_home keeps the invariant.
LEMMA GripperHomeSound ==
    ASSUME NEW m, Core(m), NEW c \in Callers
    PROVE  Sound(m, GripperHome(m, c)) /\ InPlace(m, GripperHome(m, c))
<1> DEFINE x == [m EXCEPT !.gripperHome = c]
<1>1. Shape(x) /\ x.gripperHome = c /\ \A f \in Fields \ {"gripperHome"} : x[f] = m[f]
  BY DEF Core, WellFormed, Shape, Fields
<1>2. Typed(x)
  BY <1>1 DEF Core, WellFormed, Typed, Fields
<1> HIDE DEF x
<1>3. Sound(m, x) /\ InPlace(m, x)
  BY <1>1, <1>2, AsideSound DEF Aside, WellFormed, Fields
<1>4. QED
  BY <1>3, Stays, RepliedSound DEF GripperHome, x

\* Every command keeps the invariant.
LEMMA CommandSound ==
    ASSUME NEW m, Core(m), NEW e \in QueryEvent, NEW x \in Command(m, e)
    PROVE  Sound(m, x) /\ InPlace(m, x)
<1>1. e.client \in Callers /\ e.mode \in Kinds /\ e.verb \in Verbs
  BY DEF QueryEvent
<1>2. CASE e.verb = "acquire"
  BY <1>1, <1>2, AcquireSound, RepliedSound DEF Command
<1>3. CASE e.verb = "release"
  BY <1>1, <1>3, ReleaseSound, RepliedSound DEF Command
<1>4. CASE e.verb = "enable"
  BY <1>1, <1>4, EnableSound, RepliedSound DEF Command
<1>5. CASE e.verb = "stop"
  BY <1>1, <1>5, EndSessionEnds, EndedIsSound, RepliedSound DEF Command
<1>6. CASE e.verb = "recover"
  BY <1>1, <1>6, RecoverSound, RepliedSound DEF Command
<1>7. CASE e.verb = "home"
  BY <1>1, <1>7, HomeSound DEF Command
<1>8. CASE e.verb = "gripper_home"
  BY <1>1, <1>8, GripperHomeSound DEF Command
<1>9. CASE e.verb = "gripper_stop"
  <2> DEFINE y == [m EXCEPT !.hand = "none"]
  <2>1. Shape(y) /\ y.hand = "none" /\ \A f \in Fields \ {"hand"} : y[f] = m[f]
    BY DEF Core, WellFormed, Shape, Fields
  <2>2. Typed(y)
    BY <2>1 DEF Core, WellFormed, Typed, Fields
  <2>3. x = Reply(y, e.client)
    BY <1>9 DEF Command
  <2> HIDE DEF y
  <2>4. QED
    BY <1>1, <2>1, <2>2, <2>3, AsideSound, RepliedSound DEF Aside, WellFormed, Fields
<1>10. CASE e.verb = "params"
  BY <1>1, <1>10, Stays, RepliedSound DEF Command
<1>11. QED
  BY <1>1, <1>2, <1>3, <1>4, <1>5, <1>6, <1>7, <1>8, <1>9, <1>10 DEF Verbs

-----------------------------------------------------------------------------
(* Targets, the watchdog and the state tick. *)

\* A target, taken or refused, keeps the invariant; its gate is the session's own.
LEMMA TargetSound ==
    ASSUME NEW m, Core(m), NEW t \in TargetEvent, NEW x \in Target(m, t)
    PROVE  Sound(m, x) /\ InPlace(m, x)
<1>1. CASE m.phase # "active" \/ ~FromCommander(m, t)
  BY <1>1, Stays DEF Target
<1> SUFFICES ASSUME m.phase = "active", FromCommander(m, t)
             PROVE  Sound(m, x) /\ InPlace(m, x)
  BY <1>1
<1>2. CASE t.content = "refused"
  <2>1. x = [m EXCEPT !.targetAge = 0]
    BY <1>2 DEF Target
  <2>2. Shape(x) /\ x.targetAge = 0 /\ \A f \in Fields \ {"targetAge"} : x[f] = m[f]
    BY <2>1 DEF Core, WellFormed, Shape, Fields
  <2>3. Typed(x)
    BY <2>2, Nothing DEF Core, WellFormed, Typed, Fields
  <2>4. QED
    BY <2>2, <2>3, AsideSound DEF Aside, WellFormed, Fields
<1>3. CASE t.content # "refused"
  <2> DEFINE a == [m EXCEPT !.guard.seq = t.seq]
  <2>1. Shape(a) /\ \A f \in Fields \ {"guard"} : a[f] = m[f]
    BY DEF Core, WellFormed, Shape, Fields
  <2>2. a.guard = [m.guard EXCEPT !.seq = t.seq]
    BY DEF Core, WellFormed, Shape, Fields
  <2>3. t.seq \in 1..MaxSeq /\ t.seq > m.guard.seq /\ m.guard \in Guards
    BY DEF TargetEvent, FromCommander, Core, WellFormed, Typed
  <2>4. x \in (IF m.loop = "running"
               THEN {[a EXCEPT !.goal = "commander", !.targetAge = 0, !.acceptAge = 0,
                               !.holding = FALSE]}
               ELSE Fault(a))
    BY <1>3 DEF Target
  <2> HIDE DEF a
  <2>5. /\ a.guard \in Guards /\ a.guard.kind = m.guard.kind /\ a.guard.seq = t.seq
        /\ a.guard.holder = m.guard.holder
    BY <2>2, <2>3, BoundsAssumption DEF Guards
  <2>6. Typed(a)
    BY <2>1, <2>5 DEF Core, WellFormed, Typed, Fields
  <2>7. a.guard # NoGuard
    BY <2>5 DEF Core, Agree, InSession, NoGuard
  <2>8. Core(a) /\ InSession(a) /\ InSession(m)
    BY <2>1, <2>5, <2>6, <2>7 DEF Core, WellFormed, Agree, InSession, Fields
  <2>9. CASE m.loop = "running"
    <3>1. x = [a EXCEPT !.goal = "commander", !.targetAge = 0, !.acceptAge = 0,
                        !.holding = FALSE]
      BY <2>4, <2>9
    <3>2. /\ Shape(x) /\ x.goal = "commander" /\ x.targetAge = 0 /\ x.acceptAge = 0
          /\ x.holding \in BOOLEAN
          /\ \A f \in Fields \ {"goal", "targetAge", "acceptAge", "holding"} : x[f] = a[f]
      BY <2>8, <3>1 DEF Core, WellFormed, Shape, Fields
    <3>3. Typed(x)
      BY <2>6, <3>2, Nothing DEF Typed, Fields, Goals
    <3>4. Core(x)
      BY <2>8, <3>2, <3>3 DEF Core, WellFormed, Agree, InSession, Fields
    <3>5. QED
      BY <2>1, <2>3, <2>5, <2>8, <2>9, <3>2, <3>4
         DEF Sound, HasLease, NotTakenOver, InPlace, Fields, Guards
  <2>10. CASE m.loop # "running"
    <3>1. Ended(a, x)
      BY <2>4, <2>8, <2>10, FaultEnds
    <3>2. Ended(m, x)
      BY <2>1, <3>1 DEF Ended, Fields
    <3>3. QED
      BY <2>10, <3>2, EndedIsSound DEF InPlace
  <2>11. QED
    BY <2>9, <2>10
<1>4. QED
  BY <1>2, <1>3

\* A gripper target keeps the invariant.
LEMMA GripperTargetSound ==
    ASSUME NEW m, Core(m), NEW g \in GripperEvent
    PROVE  /\ Core(GripperTarget(m, g))
           /\ \A f \in Fields \ Aside : GripperTarget(m, g)[f] = m[f]
<1> DEFINE last == [client |-> g.client, seq |-> g.seq]
           x == [m EXCEPT !.hand = g.type, !.gripLast = last]
<1>1. last \in [client : Callers, seq : 0..MaxSeq] /\ g.type \in {"none", "width", "grasp"}
  BY BoundsAssumption DEF GripperEvent
<1>2. GripperTarget(m, g) \in {m, x}
  BY DEF GripperTarget
<1> HIDE DEF last
<1>3. /\ Shape(x) /\ x.hand = g.type /\ x.gripLast = last
      /\ \A f \in Fields \ {"hand", "gripLast"} : x[f] = m[f]
  BY DEF Core, WellFormed, Shape, Fields
<1>4. Typed(x)
  BY <1>1, <1>3 DEF Core, WellFormed, Typed, Fields
<1> HIDE DEF x
<1>5. Core(x)
  BY <1>3, <1>4, AsideSound DEF Aside, WellFormed, Fields, Sound
<1>6. QED
  BY <1>2, <1>3, <1>5 DEF Aside, Fields

\* The watchdog keeps the invariant.
LEMMA WatchdogSound ==
    ASSUME NEW m, Core(m), m.phase = "active", NEW x \in Watchdog(m)
    PROVE  Sound(m, x) /\ InPlace(m, x)
<1>1. CASE StopDue(m)
  BY <1>1, StopEnds, EndedIsSound DEF Watchdog, InSession
<1>2. CASE ~StopDue(m) /\ HoldDue(m)
  <2>1. x = [m EXCEPT !.holding = TRUE]
    BY <1>2 DEF Watchdog
  <2>2. Shape(x) /\ x.holding \in BOOLEAN /\ \A f \in Fields \ {"holding"} : x[f] = m[f]
    BY <2>1 DEF Core, WellFormed, Shape, Fields
  <2>3. Typed(x)
    BY <2>2 DEF Core, WellFormed, Typed, Fields
  <2>4. QED
    BY <2>2, <2>3, AsideSound DEF Aside, WellFormed, Fields
<1>3. CASE ~StopDue(m) /\ ~HoldDue(m)
  BY <1>3, Stays DEF Watchdog
<1>4. QED
  BY <1>1, <1>2, <1>3

\* A tick of a home query keeps the invariant.
LEMMA TickHomingSound ==
    ASSUME NEW m, Core(m), m.phase = "homing", NEW near \in BOOLEAN, NEW atRest \in BOOLEAN,
           NEW x \in TickHoming(m, near, atRest)
    PROVE  Sound(m, x)
<1> DEFINE within == IF near THEN m.homing.within + 1 ELSE 0
           counted == [m EXCEPT !.homing.within = within]
<1>1. CASE x \in FinishHome(m, TRUE) \/ x \in FinishHome(m, FALSE)
  BY <1>1, FinishHomeEnds, EndedIsSound
<1>2. CASE x = counted /\ within \in 0..HomeSettle
  <2> DEFINE h == [m.homing EXCEPT !.within = within]
  <2>1. Shape(counted) /\ counted.homing = h
        /\ \A f \in Fields \ {"homing"} : counted[f] = m[f]
    BY DEF Core, WellFormed, Shape, Fields
  <2>2. h \in Homings /\ h.client = m.homing.client
    BY <1>2 DEF Core, WellFormed, Typed, Homings
  <2> HIDE DEF h
  <2> HIDE DEF counted
  <2>3. Typed(counted)
    BY <2>1, <2>2 DEF Core, WellFormed, Typed, Fields
  <2>4. Core(counted)
    BY <2>1, <2>2, <2>3 DEF Core, WellFormed, Agree, InSession, Fields
  <2>5. QED
    BY <1>2, <2>1, <2>4 DEF Sound, HasLease, NotTakenOver, Core, WellFormed, Typed, Guards, Fields
<1>3. m.homing.within \in 0..HomeSettle
  BY DEF Core, WellFormed, Typed, Homings
<1>4. within >= HomeSettle \/ within \in 0..HomeSettle
  BY <1>3, BoundsAssumption
<1>5. x \in FinishHome(m, TRUE) \/ x \in FinishHome(m, FALSE)
      \/ (x = counted /\ ~(near /\ within >= HomeSettle))
  BY DEF TickHoming
<1>6. ~near => within \in 0..HomeSettle
  BY BoundsAssumption
<1>7. QED
  BY <1>1, <1>2, <1>4, <1>5, <1>6

\* A tick keeps the invariant.
LEMMA TickSound ==
    ASSUME NEW m, Core(m), NEW x \in TickOf(m)
    PROVE  Sound(m, x) /\ (m.phase # "homing" => InPlace(m, x))
<1>1. CASE ~InSession(m)
  BY <1>1, Stays DEF TickOf
<1>2. CASE InSession(m) /\ m.loop # "running"
  BY <1>2, FaultEnds, EndedIsSound DEF TickOf, InPlace
<1>3. CASE InSession(m) /\ m.loop = "running" /\ m.phase = "active"
  BY <1>3, WatchdogSound DEF TickOf
<1>4. CASE InSession(m) /\ m.loop = "running" /\ m.phase # "active"
  <2>1. PICK near \in BOOLEAN, atRest \in BOOLEAN : x \in TickHoming(m, near, atRest)
    BY <1>4 DEF TickOf
  <2>2. m.phase = "homing"
    BY <1>4 DEF InSession
  <2>3. QED
    BY <2>1, <2>2, TickHomingSound
<1>5. QED
  BY <1>1, <1>2, <1>3, <1>4

-----------------------------------------------------------------------------
(* The steps. *)

Inv == TypeOK /\ Core(arm) /\ HasLease(arm)

\* What a step may do to the arm's record.
Stepped == Sound(arm, arm') /\ (~HomeTick => InPlace(arm, arm'))

\* The invariant holds at the start.
LEMMA Initially == Init => Inv
<1> SUFFICES ASSUME Init PROVE Inv
  OBVIOUS
<1>1. Shape(arm)
  BY DEF Init, Shape, Fields
<1>2. Typed(arm)
  BY Nothing DEF Init, Typed, Phases, Loops, Goals
<1>3. Agree(arm) /\ HasLease(arm)
  BY DEF Init, Agree, InSession, HasLease, NoHoming
<1>4. arm \in Arm
  BY <1>1, <1>2, Shaped DEF WellFormed
<1>5. outlived \in BOOLEAN
  BY DEF Init
<1>6. TypeOK
  BY <1>4, <1>5 DEF Init, TypeOK
<1>7. QED
  BY <1>1, <1>2, <1>3, <1>6 DEF Inv, Core, WellFormed

\* What the record and the queue are when a step takes an event.
LEMMA Taken ==
    ASSUME Inv, Take
    PROVE  /\ Head(queue) \in Event \cup {ShutdownEvent}
           /\ queue' \in Seq(Event \cup {ShutdownEvent})
  BY DEF Inv, TypeOK, Take

\* An event's type decides its fields.
LEMMA EventTypes ==
    ASSUME NEW e \in Event \cup {ShutdownEvent}
    PROVE  /\ e.type = "target" => e \in TargetEvent
           /\ e.type \in {"width", "grasp"} => e \in GripperEvent
           /\ e.type = "cmd" => e \in QueryEvent
           /\ e.type \in {"alive", "lost"} => e \in LeaseEvent
  BY DEF Event, TargetEvent, GripperEvent, QueryEvent, LeaseEvent, ShutdownEvent

\* A step beside the session is sound.
LEMMA BesideSound ==
    ASSUME Inv, WellFormed(arm'), \A f \in Fields \ Aside : arm'[f] = arm[f]
    PROVE  Stepped
  BY AsideSound DEF Inv, Stepped

\* The thread's steps within a batch are sound.
LEMMA BatchSteps ==
    ASSUME Inv, TakeTarget \/ TakeWidth \/ TakeQuery \/ TakeLease \/ TakeShutdown
    PROVE  Stepped
<1>1. CASE TakeTarget \/ TakeWidth
  <2>1. arm' = arm
    BY <1>1 DEF TakeTarget, TakeWidth
  <2>2. QED
    BY <2>1, Stays DEF Inv, Stepped
<1>2. CASE TakeQuery
  BY <1>2, Taken, EventTypes, CommandSound DEF TakeQuery, IsQuery, Inv, Stepped
<1>3. CASE TakeLease
  <2>1. Head(queue).client \in Clients
    BY <1>3, Taken, EventTypes DEF TakeLease, LeaseEvent
  <2>2. QED
    BY <1>3, <2>1, LeaseAliveSound, LeaseLostSound DEF TakeLease, Inv, Stepped
<1>4. CASE TakeShutdown
  BY <1>4, EndSessionEnds, EndedIsSound DEF TakeShutdown, Inv, Stepped
<1>5. QED
  BY <1>1, <1>2, <1>3, <1>4

\* The gripper-home thread's steps are sound.
LEMMA GripperSteps ==
    ASSUME Inv, TakeGrasp \/ EndBatch
    PROVE  Stepped
<1> DEFINE moved == IF newestWidth = NoTarget THEN arm ELSE GripperTarget(arm, newestWidth)
<1>1. newestWidth # NoTarget => newestWidth \in GripperEvent
  BY DEF Inv, TypeOK
<1>2. Core(moved) /\ \A f \in Fields \ Aside : moved[f] = arm[f]
  BY <1>1, GripperTargetSound DEF Inv
<1>3. CASE TakeGrasp
  <2>1. Head(queue) \in GripperEvent
    BY <1>3, Taken, EventTypes DEF TakeGrasp
  <2>2. arm' = GripperTarget(moved, Head(queue))
    BY <1>3 DEF TakeGrasp
  <2> HIDE DEF moved
  <2>3. Core(arm') /\ \A f \in Fields \ Aside : arm'[f] = moved[f]
    BY <1>2, <2>1, <2>2, GripperTargetSound
  <2>4. QED
    BY <1>2, <2>3, BesideSound DEF Core
<1>4. CASE EndBatch
  <2>1. arm' \in (IF newest = NoTarget THEN {moved} ELSE Target(moved, newest))
    BY <1>4 DEF EndBatch
  <2>2. newest # NoTarget => newest \in TargetEvent
    BY DEF Inv, TypeOK
  <2>3. Sound(arm, moved) /\ InPlace(arm, moved)
    BY <1>2, AsideSound DEF Inv, Core
  <2> HIDE DEF moved
  <2>4. Sound(moved, arm') /\ InPlace(moved, arm')
    BY <1>2, <2>1, <2>2, TargetSound, Stays
  <2>5. /\ moved.phase = arm.phase /\ moved.loop = arm.loop /\ moved.guard = arm.guard
        /\ moved.holder = arm.holder
    BY <1>2 DEF Fields, Aside
  <2>6. QED
    BY <2>3, <2>4, <2>5 DEF Sound, InPlace, NotTakenOver, InSession, Stepped
<1>5. QED
  BY <1>3, <1>4

\* The arm thread's steps are sound.
LEMMA ThreadSteps ==
    ASSUME Inv, Tick \/ WatchdogFires \/ Drain \/ Finish
    PROVE  Stepped
<1>1. CASE Tick
  BY <1>1, TickSound DEF Tick, Inv, Stepped, HomeTick
<1>2. CASE WatchdogFires
  BY <1>2, WatchdogSound DEF WatchdogFires, WatchdogDue, Inv, Stepped
<1>3. CASE Drain
  <2>1. arm' = IF IsQuery(Head(queue)) THEN Reply(arm, Head(queue).client) ELSE arm
    BY <1>3 DEF Drain
  <2>2. Head(queue) \in Event \cup {ShutdownEvent}
    BY <1>3 DEF Drain, Inv, TypeOK
  <2>3. IsQuery(Head(queue)) => Head(queue).client \in Callers
    BY <2>2, EventTypes DEF IsQuery, QueryEvent
  <2>4. QED
    BY <2>1, <2>3, Stays, RepliedSound DEF Inv, Stepped
<1>4. CASE Finish
  <2>1. arm' = arm
    BY <1>4 DEF Finish
  <2>2. QED
    BY <2>1, Stays DEF Inv, Stepped
<1>5. QED
  BY <1>1, <1>2, <1>3, <1>4

\* The environment's steps are sound.
LEMMA EnvironmentSteps ==
    ASSUME Inv, Environment
    PROVE  Stepped
<1>0. Core(arm) /\ Shape(arm) /\ Typed(arm)
  BY DEF Inv, Core, WellFormed
<1>1. CASE \E e \in Alphabet : Send(e)
  <2>1. PICK e \in Alphabet : Send(e)
    BY <1>1
  <2>2. CASE ~IsQuery(e)
    <3>1. arm' = arm
      BY <2>1, <2>2 DEF Send
    <3>2. QED
      BY <3>1, Stays DEF Inv, Stepped
  <2>3. CASE IsQuery(e)
    <3>1. arm' = [arm EXCEPT !.open[e.client] = @ + 1]
      BY <2>1, <2>3 DEF Send
    <3>2. e.client \in Callers
      BY <2>3, AlphabetAssumption, EventTypes DEF IsQuery, QueryEvent
    <3>3. Shape(arm') /\ \A f \in Fields \ {"open"} : arm'[f] = arm[f]
      BY <1>0, <3>1 DEF Shape, Fields
    <3>4. arm'.open \in [Callers -> Int]
      BY <1>0, <3>1, <3>2 DEF Shape, Typed, Fields
    <3>5. Typed(arm')
      BY <1>0, <3>3, <3>4 DEF Typed, Fields
    <3>6. QED
      BY <3>3, <3>5, BesideSound DEF WellFormed, Fields, Aside
  <2>4. QED
    BY <2>2, <2>3
<1>2. CASE Shutdown
  <2>1. arm' = arm
    BY <1>2 DEF Shutdown
  <2>2. QED
    BY <2>1, Stays DEF Inv, Stepped
<1>3. CASE LoopEnds
  <2>1. /\ Shape(arm') /\ arm'.loop = "ended" /\ arm.loop = "running"
        /\ \A f \in Fields \ {"loop"} : arm'[f] = arm[f]
    BY <1>0, <1>3 DEF LoopEnds, Shape, Fields
  <2>2. Typed(arm')
    BY <1>0, <2>1 DEF Typed, Fields, Loops
  <2>3. Core(arm')
    BY <1>0, <2>1, <2>2 DEF Core, WellFormed, Agree, InSession, Fields
  <2>4. QED
    BY <1>0, <2>1, <2>3 DEF Inv, Stepped, Sound, HasLease, NotTakenOver, InPlace, Typed, Guards,
                            Fields
<1>4. CASE GripperHomed
  <2>1. arm.gripperHome \in Callers
    BY <1>0 DEF Typed
  <2> DEFINE told == Reply(arm, arm.gripperHome)
  <2>2. Core(told) /\ \A f \in Fields \ {"open"} : told[f] = arm[f]
    BY <1>0, <2>1, AnsweredCore
  <2>3. arm' = [told EXCEPT !.gripperHome = NoClient]
    BY <1>4 DEF GripperHomed
  <2> HIDE DEF told
  <2>4. /\ Shape(arm') /\ arm'.gripperHome = NoClient
        /\ \A f \in Fields \ {"gripperHome"} : arm'[f] = told[f]
    BY <2>2, <2>3 DEF Core, WellFormed, Shape, Fields
  <2>5. Typed(arm')
    BY <2>2, <2>4, Nothing DEF Core, WellFormed, Typed, Fields
  <2>6. QED
    BY <2>2, <2>4, <2>5, BesideSound DEF WellFormed, Fields, Aside
<1>5. CASE TimePasses /\ arm.phase = "active"
  <2>1. /\ Shape(arm') /\ \A f \in Fields \ {"targetAge", "acceptAge"} : arm'[f] = arm[f]
        /\ arm'.targetAge = (IF arm.targetAge < StopAfter THEN arm.targetAge + 1 ELSE StopAfter)
        /\ arm'.acceptAge = (IF arm.acceptAge < StopAfter THEN arm.acceptAge + 1 ELSE StopAfter)
    BY <1>0, <1>5 DEF TimePasses, Shape, Fields
  <2>2. arm'.targetAge \in 0..StopAfter /\ arm'.acceptAge \in 0..StopAfter
    BY <1>0, <2>1, WatchdogAssumption DEF Typed
  <2>3. Typed(arm')
    BY <1>0, <2>1, <2>2 DEF Typed, Fields
  <2>4. QED
    BY <2>1, <2>3, BesideSound DEF WellFormed, Fields, Aside
<1>6. CASE TimePasses /\ arm.phase # "active"
  <2> DEFINE age == IF arm.homing.age < HomeTimeout THEN arm.homing.age + 1 ELSE HomeTimeout
             h   == [arm.homing EXCEPT !.age = age]
  <2>1. arm' = [arm EXCEPT !.homing.age = age] /\ arm.phase = "homing"
    BY <1>6 DEF TimePasses, InSession
  <2>2. age \in 0..HomeTimeout
    BY <1>0, BoundsAssumption DEF Typed, Homings
  <2> HIDE DEF age
  <2>3. h \in Homings /\ h.client = arm.homing.client
    BY <1>0, <2>2 DEF Typed, Homings
  <2>4. Shape(arm') /\ arm'.homing = h /\ \A f \in Fields \ {"homing"} : arm'[f] = arm[f]
    BY <1>0, <2>1 DEF Shape, Fields
  <2> HIDE DEF h
  <2>5. Typed(arm')
    BY <1>0, <2>3, <2>4 DEF Typed, Fields
  <2>6. Core(arm')
    BY <1>0, <2>1, <2>3, <2>4, <2>5 DEF Core, WellFormed, Agree, InSession, Fields
  <2>7. QED
    BY <1>0, <2>4, <2>6 DEF Inv, Stepped, Sound, HasLease, NotTakenOver, InPlace, Typed, Guards,
                            Fields
<1>7. QED
  BY <1>1, <1>2, <1>3, <1>4, <1>5, <1>6 DEF Environment

\* Every step is sound.
LEMMA NextStepped ==
    ASSUME Inv, Next
    PROVE  Stepped
  BY BatchSteps, GripperSteps, ThreadSteps, EnvironmentSteps DEF Next, ArmThread

-----------------------------------------------------------------------------
(* The inductive invariant. *)

\* The channel and what the batch has taken keep their types in every step.
LEMMA RestTyped ==
    ASSUME Inv, Next
    PROVE  /\ queue' \in Seq(Event \cup {ShutdownEvent})
           /\ inflight' \in Int
           /\ pc' \in {"loop", "batch", "drain", "finished"}
           /\ newest' \in TargetEvent \cup {NoTarget}
           /\ newestWidth' \in GripperEvent \cup {NoTarget}
           /\ outlived' \in BOOLEAN
<1>0. TypeOK
  BY DEF Inv
<1>1. CASE Tick \/ WatchdogFires \/ LoopEnds \/ GripperHomed \/ TimePasses
  BY <1>0, <1>1 DEF TypeOK, Tick, WatchdogFires, LoopEnds, GripperHomed, TimePasses
<1>2. CASE TakeTarget
  <2>1. Take /\ outlived' \in BOOLEAN
    BY <1>2 DEF TakeTarget
  <2>2. QED
    BY <1>0, <1>2, <2>1, Taken, EventTypes DEF TypeOK, TakeTarget, IsTarget
<1>3. CASE TakeWidth
  BY <1>0, <1>3, Taken, EventTypes DEF TypeOK, TakeWidth
<1>4. CASE TakeGrasp
  BY <1>0, <1>4, Taken DEF TypeOK, TakeGrasp
<1>5. CASE TakeQuery \/ TakeLease \/ TakeShutdown
  <2>1. Take /\ outlived' \in BOOLEAN
    BY <1>0, <1>5 DEF TypeOK, TakeQuery, TakeLease, TakeShutdown
  <2>2. QED
    BY <1>0, <1>5, <2>1, Taken DEF TypeOK, TakeQuery, TakeLease, TakeShutdown
<1>6. CASE EndBatch
  <2>1. outlived' \in BOOLEAN
    BY <1>6 DEF EndBatch
  <2>2. QED
    BY <1>0, <1>6, <2>1 DEF TypeOK, EndBatch
<1>7. CASE Drain
  BY <1>0, <1>7 DEF TypeOK, Drain
<1>8. CASE Finish
  BY <1>0, <1>8 DEF TypeOK, Finish
<1>9. CASE \E e \in Alphabet : Send(e)
  BY <1>0, <1>9, AlphabetAssumption DEF TypeOK, Send
<1>10. CASE Shutdown
  BY <1>0, <1>10 DEF TypeOK, Shutdown
<1>11. QED
  BY <1>1, <1>2, <1>3, <1>4, <1>5, <1>6, <1>7, <1>8, <1>9, <1>10
     DEF Next, ArmThread, Environment

\* The invariant is inductive.
LEMMA Inductive == Inv /\ [Next]_vars => Inv'
<1> SUFFICES ASSUME Inv, [Next]_vars PROVE Inv'
  OBVIOUS
<1>1. CASE Next
  <2>1. Core(arm') /\ HasLease(arm')
    BY <1>1, NextStepped DEF Stepped, Sound, Inv
  <2>2. arm' \in Arm
    BY <2>1, Shaped DEF Core
  <2>3. TypeOK'
    BY <1>1, <2>2, RestTyped DEF TypeOK
  <2>4. QED
    BY <2>1, <2>3 DEF Inv
<1>2. CASE UNCHANGED vars
  BY <1>2 DEF vars, Inv, TypeOK
<1>3. QED
  BY <1>1, <1>2

(* Between any two handlers the arm's record is consistent, and the holder's lease is live. *)
THEOREM Invariance == Spec => []Inv
  BY Initially, Inductive, PTL DEF Spec

(* Every variable keeps its type, whatever the clients send and however the robot answers
   the handlers of arm/machine.rs and arm/commands.rs. *)
THEOREM TypeCorrect == Spec => []TypeOK
<1>1. Inv => TypeOK
  BY DEF Inv
<1>2. QED
  BY <1>1, Invariance, PTL

(* No holder without a live lease, for any number of clients: what acquire checks and
   lease_lost restores after it ended the session. *)
THEOREM HolderIsAlive == Spec => []HolderHasLease
<1>1. Inv => HolderHasLease
  BY DEF Inv, HasLease, HolderHasLease
<1>2. QED
  BY <1>1, Invariance, PTL

(* Loop, gate and holder come and go together (begin, after_loop, release, lease_lost). *)
THEOREM SessionIsOwned == Spec => []SessionHasOwner
<1>1. Inv => SessionHasOwner
  BY DEF Inv, Core, Agree, SessionHasOwner
<1>2. QED
  BY <1>1, Invariance, PTL

(* One `start' and one `end' per session, and its file closed with it (begin_episode,
   end_episode, recording.begin, finish and discard). *)
THEOREM SessionIsClosed == Spec => []SessionIsBracketed
<1>1. Inv => SessionIsBracketed
  BY DEF Inv, Core, Agree, SessionIsBracketed
<1>2. QED
  BY <1>1, Invariance, PTL

(* A running joints loop is re-targeted to where the arm is before it is stopped, in every
   step but the tick that finds a home arrived (stop, finish_home, hold_in_place). *)
THEOREM StoppedInPlace == Spec => StopsInPlace
<1>1. Inv /\ [Next]_vars =>
        [(arm.loop = "running" /\ arm'.loop = "none" /\ arm.guard.kind = "joints" /\ ~HomeTick)
            => arm'.goal = "here"]_vars
  BY NextStepped DEF Stepped, InPlace
<1>2. QED
  BY <1>1, Invariance, PTL DEF Spec, StopsInPlace

(* A session that goes on keeps its holder, its kind and the order of its targets (enable,
   home, acquire and release refuse during a session; judge asks for a later sequence). *)
THEOREM NeverTakenOver == Spec => SessionIsNotTakenOver
<1>1. Inv /\ [Next]_vars =>
        [(InSession(arm) /\ InSession(arm')) =>
            /\ arm'.holder = arm.holder
            /\ arm'.guard.kind = arm.guard.kind
            /\ arm'.guard.seq >= arm.guard.seq]_vars
  <2> SUFFICES ASSUME Inv, Next, InSession(arm), InSession(arm')
               PROVE  /\ arm'.holder = arm.holder
                      /\ arm'.guard.kind = arm.guard.kind
                      /\ arm'.guard.seq >= arm.guard.seq
    BY DEF InSession
  <2>1. QED
    BY NextStepped DEF Stepped, Sound, NotTakenOver
<1>2. QED
  BY <1>1, Invariance, PTL DEF Spec, SessionIsNotTakenOver

(* A session belongs to one client with a live lease, and is closed with it. *)
THEOREM OwnedSessions == Spec => []SessionsAreOwned
<1>1. HolderHasLease /\ SessionHasOwner /\ SessionIsBracketed => SessionsAreOwned
  BY DEF SessionsAreOwned
<1>2. QED
  BY <1>1, HolderIsAlive, SessionIsOwned, SessionIsClosed, PTL

(* What no step of a session does: stop it on its way to a far target, or hand it to another. *)
THEOREM SessionStepsHold == Spec => SessionSteps
  BY StoppedInPlace, NeverTakenOver, PTL DEF SessionSteps

-----------------------------------------------------------------------------
(* Counting the members of the channel. *)

Where(q, S) == {i \in DOMAIN q : q[i] \in S}
Count(q, S) == Cardinality(Where(q, S))

\* A channel has finitely many members of any set.
LEMMA CountIsNat ==
    ASSUME NEW T, NEW q \in Seq(T), NEW S
    PROVE  IsFiniteSet(Where(q, S)) /\ Count(q, S) \in Nat
<1>1. DOMAIN q = 1..Len(q) /\ Len(q) \in Nat
  OBVIOUS
<1>2. IsFiniteSet(1..Len(q))
  BY <1>1, FS_Interval
<1>3. Where(q, S) \in SUBSET (1..Len(q))
  BY <1>1 DEF Where
<1>4. QED
  BY <1>2, <1>3, FS_Subset, FS_CardinalityType DEF Count

\* Sending adds one where it belongs.
LEMMA CountOfAppend ==
    ASSUME NEW T, NEW q \in Seq(T), NEW e \in T, NEW S
    PROVE  Count(Append(q, e), S) = Count(q, S) + (IF e \in S THEN 1 ELSE 0)
<1>1. /\ DOMAIN q = 1..Len(q) /\ Len(q) \in Nat
      /\ DOMAIN Append(q, e) = 1..Len(q) + 1
      /\ Append(q, e)[Len(q) + 1] = e
      /\ \A i \in 1..Len(q) : Append(q, e)[i] = q[i]
  OBVIOUS
<1>2. IsFiniteSet(Where(q, S)) /\ Count(q, S) \in Nat
  BY CountIsNat
<1>3. CASE e \in S
  <2>1. Where(Append(q, e), S) = Where(q, S) \cup {Len(q) + 1}
    BY <1>1, <1>3 DEF Where
  <2>2. Len(q) + 1 \notin Where(q, S)
    BY <1>1 DEF Where
  <2>3. QED
    BY <1>2, <1>3, <2>1, <2>2, FS_AddElement DEF Count
<1>4. CASE e \notin S
  <2>1. Where(Append(q, e), S) = Where(q, S)
    BY <1>1, <1>4 DEF Where
  <2>2. QED
    BY <1>2, <1>4, <2>1 DEF Count
<1>5. QED
  BY <1>3, <1>4

\* Taking the first removes one where it belonged.
LEMMA CountOfTail ==
    ASSUME NEW T, NEW q \in Seq(T), q # <<>>, NEW S
    PROVE  Count(Tail(q), S) = Count(q, S) - (IF Head(q) \in S THEN 1 ELSE 0)
<1> DEFINE rest == Where(Tail(q), S)
           late == Where(q, S) \ {1}
           shift == [i \in rest |-> i + 1]
<1>1. /\ DOMAIN q = 1..Len(q) /\ Len(q) \in Nat \ {0}
      /\ Tail(q) \in Seq(T)
      /\ DOMAIN Tail(q) = 1..Len(q) - 1
      /\ q[1] = Head(q)
      /\ \A i \in 1..Len(q) - 1 : Tail(q)[i] = q[i + 1]
  OBVIOUS
<1>2. IsFiniteSet(Where(q, S)) /\ Count(q, S) \in Nat
  BY CountIsNat
<1>3. IsFiniteSet(rest) /\ Count(Tail(q), S) \in Nat
  BY <1>1, CountIsNat
<1>4. \A i \in rest : i \in Nat /\ i + 1 \in late
  BY <1>1 DEF Where
<1>5. \A j \in late : j \in Nat /\ j - 1 \in rest /\ (j - 1) + 1 = j
  BY <1>1 DEF Where
<1> HIDE DEF rest, late
<1>6. shift \in Injection(rest, late)
  BY <1>4 DEF Injection, IsInjective
<1>7. shift \in Surjection(rest, late)
  BY <1>4, <1>5 DEF Surjection
<1>8. ExistsBijection(rest, late)
  BY <1>6, <1>7 DEF ExistsBijection, Bijection
<1>9. Cardinality(late) = Cardinality(rest)
  BY <1>3, <1>8, FS_Bijection
<1>10. Cardinality(late) = IF 1 \in Where(q, S) THEN Cardinality(Where(q, S)) - 1
                           ELSE Cardinality(Where(q, S))
  BY <1>2, FS_RemoveElement DEF late
<1>11. 1 \in Where(q, S) <=> Head(q) \in S
  BY <1>1 DEF Where
<1>12. QED
  BY <1>2, <1>3, <1>9, <1>10, <1>11 DEF Count, rest

-----------------------------------------------------------------------------
(* What the arm owes: the open queries that wait neither for a home nor for the gripper. *)

One(b) == IF b THEN 1 ELSE 0
Owed(m, c) ==
    m.open[c] - One(c # NoClient /\ m.homing.client = c)
              - One(c # NoClient /\ m.gripperHome = c)

\* A handler that answers nobody and takes no query over.
Keeps(m, x) == \A c \in Callers : Owed(x, c) = Owed(m, c)
\* One that answers d, or takes its query over.
Pays(m, x, d) == \A c \in Callers : Owed(x, c) = Owed(m, c) - One(c = d)

\* What is owed is a number.
LEMMA OwedIsInt ==
    ASSUME NEW m, WellFormed(m), NEW c \in Callers
    PROVE  Owed(m, c) \in Int
<1>1. m.open[c] \in Int
  BY DEF WellFormed, Typed
<1>2. QED
  BY <1>1 DEF Owed, One

\* Who leaves the queries alone owes the same.
LEMMA SameKeeps ==
    ASSUME NEW m, NEW x, x.open = m.open, x.homing.client = m.homing.client,
           x.gripperHome = m.gripperHome
    PROVE  Keeps(m, x)
  BY DEF Keeps, Owed

\* An answer pays one.
LEMMA ReplyPays ==
    ASSUME NEW m, NEW d \in Callers, WellFormed(m)
    PROVE  Pays(m, Reply(m, d), d)
<1>1. \A f \in Fields \ {"open"} : Reply(m, d)[f] = m[f]
  BY Answered
<1>2. \A c \in Callers : Reply(m, d).open[c] = m.open[c] - One(c = d)
  BY DEF Reply, WellFormed, Shape, Typed, Fields, One
<1>3. \A c \in Callers : m.open[c] \in Int
  BY DEF WellFormed, Typed
<1>4. QED
  BY <1>1, <1>2, <1>3 DEF Pays, Owed, One, Fields

\* A kept debt that is then paid.
LEMMA KeptThenPaid ==
    ASSUME NEW m, NEW y, NEW x, NEW d, Keeps(m, y), Pays(y, x, d)
    PROVE  Pays(m, x, d)
  BY DEF Keeps, Pays

\* after_loop answers the home query that it takes out.
LEMMA AfterLoopKeeps ==
    ASSUME NEW m, WellFormed(m), m.loop = "none", m.episode = 1, m.holder # NoClient,
           NEW phase \in {"idle", "acquired", "faulted"}
    PROVE  Keeps(m, AfterLoop(m, phase))
<1> DEFINE over == [m EXCEPT !.phase = phase, !.guard = NoGuard, !.holding = FALSE,
                             !.recording = "closed",
                             !.episode = IF @ > 0 THEN @ - 1 ELSE 0,
                             !.targetAge = 0, !.acceptAge = 0, !.homing = NoHoming]
<1>1. AfterLoop(m, phase) = IF m.homing.client = NoClient THEN over
                            ELSE Reply(over, m.homing.client)
  BY DEF AfterLoop
<1>2. Shape(over)
  BY DEF WellFormed, Shape
<1>3. /\ over.homing = NoHoming /\ over.open = m.open /\ over.gripperHome = m.gripperHome
      /\ over.phase = phase /\ over.guard = NoGuard /\ over.recording = "closed"
      /\ over.episode = 0 /\ over.loop = "none" /\ over.targetAge = 0 /\ over.acceptAge = 0
      /\ over.holder = m.holder /\ over.alive = m.alive /\ over.goal = m.goal
      /\ over.gripLast = m.gripLast /\ over.hand = m.hand
  BY DEF WellFormed, Shape, Fields
<1>4. over.holding \in BOOLEAN
  BY DEF WellFormed, Shape, Fields
<1> HIDE DEF over
<1>5. WellFormed(over)
  BY <1>2, <1>3, <1>4, Nothing DEF WellFormed, Typed, Fields, Phases
<1>6. m.homing.client \in Callers
  BY DEF WellFormed, Typed, Homings
<1>7. CASE m.homing.client = NoClient
  BY <1>1, <1>3, <1>7, SameKeeps DEF NoHoming
<1>8. CASE m.homing.client # NoClient
  <2>1. Pays(over, AfterLoop(m, phase), m.homing.client)
    BY <1>1, <1>5, <1>6, <1>8, ReplyPays
  <2>2. \A c \in Callers : m.open[c] \in Int
    BY DEF WellFormed, Typed
  <2>3. \A c \in Callers : Owed(over, c) = Owed(m, c) + One(c = m.homing.client)
    BY <1>3, <1>8, <2>2 DEF Owed, One, NoHoming
  <2>4. \A c \in Callers : Owed(m, c) \in Int
    BY OwedIsInt
  <2>5. QED
    BY <2>1, <2>3, <2>4 DEF Pays, Keeps, One
<1>9. QED
  BY <1>7, <1>8

\* A stop keeps the debts.
LEMMA StopToKeeps ==
    ASSUME NEW m, Stoppable(m), NEW phase \in {"idle", "acquired", "faulted"}
    PROVE  Keeps(m, AfterLoop([m EXCEPT !.loop = "none"], phase))
<1> DEFINE taken == [m EXCEPT !.loop = "none"]
<1>1. Shape(taken)
  BY DEF Stoppable, WellFormed, Shape
<1>2. taken.loop = "none" /\ \A f \in Fields \ {"loop"} : taken[f] = m[f]
  BY DEF Stoppable, WellFormed, Shape, Fields
<1>3. Typed(taken)
  BY <1>2 DEF Stoppable, WellFormed, Typed, Fields, Loops
<1> HIDE DEF taken
<1>4. Keeps(taken, AfterLoop(taken, phase))
  BY <1>1, <1>2, <1>3, AfterLoopKeeps DEF WellFormed, Stoppable, Fields
<1>5. Keeps(m, taken)
  BY <1>2, SameKeeps DEF Fields
<1>6. Keeps(m, AfterLoop(taken, phase))
  BY <1>4, <1>5 DEF Keeps
<1>7. QED
  BY <1>6 DEF taken

\* Staying where it is changes no debt.
LEMMA HeldKeeps ==
    ASSUME NEW m, Stoppable(m)
    PROVE  Keeps(m, HoldInPlace(m))
  BY Held, SameKeeps DEF Fields

\* stop pays nobody.
LEMMA StopKeeps ==
    ASSUME NEW m, Core(m), InSession(m), NEW x \in Stop(m)
    PROVE  Keeps(m, x)
<1>1. Stoppable(m)
  BY DEF Core, Agree, Stoppable
<1> DEFINE held == IF m.guard.kind = "joints" THEN HoldInPlace(m) ELSE m
<1>2. Stoppable(held) /\ Keeps(m, held)
  BY <1>1, Held, HeldKeeps, SameKeeps
<1>3. x \in StopTo(held, "idle")
  BY DEF Stop
<1> HIDE DEF held
<1>4. PICK phase \in {"idle", "faulted"} : x = AfterLoop([held EXCEPT !.loop = "none"], phase)
  BY <1>2, <1>3 DEF StopTo, Stoppable
<1>5. Keeps(held, x)
  BY <1>2, <1>4, StopToKeeps
<1>6. QED
  BY <1>2, <1>5 DEF Keeps

\* The end of a home answers its query, once.
LEMMA FinishHomeKeeps ==
    ASSUME NEW m, Core(m), m.phase = "homing", NEW there \in BOOLEAN,
           NEW x \in FinishHome(m, there)
    PROVE  Keeps(m, x)
<1> DEFINE taken  == [m EXCEPT !.homing = NoHoming]
           halted == IF there THEN taken ELSE HoldInPlace(taken)
<1>1. m.homing.client \in Callers /\ m.homing.client # NoClient
  BY DEF Core, WellFormed, Typed, Homings, Agree
<1>2. /\ Shape(taken) /\ taken.homing = NoHoming
      /\ \A f \in Fields \ {"homing"} : taken[f] = m[f]
  BY DEF Core, WellFormed, Shape, Fields
<1>3. Typed(taken)
  BY <1>2, Nothing DEF Core, WellFormed, Typed, Fields
<1>4. Stoppable(taken)
  BY <1>2, <1>3 DEF Stoppable, WellFormed, Core, Agree, InSession, Fields
<1> HIDE DEF taken
<1>5. Stoppable(halted) /\ Keeps(taken, halted)
  BY <1>4, Held, HeldKeeps, SameKeeps
<1>6. PICK y \in StopTo(halted, "acquired") : x = Reply(y, m.homing.client)
  BY <1>1 DEF FinishHome, taken
<1> HIDE DEF halted
<1>7. PICK phase \in {"acquired", "faulted"} : y = AfterLoop([halted EXCEPT !.loop = "none"], phase)
  BY <1>5, <1>6 DEF StopTo, Stoppable
<1>8. Keeps(halted, y)
  BY <1>5, <1>7, StopToKeeps
<1>9. Ended(halted, y)
  BY <1>5, <1>6, StopToEnds
<1>10. Pays(y, x, m.homing.client)
  BY <1>1, <1>6, <1>9, ReplyPays DEF Ended, Core
<1>11. \A c \in Callers : m.open[c] \in Int
  BY DEF Core, WellFormed, Typed
<1>12. \A c \in Callers : Owed(taken, c) = Owed(m, c) + One(c = m.homing.client)
  BY <1>1, <1>2, <1>11 DEF Owed, One, NoHoming, Fields
<1>13. \A c \in Callers : Owed(m, c) \in Int
  BY OwedIsInt DEF Core
<1>14. QED
  BY <1>5, <1>8, <1>10, <1>12, <1>13 DEF Pays, Keeps, One

\* A fault pays nobody.
LEMMA FaultKeeps ==
    ASSUME NEW m, Core(m), InSession(m), NEW x \in Fault(m)
    PROVE  Keeps(m, x)
  BY StopToKeeps DEF Fault, Stoppable, Core, Agree

\* end_session pays nobody: the home query that it takes out is answered on the way.
LEMMA EndSessionKeeps ==
    ASSUME NEW m, Core(m), NEW x \in EndSession(m)
    PROVE  Keeps(m, x)
<1>1. CASE m.phase = "active"
  BY <1>1, StopKeeps DEF EndSession, InSession
<1>2. CASE m.phase = "homing"
  BY <1>2, FinishHomeKeeps DEF EndSession
<1>3. CASE ~InSession(m)
  BY <1>3, SameKeeps DEF EndSession, InSession
<1>4. QED
  BY <1>1, <1>2, <1>3 DEF InSession

\* A lost lease pays nobody.
LEMMA LeaseLostKeeps ==
    ASSUME NEW m, Core(m), NEW c \in Clients, NEW x \in LeaseLost(m, c)
    PROVE  Keeps(m, x)
<1> DEFINE gone == [m EXCEPT !.alive = @ \ {c}]
<1>1. /\ Shape(gone) /\ gone.alive = m.alive \ {c}
      /\ \A f \in Fields \ {"alive"} : gone[f] = m[f]
  BY DEF Core, WellFormed, Shape, Fields
<1>2. Typed(gone)
  BY <1>1 DEF Core, WellFormed, Typed, Fields
<1>3. Core(gone)
  BY <1>1, <1>2 DEF Core, WellFormed, Agree, InSession, Fields
<1>4. x = gone \/ \E y \in EndSession(gone) : x = ClearHolder(y)
  BY DEF LeaseLost
<1> HIDE DEF gone
<1>5. Keeps(m, gone)
  BY <1>1, SameKeeps DEF Fields
<1>6. CASE x = gone
  BY <1>5, <1>6
<1>7. CASE \E y \in EndSession(gone) : x = ClearHolder(y)
  <2>1. PICK y \in EndSession(gone) : x = ClearHolder(y)
    BY <1>7
  <2>2. Keeps(gone, y) /\ Core(y)
    BY <1>3, <2>1, EndSessionKeeps, EndSessionEnds DEF Ended
  <2>3. /\ x.open = y.open /\ x.homing = y.homing /\ x.gripperHome = y.gripperHome
    BY <2>1, <2>2 DEF ClearHolder, Core, WellFormed, Shape, Fields
  <2>4. Keeps(y, x)
    BY <2>3, SameKeeps
  <2>5. QED
    BY <1>5, <2>2, <2>4 DEF Keeps
<1>8. QED
  BY <1>4, <1>6, <1>7

\* acquire, release, enable and recover leave the answer to their caller.
LEMMA VerbsKeep ==
    ASSUME NEW m, Core(m), NEW c \in Callers, NEW mode \in Kinds,
           NEW x \in Acquire(m, c) \cup Release(m, c) \cup Enable(m, c, mode) \cup Recover(m)
    PROVE  Keeps(m, x) /\ WellFormed(x)
<1>0. Shape(m)
  BY DEF Core, WellFormed
<1>1. CASE x \in Acquire(m, c)
  <2>1. x.open = m.open /\ x.homing = m.homing /\ x.gripperHome = m.gripperHome
    BY <1>0, <1>1 DEF Acquire, Shape, Fields
  <2>2. QED
    BY <1>1, <2>1, SameKeeps, AcquireSound DEF Sound, Core
<1>2. CASE x \in Release(m, c)
  <2>1. x.open = m.open /\ x.homing = m.homing /\ x.gripperHome = m.gripperHome
    BY <1>0, <1>2 DEF Release, ClearHolder, Shape, Fields
  <2>2. QED
    BY <1>2, <2>1, SameKeeps, ReleaseSound DEF Sound, Core
<1>3. CASE x \in Enable(m, c, mode)
  <2>1. x = m \/ \E y \in OpenRecording(m) : x = Begin(y, c, mode, "active", "start")
    BY <1>3, NotStartedIsNothing DEF Enable, InSession
  <2>2. \A y \in OpenRecording(m) : Shape(y) /\ \A f \in Fields \ {"recording"} : y[f] = m[f]
    BY <1>0 DEF OpenRecording, Shape, Fields
  <2>3. \A y \in OpenRecording(m) :
            LET b == Begin(y, c, mode, "active", "start")
            IN  b.open = y.open /\ b.homing = y.homing /\ b.gripperHome = y.gripperHome
    BY <2>2 DEF Begin, Shape, Fields
  <2>4. x.open = m.open /\ x.homing = m.homing /\ x.gripperHome = m.gripperHome
    BY <2>1, <2>2, <2>3 DEF Fields
  <2>5. QED
    BY <1>3, <2>4, SameKeeps, EnableSound DEF Sound, Core
<1>4. CASE x \in Recover(m)
  <2>1. x.open = m.open /\ x.homing = m.homing /\ x.gripperHome = m.gripperHome
    BY <1>0, <1>4 DEF Recover, Shape, Fields
  <2>2. QED
    BY <1>4, <2>1, SameKeeps, RecoverSound DEF Sound, Core
<1>5. QED
  BY <1>1, <1>2, <1>3, <1>4

\* home takes its query over, or answers it.
LEMMA HomePays ==
    ASSUME NEW m, Core(m), NEW c \in Callers, NEW x \in Home(m, c)
    PROVE  Pays(m, x, c)
<1>0. Shape(m) /\ \A d \in Callers : m.open[d] \in Int
  BY DEF Core, WellFormed, Typed
<1>1. CASE x = Reply(m, c)
  BY <1>1, ReplyPays DEF Core
<1>2. CASE /\ Holds(m, c) /\ m.phase = "acquired"
           /\ \E y \in OpenRecording(m) :
                  x = [Begin(y, c, "joints", "homing", "ready") EXCEPT !.homing.client = c]
  <2>1. PICK y \in OpenRecording(m) :
            x = [Begin(y, c, "joints", "homing", "ready") EXCEPT !.homing.client = c]
    BY <1>2
  <2> DEFINE b == Begin(y, c, "joints", "homing", "ready")
  <2>2. Shape(y) /\ \A f \in Fields \ {"recording"} : y[f] = m[f]
    BY <1>0 DEF OpenRecording, Shape, Fields
  <2>3. Shape(b) /\ b.open = y.open /\ b.homing = y.homing /\ b.gripperHome = y.gripperHome
    BY <2>2 DEF Begin, Shape, Fields
  <2>4. x = [b EXCEPT !.homing.client = c]
    BY <2>1
  <2> HIDE DEF b
  <2>5. x.open = b.open /\ x.gripperHome = b.gripperHome /\ x.homing = [b.homing EXCEPT !.client = c]
    BY <2>3, <2>4 DEF Shape, Fields
  <2>6. m.homing = NoHoming /\ c # NoClient
    BY <1>2 DEF Core, Agree, Holds
  <2>7. x.homing.client = c /\ x.open = m.open /\ x.gripperHome = m.gripperHome
    BY <2>2, <2>3, <2>5, <2>6 DEF NoHoming, Fields
  <2>8. QED
    BY <1>0, <2>6, <2>7 DEF Pays, Owed, One, NoHoming
<1>3. QED
  BY <1>1, <1>2, NotStartedIsNothing DEF Home, InSession

\* gripper_home hands its query to the thread, or answers it.
LEMMA GripperHomePays ==
    ASSUME NEW m, Core(m), NEW c \in Callers
    PROVE  Pays(m, GripperHome(m, c), c)
<1>0. Shape(m) /\ \A d \in Callers : m.open[d] \in Int
  BY DEF Core, WellFormed, Typed
<1>1. CASE Holds(m, c) /\ m.gripperHome = NoClient
  <2> DEFINE x == [m EXCEPT !.gripperHome = c]
  <2>1. x.open = m.open /\ x.homing = m.homing /\ x.gripperHome = c
    BY <1>0 DEF Shape, Fields
  <2>2. GripperHome(m, c) = x
    BY <1>1 DEF GripperHome
  <2> HIDE DEF x
  <2>3. QED
    BY <1>0, <1>1, <2>1, <2>2 DEF Pays, Owed, One, Holds
<1>2. CASE ~(Holds(m, c) /\ m.gripperHome = NoClient)
  BY <1>2, ReplyPays DEF GripperHome, Core
<1>3. QED
  BY <1>1, <1>2

\* Every command is answered once, now or by the one that took it over.
LEMMA CommandPays ==
    ASSUME NEW m, Core(m), NEW e \in QueryEvent, NEW x \in Command(m, e)
    PROVE  Pays(m, x, e.client)
<1>1. e.client \in Callers /\ e.mode \in Kinds /\ e.verb \in Verbs
  BY DEF QueryEvent
<1>2. ASSUME NEW y, Keeps(m, y), WellFormed(y), x = Reply(y, e.client)
      PROVE  Pays(m, x, e.client)
  BY <1>1, <1>2, ReplyPays, KeptThenPaid
<1>3. CASE e.verb \in {"acquire", "release", "enable", "recover"}
  <2>1. \E y \in Acquire(m, e.client) \cup Release(m, e.client)
                 \cup Enable(m, e.client, e.mode) \cup Recover(m) : x = Reply(y, e.client)
    BY <1>3 DEF Command
  <2>2. QED
    BY <1>1, <1>2, <2>1, VerbsKeep
<1>4. CASE e.verb = "stop"
  BY <1>2, <1>4, EndSessionKeeps, EndSessionEnds DEF Command, Ended, Core
<1>5. CASE e.verb = "home"
  BY <1>1, <1>5, HomePays DEF Command
<1>6. CASE e.verb = "gripper_home"
  BY <1>1, <1>6, GripperHomePays DEF Command
<1>7. CASE e.verb = "gripper_stop"
  <2> DEFINE y == [m EXCEPT !.hand = "none"]
  <2>1. Shape(y) /\ y.hand = "none" /\ \A f \in Fields \ {"hand"} : y[f] = m[f]
    BY DEF Core, WellFormed, Shape, Fields
  <2>2. Typed(y)
    BY <2>1 DEF Core, WellFormed, Typed, Fields
  <2>3. x = Reply(y, e.client)
    BY <1>7 DEF Command
  <2> HIDE DEF y
  <2>4. QED
    BY <1>2, <2>1, <2>2, <2>3, SameKeeps DEF WellFormed, Fields
<1>8. CASE e.verb = "params"
  BY <1>2, <1>8, SameKeeps DEF Command, Core
<1>9. QED
  BY <1>1, <1>3, <1>4, <1>5, <1>6, <1>7, <1>8 DEF Verbs

\* A target pays nobody.
LEMMA TargetKeeps ==
    ASSUME NEW m, Core(m), NEW t \in TargetEvent, NEW x \in Target(m, t)
    PROVE  Keeps(m, x)
<1>0. Shape(m)
  BY DEF Core, WellFormed
<1>1. CASE m.phase # "active" \/ ~FromCommander(m, t)
  BY <1>1, SameKeeps DEF Target
<1>2. CASE m.phase = "active" /\ FromCommander(m, t) /\ t.content = "refused"
  <2>1. x = [m EXCEPT !.targetAge = 0]
    BY <1>2 DEF Target
  <2>2. x.open = m.open /\ x.homing = m.homing /\ x.gripperHome = m.gripperHome
    BY <1>0, <2>1 DEF Shape, Fields
  <2>3. QED
    BY <2>2, SameKeeps
<1>3. CASE m.phase = "active" /\ FromCommander(m, t) /\ t.content # "refused"
  <2> DEFINE a == [m EXCEPT !.guard.seq = t.seq]
  <2>1. Shape(a) /\ \A f \in Fields \ {"guard"} : a[f] = m[f]
    BY <1>0 DEF Shape, Fields
  <2>2. a.guard = [m.guard EXCEPT !.seq = t.seq]
    BY <1>0 DEF Shape, Fields
  <2>3. x \in (IF m.loop = "running"
               THEN {[a EXCEPT !.goal = "commander", !.targetAge = 0, !.acceptAge = 0,
                               !.holding = FALSE]}
               ELSE Fault(a))
    BY <1>3 DEF Target
  <2> HIDE DEF a
  <2>4. t.seq \in 1..MaxSeq /\ m.guard \in Guards
    BY DEF TargetEvent, Core, WellFormed, Typed
  <2>5. a.guard \in Guards
    BY <2>2, <2>4, BoundsAssumption DEF Guards
  <2>6. Typed(a)
    BY <2>1, <2>5 DEF Core, WellFormed, Typed, Fields
  <2>7. Stoppable(a)
    BY <1>3, <2>1, <2>6 DEF Stoppable, WellFormed, Core, Agree, InSession, Fields
  <2>8. Keeps(m, a)
    BY <2>1, SameKeeps DEF Fields
  <2>9. Keeps(a, x)
    <3>1. CASE m.loop = "running"
      <4>1. x = [a EXCEPT !.goal = "commander", !.targetAge = 0, !.acceptAge = 0,
                          !.holding = FALSE]
        BY <2>3, <3>1
      <4>2. x.open = a.open /\ x.homing = a.homing /\ x.gripperHome = a.gripperHome
        BY <2>1, <4>1 DEF Shape, Fields
      <4>3. QED
        BY <4>2, SameKeeps
    <3>2. CASE m.loop # "running"
      BY <2>3, <2>7, <3>2, StopToKeeps DEF Fault
    <3>3. QED
      BY <3>1, <3>2
  <2>10. QED
    BY <2>8, <2>9 DEF Keeps
<1>4. QED
  BY <1>1, <1>2, <1>3

\* A gripper target pays nobody.
LEMMA GripperTargetKeeps ==
    ASSUME NEW m, Core(m), NEW g \in GripperEvent
    PROVE  Keeps(m, GripperTarget(m, g))
<1> DEFINE x == GripperTarget(m, g)
<1>1. x.open = m.open /\ x.homing = m.homing /\ x.gripperHome = m.gripperHome
  BY DEF GripperTarget, Core, WellFormed, Shape, Fields
<1>2. QED
  BY <1>1, SameKeeps

\* The watchdog and the tick pay nobody.
LEMMA TickKeeps ==
    ASSUME NEW m, Core(m), InSession(m), NEW x,
           x \in TickOf(m) \/ (m.phase = "active" /\ x \in Watchdog(m))
    PROVE  Keeps(m, x)
<1>0. Shape(m)
  BY DEF Core, WellFormed
<1>1. CASE m.phase = "active" /\ x \in Watchdog(m)
  <2>1. CASE StopDue(m)
    BY <1>1, <2>1, StopKeeps DEF Watchdog
  <2>2. CASE ~StopDue(m)
    <3>1. x.open = m.open /\ x.homing = m.homing /\ x.gripperHome = m.gripperHome
      BY <1>0, <1>1, <2>2 DEF Watchdog, Shape, Fields
    <3>2. QED
      BY <3>1, SameKeeps
  <2>3. QED
    BY <2>1, <2>2
<1>2. CASE m.loop # "running" /\ x \in Fault(m)
  BY <1>2, FaultKeeps
<1>3. CASE m.phase = "homing" /\ \E near, atRest \in BOOLEAN : x \in TickHoming(m, near, atRest)
  <2>1. PICK near \in BOOLEAN, atRest \in BOOLEAN : x \in TickHoming(m, near, atRest)
    BY <1>3
  <2> DEFINE within == IF near THEN m.homing.within + 1 ELSE 0
             h == [m.homing EXCEPT !.within = within]
  <2>2. \/ x \in FinishHome(m, TRUE) \/ x \in FinishHome(m, FALSE)
        \/ x = [m EXCEPT !.homing.within = within]
    BY <2>1 DEF TickHoming
  <2> HIDE DEF within
  <2>3. CASE x = [m EXCEPT !.homing.within = within]
    <3>1. x.open = m.open /\ x.homing = h /\ x.gripperHome = m.gripperHome
      BY <1>0, <2>3 DEF Shape, Fields
    <3>2. h.client = m.homing.client
      BY DEF Core, WellFormed, Typed, Homings
    <3>3. QED
      BY <3>1, <3>2, SameKeeps
  <2>4. QED
    BY <1>3, <2>2, <2>3, FinishHomeKeeps
<1>4. QED
  BY <1>1, <1>2, <1>3 DEF TickOf, InSession

-----------------------------------------------------------------------------
(* Every query has one place that it will be answered from. *)

QueriesOf(c) == {e \in QueryEvent : e.client = c}
Counted ==
    /\ \A c \in Callers : Owed(arm, c) = Count(queue, QueriesOf(c))
    /\ inflight = Count(queue, TargetEvent)

\* The counts of the properties are those of the proofs.
LEMMA CountedIsNothingLost ==
    ASSUME Inv
    PROVE  NothingIsLost <=> Counted
<1>1. \A i \in DOMAIN queue : queue[i] \in Event \cup {ShutdownEvent}
  BY DEF Inv, TypeOK
<1>2. \A c \in Callers : Queued(c) = Count(queue, QueriesOf(c))
  <2>1. SUFFICES ASSUME NEW c \in Callers
                 PROVE  {i \in DOMAIN queue : IsQuery(queue[i]) /\ queue[i].client = c}
                        = Where(queue, QueriesOf(c))
    BY DEF Queued, Count
  <2>2. \A e \in QueryEvent : e.type = "cmd"
    BY DEF QueryEvent
  <2>3. \A i \in DOMAIN queue : IsQuery(queue[i]) <=> queue[i] \in QueryEvent
    BY <1>1, <2>2, EventTypes DEF IsQuery
  <2>4. QED
    BY <2>3 DEF Where, QueriesOf
<1>3. {i \in DOMAIN queue : IsTarget(queue[i])} = Where(queue, TargetEvent)
  <2>1. \A e \in TargetEvent : e.type = "target"
    BY DEF TargetEvent
  <2>2. \A i \in DOMAIN queue : IsTarget(queue[i]) <=> queue[i] \in TargetEvent
    BY <1>1, <2>1, EventTypes DEF IsTarget
  <2>3. QED
    BY <2>2 DEF Where
<1>4. \A c \in Callers : arm.open[c] \in Int /\ Count(queue, QueriesOf(c)) \in Nat
  BY CountIsNat DEF Inv, TypeOK, Core, WellFormed, Typed
<1>5. QueriesAnsweredOnce <=> \A c \in Callers : Owed(arm, c) = Count(queue, QueriesOf(c))
  BY <1>2, <1>4 DEF QueriesAnsweredOnce, Owed, One
<1>6. BacklogIsExact <=> inflight = Count(queue, TargetEvent)
  BY <1>3 DEF BacklogIsExact, Count
<1>7. QED
  BY <1>5, <1>6 DEF NothingIsLost, Counted

\* Nothing is owed and nothing queued at the start.
LEMMA CountedInitially ==
    ASSUME Init
    PROVE  Counted
<1>1. \A S : Where(queue, S) = {}
  BY DEF Init, Where
<1>2. \A S : Count(queue, S) = 0
  BY <1>1, FS_EmptySet DEF Count
<1>3. \A c \in Callers : Owed(arm, c) = 0
  BY DEF Init, Owed, One, NoHoming
<1>4. inflight = 0
  BY DEF Init
<1>5. QED
  BY <1>2, <1>3, <1>4 DEF Counted

\* A step that leaves the channel alone and pays nobody.
LEMMA QuietCounted ==
    ASSUME Inv, Counted, Keeps(arm, arm'), queue' = queue, inflight' = inflight
    PROVE  Counted'
  BY DEF Counted, Keeps, Count, Where, Owed, One

\* A step that takes an event pays for what it takes.
LEMMA TakenCounted ==
    ASSUME Inv, Counted, queue # <<>>, queue' = Tail(queue),
           IsQuery(Head(queue)) => Pays(arm, arm', Head(queue).client),
           ~IsQuery(Head(queue)) => Keeps(arm, arm'),
           inflight' = inflight - One(IsTarget(Head(queue)))
    PROVE  Counted'
<1>1. Head(queue) \in Event \cup {ShutdownEvent} /\ queue \in Seq(Event \cup {ShutdownEvent})
  BY DEF Inv, TypeOK
<1>2. \A S : Count(queue, S) \in Nat
  BY <1>1, CountIsNat
<1>3. \A S : Count(Tail(queue), S) = Count(queue, S) - (IF Head(queue) \in S THEN 1 ELSE 0)
  BY <1>1, CountOfTail
<1>4. IsQuery(Head(queue)) <=> Head(queue) \in QueryEvent
  BY <1>1, EventTypes DEF IsQuery, QueryEvent
<1>5. IsTarget(Head(queue)) <=> Head(queue) \in TargetEvent
  BY <1>1, EventTypes DEF IsTarget, TargetEvent
<1>6. \A c \in Callers : Owed(arm, c) \in Int
  BY OwedIsInt DEF Inv, Core
<1>7. inflight' = Count(Tail(queue), TargetEvent)
  BY <1>2, <1>3, <1>5 DEF Counted, One
<1>8. ASSUME NEW c \in Callers
      PROVE  Owed(arm', c) = Count(Tail(queue), QueriesOf(c))
  <2>1. Head(queue) \in QueriesOf(c) <=> IsQuery(Head(queue)) /\ Head(queue).client = c
    BY <1>4 DEF QueriesOf
  <2>2. Count(Tail(queue), QueriesOf(c))
        = Owed(arm, c) - One(IsQuery(Head(queue)) /\ Head(queue).client = c)
    BY <1>3, <2>1 DEF Counted, One
  <2>3. Owed(arm', c) = Owed(arm, c) - One(IsQuery(Head(queue)) /\ Head(queue).client = c)
    BY <1>6 DEF Pays, Keeps, One
  <2>4. QED
    BY <2>2, <2>3
<1>9. QED
  BY <1>7, <1>8 DEF Counted, Owed, One

\* The steps that take an event.
LEMMA TakesCounted ==
    ASSUME Inv, Counted, TakeTarget \/ TakeWidth \/ TakeGrasp \/ TakeQuery \/ TakeLease
                         \/ TakeShutdown \/ Drain
    PROVE  Counted'
<1>0. Core(arm) /\ inflight \in Int /\ (newestWidth # NoTarget => newestWidth \in GripperEvent)
  BY DEF Inv, TypeOK
<1>1. queue # <<>> /\ queue' = Tail(queue)
  BY DEF TakeTarget, TakeWidth, TakeGrasp, TakeQuery, TakeLease, TakeShutdown, Drain, Take
<1>2. Head(queue) \in Event \cup {ShutdownEvent}
  BY <1>1 DEF Inv, TypeOK
<1>3. CASE TakeTarget
  <2>1. arm' = arm /\ inflight' = inflight - 1 /\ IsTarget(Head(queue))
    BY <1>3 DEF TakeTarget
  <2>2. ~IsQuery(Head(queue))
    BY <2>1 DEF IsTarget, IsQuery
  <2>3. QED
    BY <1>1, <2>1, <2>2, SameKeeps, TakenCounted DEF One
<1>4. CASE TakeWidth
  <2>1. arm' = arm /\ inflight' = inflight /\ ~IsTarget(Head(queue)) /\ ~IsQuery(Head(queue))
    BY <1>4 DEF TakeWidth, IsTarget, IsQuery
  <2>2. QED
    BY <1>0, <1>1, <2>1, SameKeeps, TakenCounted DEF One
<1>5. CASE TakeGrasp
  <2> DEFINE flushed == IF newestWidth = NoTarget THEN arm ELSE GripperTarget(arm, newestWidth)
  <2>1. Keeps(arm, flushed) /\ Core(flushed)
    BY <1>0, GripperTargetKeeps, GripperTargetSound, SameKeeps
  <2>2. /\ arm' = GripperTarget(flushed, Head(queue)) /\ inflight' = inflight
        /\ ~IsTarget(Head(queue)) /\ ~IsQuery(Head(queue)) /\ Head(queue).type = "grasp"
    BY <1>5 DEF TakeGrasp, IsTarget, IsQuery
  <2> HIDE DEF flushed
  <2>3. Keeps(flushed, arm')
    BY <1>2, <2>1, <2>2, EventTypes, GripperTargetKeeps
  <2>4. Keeps(arm, arm')
    BY <2>1, <2>3 DEF Keeps
  <2>5. QED
    BY <1>0, <1>1, <2>2, <2>4, TakenCounted DEF One
<1>6. CASE TakeQuery
  <2>1. arm' \in Command(arm, Head(queue)) /\ inflight' = inflight /\ IsQuery(Head(queue))
    BY <1>6 DEF TakeQuery
  <2>2. ~IsTarget(Head(queue)) /\ Head(queue) \in QueryEvent
    BY <1>2, <2>1, EventTypes DEF IsTarget, IsQuery
  <2>3. Pays(arm, arm', Head(queue).client)
    BY <1>0, <2>1, <2>2, CommandPays
  <2>4. QED
    BY <1>0, <1>1, <2>1, <2>2, <2>3, TakenCounted DEF One
<1>7. CASE TakeLease
  <2>1. /\ inflight' = inflight /\ ~IsTarget(Head(queue)) /\ ~IsQuery(Head(queue))
        /\ Head(queue).type \in {"alive", "lost"}
        /\ \/ arm' \in LeaseAlive(arm, Head(queue).client)
           \/ arm' \in LeaseLost(arm, Head(queue).client)
    BY <1>7 DEF TakeLease, IsTarget, IsQuery
  <2>2. Head(queue).client \in Clients
    BY <1>2, <2>1, EventTypes DEF LeaseEvent
  <2>3. CASE arm' \in LeaseAlive(arm, Head(queue).client)
    <3>1. arm'.open = arm.open /\ arm'.homing = arm.homing /\ arm'.gripperHome = arm.gripperHome
      BY <1>0, <2>3 DEF LeaseAlive, Core, WellFormed, Shape, Fields
    <3>2. QED
      BY <1>0, <1>1, <2>1, <3>1, SameKeeps, TakenCounted DEF One
  <2>4. CASE arm' \in LeaseLost(arm, Head(queue).client)
    BY <1>0, <1>1, <2>1, <2>2, <2>4, LeaseLostKeeps, TakenCounted DEF One
  <2>5. QED
    BY <2>1, <2>3, <2>4
<1>8. CASE TakeShutdown
  <2>1. /\ arm' \in EndSession(arm) /\ inflight' = inflight
        /\ ~IsTarget(Head(queue)) /\ ~IsQuery(Head(queue))
    BY <1>8 DEF TakeShutdown, IsTarget, IsQuery, ShutdownEvent
  <2>2. QED
    BY <1>0, <1>1, <2>1, EndSessionKeeps, TakenCounted DEF One
<1>9. CASE Drain
  <2>1. /\ arm' = IF IsQuery(Head(queue)) THEN Reply(arm, Head(queue).client) ELSE arm
        /\ inflight' = IF IsTarget(Head(queue)) THEN inflight - 1 ELSE inflight
    BY <1>9 DEF Drain
  <2>2. IsQuery(Head(queue)) => Head(queue).client \in Callers
    BY <1>2, EventTypes DEF IsQuery, QueryEvent
  <2>3. IsQuery(Head(queue)) => Pays(arm, arm', Head(queue).client)
    BY <1>0, <2>1, <2>2, ReplyPays DEF Core
  <2>4. ~IsQuery(Head(queue)) => Keeps(arm, arm')
    BY <2>1, SameKeeps
  <2>5. inflight' = inflight - One(IsTarget(Head(queue)))
    BY <1>0, <2>1 DEF One
  <2>6. QED
    BY <1>1, <2>3, <2>4, <2>5, TakenCounted
<1>10. QED
  BY <1>3, <1>4, <1>5, <1>6, <1>7, <1>8, <1>9

\* The steps that leave the channel alone.
LEMMA QuietSteps ==
    ASSUME Inv, Counted, Tick \/ WatchdogFires \/ EndBatch \/ Finish \/ LoopEnds \/ GripperHomed
                         \/ TimePasses
    PROVE  Counted'
<1>0. /\ Core(arm) /\ Shape(arm)
      /\ newestWidth # NoTarget => newestWidth \in GripperEvent
      /\ newest # NoTarget => newest \in TargetEvent
  BY DEF Inv, TypeOK, Core, WellFormed
<1>1. queue' = queue /\ inflight' = inflight
  BY DEF Tick, WatchdogFires, EndBatch, Finish, LoopEnds, GripperHomed, TimePasses
<1>2. CASE Tick
  <2>1. arm' \in TickOf(arm)
    BY <1>2 DEF Tick
  <2>2. CASE InSession(arm)
    BY <1>0, <1>1, <2>1, <2>2, TickKeeps, QuietCounted
  <2>3. CASE ~InSession(arm)
    BY <1>1, <2>1, <2>3, SameKeeps, QuietCounted DEF TickOf
  <2>4. QED
    BY <2>2, <2>3
<1>3. CASE WatchdogFires
  BY <1>0, <1>1, <1>3, TickKeeps, QuietCounted DEF WatchdogFires, WatchdogDue, InSession
<1>4. CASE EndBatch
  <2> DEFINE moved == IF newestWidth = NoTarget THEN arm ELSE GripperTarget(arm, newestWidth)
  <2>1. Keeps(arm, moved) /\ Core(moved)
    BY <1>0, GripperTargetKeeps, GripperTargetSound, SameKeeps
  <2>2. arm' \in (IF newest = NoTarget THEN {moved} ELSE Target(moved, newest))
    BY <1>4 DEF EndBatch
  <2> HIDE DEF moved
  <2>3. Keeps(moved, arm')
    BY <1>0, <2>1, <2>2, TargetKeeps, SameKeeps
  <2>4. Keeps(arm, arm')
    BY <2>1, <2>3 DEF Keeps
  <2>5. QED
    BY <1>1, <2>4, QuietCounted
<1>5. CASE Finish
  <2>1. arm' = arm
    BY <1>5 DEF Finish
  <2>2. QED
    BY <1>1, <2>1, SameKeeps, QuietCounted
<1>6. CASE LoopEnds
  <2>1. arm'.open = arm.open /\ arm'.homing = arm.homing /\ arm'.gripperHome = arm.gripperHome
    BY <1>0, <1>6 DEF LoopEnds, Shape, Fields
  <2>2. QED
    BY <1>1, <2>1, SameKeeps, QuietCounted
<1>7. CASE GripperHomed
  <2> DEFINE g == arm.gripperHome
             told == Reply(arm, g)
  <2>1. g \in Callers /\ g # NoClient
    BY <1>0, <1>7 DEF Core, WellFormed, Typed, GripperHomed
  <2>2. Pays(arm, told, g) /\ Core(told) /\ \A f \in Fields \ {"open"} : told[f] = arm[f]
    BY <1>0, <2>1, ReplyPays, AnsweredCore DEF Core
  <2>3. arm' = [told EXCEPT !.gripperHome = NoClient]
    BY <1>7 DEF GripperHomed
  <2> HIDE DEF told
  <2>4. told.gripperHome = g
    BY <2>2 DEF Fields
  <2>5. arm'.open = told.open /\ arm'.homing = told.homing /\ arm'.gripperHome = NoClient
    BY <2>2, <2>3 DEF Core, WellFormed, Shape, Fields
  <2>6. \A c \in Callers : told.open[c] \in Int
    BY <2>2 DEF Core, WellFormed, Typed
  <2>7. \A c \in Callers : Owed(arm', c) = Owed(told, c) + One(c = g)
    BY <2>1, <2>4, <2>5, <2>6 DEF Owed, One
  <2>8. \A c \in Callers : Owed(arm, c) \in Int
    BY <1>0, OwedIsInt DEF Core
  <2> HIDE DEF g
  <2>9. Keeps(arm, arm')
    BY <2>2, <2>7, <2>8 DEF Pays, Keeps, One
  <2>10. QED
    BY <1>1, <2>9, QuietCounted
<1>8. CASE TimePasses
  <2>1. arm'.open = arm.open /\ arm'.gripperHome = arm.gripperHome
    BY <1>0, <1>8 DEF TimePasses, Shape, Fields
  <2>2. arm'.homing.client = arm.homing.client
    <3>1. CASE arm.phase = "active"
      BY <1>0, <1>8, <3>1 DEF TimePasses, Shape, Fields
    <3>2. CASE arm.phase # "active"
      <4> DEFINE age == IF arm.homing.age < HomeTimeout THEN arm.homing.age + 1 ELSE HomeTimeout
      <4>1. arm' = [arm EXCEPT !.homing.age = age]
        BY <1>8, <3>2 DEF TimePasses
      <4> HIDE DEF age
      <4>2. arm'.homing = [arm.homing EXCEPT !.age = age]
        BY <1>0, <4>1 DEF Shape, Fields
      <4>3. QED
        BY <1>0, <4>2 DEF Core, WellFormed, Typed, Homings
    <3>3. QED
      BY <3>1, <3>2
  <2>3. QED
    BY <1>1, <2>1, <2>2, SameKeeps, QuietCounted
<1>9. QED
  BY <1>2, <1>3, <1>4, <1>5, <1>6, <1>7, <1>8

\* The senders' steps open one query or one place of the backlog, if any.
LEMMA SendsCounted ==
    ASSUME Inv, Counted, Shutdown \/ \E e \in Alphabet : Send(e)
    PROVE  Counted'
<1>1. queue \in Seq(Event \cup {ShutdownEvent}) /\ inflight \in Int /\ Core(arm) /\ Shape(arm)
  BY DEF Inv, TypeOK, Core, WellFormed
<1>2. \A S : Count(queue, S) \in Nat
  BY <1>1, CountIsNat
<1>3. CASE Shutdown
  <2>1. arm' = arm /\ inflight' = inflight /\ queue' = Append(queue, ShutdownEvent)
    BY <1>3 DEF Shutdown
  <2>2. \A S : Count(queue', S) = Count(queue, S) + (IF ShutdownEvent \in S THEN 1 ELSE 0)
    BY <1>1, <2>1, CountOfAppend
  <2>3. ShutdownEvent \notin TargetEvent /\ \A c : ShutdownEvent \notin QueriesOf(c)
    BY DEF ShutdownEvent, TargetEvent, QueryEvent, QueriesOf
  <2>4. \A c \in Callers : Owed(arm', c) = Owed(arm, c)
    BY <2>1 DEF Owed, One
  <2>5. QED
    BY <1>2, <2>1, <2>2, <2>3, <2>4 DEF Counted, Owed, One
<1>4. CASE \E e \in Alphabet : Send(e)
  <2>1. PICK e \in Alphabet : Send(e)
    BY <1>4
  <2>2. e \in Event
    BY AlphabetAssumption
  <2>3. /\ queue' = Append(queue, e)
        /\ inflight' = IF IsTarget(e) THEN inflight + 1 ELSE inflight
        /\ arm' = IF IsQuery(e) THEN [arm EXCEPT !.open[e.client] = @ + 1] ELSE arm
    BY <2>1 DEF Send
  <2>4. \A S : Count(queue', S) = Count(queue, S) + (IF e \in S THEN 1 ELSE 0)
    BY <1>1, <2>2, <2>3, CountOfAppend
  <2>5. IsTarget(e) <=> e \in TargetEvent
    BY <2>2, EventTypes DEF IsTarget, TargetEvent
  <2>6. IsQuery(e) <=> e \in QueryEvent
    BY <2>2, EventTypes DEF IsQuery, QueryEvent
  <2>7. inflight' = Count(queue', TargetEvent)
    BY <1>1, <1>2, <2>3, <2>4, <2>5 DEF Counted
  <2>8. \A c \in Callers : arm.open[c] \in Int
    BY <1>1 DEF Core, WellFormed, Typed
  <2>9. /\ arm'.homing = arm.homing /\ arm'.gripperHome = arm.gripperHome
        /\ \A c \in Callers : arm'.open[c] = arm.open[c] + One(IsQuery(e) /\ e.client = c)
    <3>1. CASE IsQuery(e)
      BY <1>1, <2>3, <2>8, <3>1 DEF Shape, Fields, One, Core, WellFormed, Typed
    <3>2. CASE ~IsQuery(e)
      BY <2>3, <2>8, <3>2 DEF One
    <3>3. QED
      BY <3>1, <3>2
  <2>10. \A c \in Callers : Owed(arm', c) = Owed(arm, c) + One(IsQuery(e) /\ e.client = c)
    BY <2>8, <2>9 DEF Owed, One
  <2>11. \A c : e \in QueriesOf(c) <=> IsQuery(e) /\ e.client = c
    BY <2>6 DEF QueriesOf
  <2>12. \A c \in Callers : Owed(arm', c) = Count(queue', QueriesOf(c))
    BY <1>2, <2>4, <2>10, <2>11 DEF Counted, One
  <2>13. QED
    BY <2>7, <2>12 DEF Counted, Owed, One
<1>5. QED
  BY <1>3, <1>4

\* The counts hold after every step.
LEMMA CountedStep == Inv /\ Counted /\ [Next]_vars => Counted'
<1> SUFFICES ASSUME Inv, Counted, [Next]_vars PROVE Counted'
  OBVIOUS
<1>1. CASE Next
  BY <1>1, TakesCounted, QuietSteps, SendsCounted DEF Next, ArmThread, Environment
<1>2. CASE UNCHANGED vars
  <2>1. arm' = arm /\ queue' = queue /\ inflight' = inflight
    BY <1>2 DEF vars
  <2>2. QED
    BY <2>1, SameKeeps, QuietCounted
<1>3. QED
  BY <1>1, <1>2

(* Nothing that was sent is lost or counted twice, for any clients, events and bounds: a query
   is in the channel, with the home it started or with the gripper's thread, until it is
   answered, once (every handler of commands.rs, after_loop, finish_home, the drain); the
   backlog counts the targets in the channel (Backlog::reserve and release). *)
THEOREM NothingLost == Spec => []NothingIsLost
<1>1. Init => Counted
  BY CountedInitially
<1>2. Spec => [](Inv /\ Counted)
  BY <1>1, Initially, Inductive, CountedStep, PTL DEF Spec
<1>3. Inv /\ Counted => NothingIsLost
  BY CountedIsNothingLost
<1>4. QED
  BY <1>2, <1>3, PTL

-----------------------------------------------------------------------------
(* A session's command socket. *)

Sizes == {0} \cup {HeaderLen + n : n \in BodyLens}
LinkBytes == [of : LinkIds, at : Nat, size : Sizes]

\* A message with a size that is none is its header.
LengthOf(size) == IF size = 0 THEN HeaderLen ELSE size

\* Around each byte of a stream is the whole of its message.
WellCut(s) ==
    \A i \in 1..Len(s) :
      /\ s[i].at \in 1..LengthOf(s[i].size) /\ s[i].at <= i
      /\ i - s[i].at + LengthOf(s[i].size) <= Len(s)
      /\ \A j \in 1..LengthOf(s[i].size) :
           s[i - s[i].at + j] = [of |-> s[i].of, at |-> j, size |-> s[i].size]

\* What is pending is a part of one message.
Unfinished(s) == s # <<>> => Len(s) < LengthOf(s[1].size)

IsReply(id, bytes) == id \in LinkIds /\ \E n \in BodyLens : bytes = Whole(id, HeaderLen + n)

LinkType ==
    /\ linked \in {"none", "handshake", "open", "failed"} /\ conn \in {"up", "closed", "shut"}
    /\ nextId \in 0..MaxRequests /\ DOMAIN asked = {"ids", "broken"} /\ asked.ids \subseteq LinkIds
    /\ DOMAIN demux = {"received", "pending"}
    /\ demux.pending \in Seq(LinkBytes) /\ wire \in Seq(LinkBytes)
    /\ DOMAIN doing = Threads
    /\ \A t \in Threads : /\ DOMAIN doing[t] = {"call", "id", "got", "state"}
                          /\ doing[t].call \in {"nothing", "reply", "drain", "state"}
    /\ DOMAIN arrived = {"now", "before"} /\ arrived.now \in Nat /\ DOMAIN arrived.before = Threads
    /\ \A t \in Threads : arrived.before[t] \in 0..arrived.now

StreamIsCut == WellCut(demux.pending \o wire) /\ Unfinished(demux.pending)

RepliesAreWhole ==
    /\ \A id \in DOMAIN demux.received : IsReply(id, demux.received[id])
    /\ \A t \in Threads : /\ doing[t].got # <<>> => IsReply(doing[t].got[1].of, doing[t].got)
                          /\ doing[t].call # "nothing" => doing[t].got = <<>>

States == [n : Nat, whole : BOOLEAN]

\* What a reader of the gripper may still be handed arrived after its call.
StatesAreNew ==
    /\ datagrams \in Seq(States)
    /\ \A i \in 1..Len(datagrams) : datagrams[i].n <= arrived.now
    /\ \A t \in Threads :
         layout = "gripper" =>
           /\ doing[t].call = "state" =>
                \A i \in 1..Len(datagrams) : datagrams[i].n > arrived.before[t]
           /\ doing[t].state > 0 => doing[t].state > arrived.before[t]

LinkInv == LinkType /\ StreamIsCut /\ RepliesAreWhole /\ StatesAreNew

-----------------------------------------------------------------------------
(* Streams of messages. *)

\* Lengths of messages are at least a header's, and a whole one is a sequence of bytes.
LEMMA MessageBytes ==
    /\ \A size \in Sizes : LengthOf(size) \in Nat /\ LengthOf(size) >= HeaderLen /\ LengthOf(size) >= 1
    /\ \A n \in BodyLens : HeaderLen + n \in Sizes /\ LengthOf(HeaderLen + n) = HeaderLen + n
    /\ 0 \in Sizes /\ LengthOf(0) = HeaderLen
    /\ Sizes \subseteq Nat
<1>1. HeaderLen \in Nat /\ HeaderLen >= 1 /\ BodyLens \subseteq Nat
  BY LinkAssumption
<1> QED
  BY <1>1 DEF Sizes, LengthOf

\* A message put behind a stream leaves it well cut.
LEMMA CutAnswered ==
    ASSUME NEW s \in Seq(LinkBytes), WellCut(s), NEW id \in LinkIds, NEW size \in Sizes
    PROVE  LET m == [i \in 1..LengthOf(size) |-> [of |-> id, at |-> i, size |-> size]]
           IN  m \in Seq(LinkBytes) /\ s \o m \in Seq(LinkBytes) /\ WellCut(s \o m)
<1> DEFINE l == LengthOf(size)
           m == [i \in 1..l |-> [of |-> id, at |-> i, size |-> size]]
           r == s \o m
<1>1. l \in Nat /\ l >= 1
  BY MessageBytes
<1>2. m \in Seq(LinkBytes) /\ Len(m) = l
  <2>1. \A i \in 1..l : [of |-> id, at |-> i, size |-> size] \in LinkBytes
    BY <1>1 DEF LinkBytes
  <2> QED
    BY <1>1, <2>1
<1>3. \A i \in 1..l : m[i] = [of |-> id, at |-> i, size |-> size]
  OBVIOUS
<1> HIDE DEF m, l
<1>4. r \in Seq(LinkBytes) /\ Len(r) = Len(s) + l /\ Len(s) \in Nat
  BY <1>1, <1>2
<1>5. \A i \in 1..Len(s) : r[i] = s[i]
  BY <1>2
<1>6. \A i \in 1..l : r[Len(s) + i] = m[i]
  BY <1>1, <1>2
<1> HIDE DEF r
<1>7. ASSUME NEW i \in 1..Len(r)
      PROVE  /\ r[i].at \in 1..LengthOf(r[i].size) /\ r[i].at <= i
             /\ i - r[i].at + LengthOf(r[i].size) <= Len(r)
             /\ \A j \in 1..LengthOf(r[i].size) :
                  r[i - r[i].at + j] = [of |-> r[i].of, at |-> j, size |-> r[i].size]
  <2>1. CASE i \in 1..Len(s)
    <3> DEFINE b == s[i]
               k == LengthOf(b.size)
    <3>a. b \in LinkBytes
      BY <2>1
    <3>0. b.size \in Sizes
      BY <3>a DEF LinkBytes
    <3>1. k \in Nat /\ k >= 1
      BY <3>0, MessageBytes
    <3>2. /\ b.at \in 1..k /\ b.at <= i /\ i - b.at + k <= Len(s)
          /\ \A j \in 1..k : s[i - b.at + j] = [of |-> b.of, at |-> j, size |-> b.size]
      BY <2>1 DEF WellCut
    <3>3. r[i] = b
      BY <1>5, <2>1
    <3> HIDE DEF b, k
    <3>4. \A j \in 1..k : i - b.at + j \in 1..Len(s)
      BY <1>4, <3>1, <3>2
    <3>5. i - b.at + k <= Len(r)
      BY <1>1, <1>4, <3>1, <3>2
    <3>6. \A j \in 1..k : r[i - b.at + j] = [of |-> b.of, at |-> j, size |-> b.size]
      BY <1>5, <3>2, <3>4
    <3> QED
      BY <3>2, <3>3, <3>5, <3>6 DEF k
  <2>2. CASE i \notin 1..Len(s)
    <3>1. PICK x \in 1..l : i = Len(s) + x
      <4>1. i - Len(s) \in 1..l /\ i = Len(s) + (i - Len(s))
        BY <1>1, <1>4, <2>2
      <4> QED
        BY <4>1
    <3>2. r[i] = [of |-> id, at |-> x, size |-> size]
      BY <1>3, <1>6, <3>1
    <3>3. r[i].at = x /\ r[i].of = id /\ r[i].size = size
      BY <3>2
    <3>4. \A j \in 1..l : i - x + j = Len(s) + j
      BY <1>1, <1>4, <3>1
    <3>5. i - x + l <= Len(r) /\ x <= i
      BY <1>1, <1>4, <3>1
    <3>6. \A j \in 1..l : r[i - x + j] = [of |-> id, at |-> j, size |-> size]
      BY <1>3, <1>6, <3>4
    <3> QED
      BY <3>3, <3>5, <3>6 DEF l
  <2> QED
    BY <2>1, <2>2
<1>8. WellCut(r)
  BY <1>7 DEF WellCut
<1> QED
  BY <1>2, <1>4, <1>8 DEF m, l, r

\* The first message of a stream is there as a whole, and behind it the stream is well cut again.
LEMMA CutFirst ==
    ASSUME NEW s \in Seq(LinkBytes), WellCut(s), s # <<>>
    PROVE  LET l == LengthOf(s[1].size)
           IN  /\ s[1] \in LinkBytes /\ l \in Nat /\ HeaderLen <= l /\ l <= Len(s)
               /\ \A j \in 1..l : s[j] = [of |-> s[1].of, at |-> j, size |-> s[1].size]
               /\ SubSeq(s, l + 1, Len(s)) \in Seq(LinkBytes)
               /\ WellCut(SubSeq(s, l + 1, Len(s)))
<1> DEFINE b == s[1]
           l == LengthOf(b.size)
           r == SubSeq(s, l + 1, Len(s))
<1>1. b \in LinkBytes /\ 1 \in 1..Len(s) /\ Len(s) \in Nat
  OBVIOUS
<1>2. l \in Nat /\ l >= 1 /\ HeaderLen <= l /\ HeaderLen \in Nat
  BY <1>1, MessageBytes, LinkAssumption DEF LinkBytes
<1>3. /\ b.at \in 1..l /\ b.at <= 1 /\ 1 - b.at + l <= Len(s)
      /\ \A j \in 1..l : s[1 - b.at + j] = [of |-> b.of, at |-> j, size |-> b.size]
  BY <1>1 DEF WellCut
<1>4. b.at = 1 /\ l <= Len(s)
  BY <1>1, <1>2, <1>3
<1>5. \A j \in 1..l : s[j] = [of |-> b.of, at |-> j, size |-> b.size]
  BY <1>2, <1>3, <1>4
<1>6. r \in Seq(LinkBytes) /\ Len(r) = Len(s) - l /\ \A i \in 1..Len(r) : r[i] = s[l + i]
  BY <1>1, <1>2, <1>4, SMTT(60)
<1> HIDE DEF r, l
<1>7. ASSUME NEW i \in 1..Len(r)
      PROVE  /\ r[i].at \in 1..LengthOf(r[i].size) /\ r[i].at <= i
             /\ i - r[i].at + LengthOf(r[i].size) <= Len(r)
             /\ \A j \in 1..LengthOf(r[i].size) :
                  r[i - r[i].at + j] = [of |-> r[i].of, at |-> j, size |-> r[i].size]
  <2> DEFINE c == s[l + i]
             k == LengthOf(c.size)
  <2>1. l + i \in 1..Len(s) /\ r[i] = c
    BY <1>1, <1>2, <1>6
  <2>a. c \in LinkBytes
    BY <2>1
  <2>0. c.size \in Sizes
    BY <2>a DEF LinkBytes
  <2>2. k \in Nat /\ k >= 1
    BY <2>0, MessageBytes
  <2>3. /\ c.at \in 1..k /\ c.at <= l + i /\ (l + i) - c.at + k <= Len(s)
        /\ \A j \in 1..k : s[(l + i) - c.at + j] = [of |-> c.of, at |-> j, size |-> c.size]
    BY <2>1 DEF WellCut
  <2>4. c.at <= i
    <3> SUFFICES ASSUME c.at > i PROVE FALSE
      BY <1>6, <2>2, <2>3
    <3> DEFINE x == (l + i) - c.at + 1
    <3> HIDE DEF k
    <3>1. x \in 1..l
      BY <1>2, <1>6, <2>2, <2>3
    <3>2. s[x] = [of |-> c.of, at |-> 1, size |-> c.size]
      BY <2>2, <2>3
    <3>3. s[x] = [of |-> b.of, at |-> x, size |-> b.size]
      BY <1>5, <3>1
    <3>4. x = 1 /\ c.size = b.size
      BY <3>2, <3>3
    <3>5. k = l
      BY <3>4 DEF k, l
    <3> QED
      BY <1>2, <1>6, <2>2, <2>3, <3>1, <3>4, <3>5
  <2> HIDE DEF c, k
  <2>5. \A j \in 1..k : i - c.at + j \in 1..Len(r) /\ l + (i - c.at + j) = (l + i) - c.at + j
    BY <1>1, <1>2, <1>6, <2>2, <2>3, <2>4
  <2>6. \A j \in 1..k : r[i - c.at + j] = [of |-> c.of, at |-> j, size |-> c.size]
    BY <1>6, <2>3, <2>5
  <2>7. i - c.at + k <= Len(r)
    BY <1>1, <1>2, <1>6, <2>2, <2>3
  <2> QED
    BY <2>1, <2>3, <2>4, <2>6, <2>7 DEF k
<1>8. WellCut(r)
  BY <1>7 DEF WellCut
<1> QED
  BY <1>1, <1>2, <1>4, <1>5, <1>6, <1>8 DEF r, l

\* Two streams put together.
LEMMA Together ==
    ASSUME NEW q \in Seq(LinkBytes), NEW c \in Seq(LinkBytes)
    PROVE  /\ (q \o c) \in Seq(LinkBytes) /\ Len(q \o c) = Len(q) + Len(c)
           /\ (\A i \in 1..Len(q) : (q \o c)[i] = q[i])
           /\ \A i \in 1..Len(c) : (q \o c)[Len(q) + i] = c[i]
  OBVIOUS

\* What is left of a stream.
LEMMA RestOfStream ==
    ASSUME NEW s \in Seq(LinkBytes), NEW l \in Nat, l <= Len(s)
    PROVE  /\ SubSeq(s, l + 1, Len(s)) \in Seq(LinkBytes) /\ Len(SubSeq(s, l + 1, Len(s))) = Len(s) - l
           /\ \A i \in 1..Len(SubSeq(s, l + 1, Len(s))) : SubSeq(s, l + 1, Len(s))[i] = s[l + i]
  OBVIOUS

\* Streams of the same bytes are the same.
LEMMA SameStream ==
    ASSUME NEW q \in Seq(LinkBytes), NEW r \in Seq(LinkBytes), Len(q) = Len(r),
           \A i \in 1..Len(q) : q[i] = r[i]
    PROVE  q = r
  OBVIOUS

\* Bytes that are read move from the wire to the message, and the stream is the same.
LEMMA ReadsKeepStream ==
    ASSUME NEW p \in Seq(LinkBytes), NEW w \in Seq(LinkBytes), NEW n \in 1..Len(w)
    PROVE  /\ p \o SubSeq(w, 1, n) \in Seq(LinkBytes) /\ SubSeq(w, n + 1, Len(w)) \in Seq(LinkBytes)
           /\ Len(p \o SubSeq(w, 1, n)) = Len(p) + n
           /\ (p \o SubSeq(w, 1, n)) \o SubSeq(w, n + 1, Len(w)) = p \o w
<1> DEFINE a == SubSeq(w, 1, n)
           c == SubSeq(w, n + 1, Len(w))
<1>1. a \in Seq(LinkBytes) /\ Len(a) = n /\ \A i \in 1..n : a[i] = w[i]
  OBVIOUS
<1>2. c \in Seq(LinkBytes) /\ Len(c) = Len(w) - n /\ \A i \in 1..Len(c) : c[i] = w[n + i]
  OBVIOUS
<1> HIDE DEF a, c
<1> DEFINE q == p \o a
<1>3. q \in Seq(LinkBytes) /\ Len(q) = Len(p) + n /\ (\A i \in 1..Len(p) : q[i] = p[i])
        /\ \A i \in 1..n : q[Len(p) + i] = a[i]
  BY <1>1
<1> HIDE DEF q
<1>4. /\ (q \o c) \in Seq(LinkBytes) /\ Len(q \o c) = Len(q) + Len(c)
      /\ (\A i \in 1..Len(q) : (q \o c)[i] = q[i])
      /\ \A i \in 1..Len(c) : (q \o c)[Len(q) + i] = c[i]
  BY ONLY <1>2, <1>3, Together
<1>5. /\ (p \o w) \in Seq(LinkBytes) /\ Len(p \o w) = Len(p) + Len(w)
      /\ (\A i \in 1..Len(p) : (p \o w)[i] = p[i])
      /\ \A i \in 1..Len(w) : (p \o w)[Len(p) + i] = w[i]
  OBVIOUS
<1> DEFINE f == q \o c
           g == p \o w
           lp == Len(p)
           lw == Len(w)
<1>6. lp \in Nat /\ lw \in Nat /\ n \in 1..lw
  OBVIOUS
<1>7. f \in Seq(LinkBytes) /\ Len(f) = (lp + n) + (lw - n)
  BY <1>2, <1>3, <1>4
<1>8. g \in Seq(LinkBytes) /\ Len(g) = lp + lw
  BY <1>5
<1>9. /\ \A i \in 1..lp : f[i] = p[i] /\ g[i] = p[i]
      /\ \A i \in 1..n : f[lp + i] = w[i] /\ g[lp + i] = w[i]
      /\ \A i \in 1..(lw - n) : f[(lp + n) + i] = w[n + i] /\ g[lp + (n + i)] = w[n + i]
  <2>1. \A i \in 1..lp : f[i] = p[i] /\ g[i] = p[i]
    BY <1>3, <1>4, <1>5
  <2>2. \A i \in 1..n : f[lp + i] = w[i] /\ g[lp + i] = w[i]
    BY <1>1, <1>3, <1>4, <1>5
  <2>3. \A i \in 1..(lw - n) : f[(lp + n) + i] = w[n + i]
    BY <1>2, <1>3, <1>4
  <2>4. \A i \in 1..(lw - n) : n + i \in 1..lw
    BY <1>6
  <2>5. \A i \in 1..(lw - n) : g[lp + (n + i)] = w[n + i]
    BY <1>5, <2>4
  <2> QED
    BY <2>1, <2>2, <2>3, <2>5
<1> HIDE DEF f, g, lp, lw
<1>10. Len(f) = lp + lw
  BY <1>6, <1>7
<1>11. ASSUME NEW i \in 1..(lp + lw) PROVE f[i] = g[i]
  <2>1. CASE i <= lp
    BY <1>6, <1>9, <2>1
  <2>2. CASE i > lp /\ i <= lp + n
    <3>1. i - lp \in 1..n /\ i = lp + (i - lp)
      BY <1>6, <2>2
    <3> QED
      BY <1>9, <3>1
  <2>3. CASE i > lp + n
    <3>1. i - (lp + n) \in 1..(lw - n) /\ i = (lp + n) + (i - (lp + n))
            /\ i = lp + (n + (i - (lp + n)))
      BY <1>6, <2>3
    <3> QED
      BY <1>9, <3>1
  <2> QED
    BY <1>6, <2>1, <2>2, <2>3
<1>12. f = g
  BY <1>7, <1>8, <1>10, <1>11
<1> QED
  BY <1>1, <1>2, <1>3, <1>12 DEF a, c, q, f, g

\* An empty rest before a stream, and after one.
LEMMA NothingBefore ==
    ASSUME NEW w \in Seq(LinkBytes)
    PROVE  <<>> \o w = w /\ <<>> \in Seq(LinkBytes) /\ Unfinished(<<>>)
  BY DEF Unfinished

\* A read of at most the bytes that are missing ends the message, or leaves it unfinished.
LEMMA ReadCuts ==
    ASSUME NEW p \in Seq(LinkBytes), NEW w \in Seq(LinkBytes), WellCut(p \o w), Unfinished(p),
           NEW n \in 1..Len(w), n <= Missing(p)
    PROVE  LET bytes == p \o SubSeq(w, 1, n)
               rest == SubSeq(w, n + 1, Len(w))
               ended == Len(bytes) >= HeaderLen /\ Len(bytes) = Announced(bytes)
           IN  /\ bytes \in Seq(LinkBytes) /\ rest \in Seq(LinkBytes)
               /\ BadSize(bytes) => WellCut(rest)
               /\ ~BadSize(bytes) /\ ended => WellCut(rest) /\ IsReply(bytes[HeaderLen].of, bytes)
               /\ ~BadSize(bytes) /\ ~ended => WellCut(bytes \o rest) /\ Unfinished(bytes)
<1> DEFINE bytes == p \o SubSeq(w, 1, n)
           rest == SubSeq(w, n + 1, Len(w))
           s == p \o w
           b == s[1]
           l == LengthOf(b.size)
<1>1. /\ bytes \in Seq(LinkBytes) /\ rest \in Seq(LinkBytes) /\ Len(bytes) = Len(p) + n
      /\ bytes \o rest = s
  BY ReadsKeepStream
<1>2. s \in Seq(LinkBytes) /\ Len(s) = Len(p) + Len(w) /\ \A i \in 1..Len(p) : s[i] = p[i]
  BY Together
<1>3. Len(p) \in Nat /\ Len(w) \in Nat /\ n \in 1..Len(w)
  OBVIOUS
<1> HIDE DEF bytes, rest, s
<1>4. \A i \in 1..Len(bytes) : bytes[i] = s[i]
  BY <1>1, Together
<1>5. s # <<>>
  BY <1>2, <1>3
<1>6. /\ b \in LinkBytes /\ l \in Nat /\ HeaderLen <= l /\ l <= Len(s)
      /\ \A j \in 1..l : s[j] = [of |-> b.of, at |-> j, size |-> b.size]
      /\ WellCut(SubSeq(s, l + 1, Len(s)))
  <2>1. WellCut(s)
    BY DEF s
  <2> QED
    BY <1>2, <1>5, <2>1, CutFirst
<1>7. HeaderLen \in Nat /\ HeaderLen >= 1 /\ b.of \in LinkIds /\ b.size \in Sizes
  BY <1>6, LinkAssumption DEF LinkBytes
<1>8. \/ b.size = 0 /\ l = HeaderLen
      \/ b.size >= HeaderLen /\ l = b.size /\ b.size \in Nat
  <2>1. CASE b.size = 0
    BY <2>1 DEF LengthOf
  <2>2. CASE b.size # 0
    <3>1. PICK m \in BodyLens : b.size = HeaderLen + m
      BY <1>7, <2>2 DEF Sizes
    <3>2. m \in Nat /\ l = b.size
      BY <2>2, LinkAssumption DEF LengthOf
    <3> HIDE DEF b, l
    <3> QED
      BY <1>7, <3>1, <3>2
  <2> QED
    BY <2>1, <2>2
<1>0. \A j \in 1..l : s[j] = [of |-> b.of, at |-> j, size |-> b.size]
  BY <1>6
<1> HIDE DEF b, l
<1>9. Len(bytes) <= l
  <2>1. CASE Len(p) < HeaderLen
    BY <1>1, <1>3, <1>6, <1>7, <2>1 DEF Missing, Announced
  <2>2. CASE Len(p) >= HeaderLen
    <3>1. p # <<>> /\ 1 \in 1..Len(p) /\ HeaderLen \in 1..Len(p) /\ HeaderLen \in 1..l
      BY <1>3, <1>6, <1>7, <2>2
    <3>2. p[1] = b /\ p[HeaderLen] = s[HeaderLen]
      BY <1>2, <3>1 DEF b
    <3>3. Len(p) < l
      BY <3>1, <3>2 DEF Unfinished, l
    <3>4. p[HeaderLen].size = b.size
      <4>1. s[HeaderLen] = [of |-> b.of, at |-> HeaderLen, size |-> b.size]
        BY <1>0, <3>1
      <4> QED
        BY <3>2, <4>1
    <3>5. Missing(p) = b.size - Len(p)
      BY <2>2, <3>4 DEF Missing, Announced
    <3> QED
      BY <1>1, <1>3, <1>6, <1>7, <1>8, <2>2, <3>3, <3>5
  <2> QED
    BY <1>3, <1>7, <2>1, <2>2
<1>10. Len(bytes) >= HeaderLen => bytes[HeaderLen] = [of |-> b.of, at |-> HeaderLen, size |-> b.size]
  <2> SUFFICES ASSUME Len(bytes) >= HeaderLen
               PROVE  bytes[HeaderLen] = [of |-> b.of, at |-> HeaderLen, size |-> b.size]
    OBVIOUS
  <2>1. HeaderLen \in 1..l /\ HeaderLen \in 1..Len(bytes)
    BY <1>1, <1>6, <1>7
  <2> QED
    BY <1>0, <1>4, <2>1
<1>11. Len(bytes) = l => rest = SubSeq(s, l + 1, Len(s))
  <2> SUFFICES ASSUME Len(bytes) = l PROVE rest = SubSeq(s, l + 1, Len(s))
    OBVIOUS
  <2> DEFINE r == SubSeq(s, l + 1, Len(s))
  <2>1. r \in Seq(LinkBytes) /\ Len(r) = Len(s) - l /\ \A i \in 1..Len(r) : r[i] = s[l + i]
    <3>1. s \in Seq(LinkBytes) /\ l \in Nat /\ l <= Len(s)
      BY <1>2, <1>6
    <3> QED
      BY ONLY <3>1, RestOfStream
  <2>2. Len(s) = Len(bytes) + Len(rest) /\ \A i \in 1..Len(rest) : s[Len(bytes) + i] = rest[i]
    BY <1>1, Together
  <2> HIDE DEF r
  <2>3. Len(rest) \in Nat /\ Len(rest) = Len(r)
    <3>1. Len(rest) \in Nat /\ Len(s) \in Nat /\ Len(bytes) = l /\ l \in Nat
      BY <1>1, <1>2, <1>6
    <3>2. Len(s) = Len(bytes) + Len(rest) /\ Len(r) = Len(s) - l
      BY <2>1, <2>2
    <3> DEFINE x == Len(rest)
               y == Len(s)
               z == Len(r)
    <3>3. x \in Nat /\ y \in Nat /\ y = l + x /\ z = y - l
      BY <3>1, <3>2
    <3> HIDE DEF x, y, z
    <3>4. x = z
      BY <3>1, <3>3
    <3> QED
      BY <3>1, <3>4 DEF x, z
  <2>4. \A i \in 1..Len(rest) : rest[i] = r[i]
    BY <2>1, <2>2, <2>3
  <2>5. rest = r
    BY ONLY <1>1, <2>1, <2>3, <2>4, SameStream
  <2> QED
    BY <2>5 DEF r
<1>12. BadSize(bytes) => WellCut(rest)
  <2> SUFFICES ASSUME BadSize(bytes) PROVE WellCut(rest)
    OBVIOUS
  <2>1. Len(bytes) = HeaderLen /\ b.size < HeaderLen
    BY <1>7, <1>10 DEF BadSize, Announced
  <2>2. l = HeaderLen
    BY <1>7, <1>8, <2>1
  <2> QED
    BY <1>6, <1>11, <2>1, <2>2
<1> DEFINE ended == Len(bytes) >= HeaderLen /\ Len(bytes) = Announced(bytes)
<1>13. ~BadSize(bytes) /\ ended => WellCut(rest) /\ IsReply(bytes[HeaderLen].of, bytes)
  <2> SUFFICES ASSUME ended PROVE WellCut(rest) /\ IsReply(bytes[HeaderLen].of, bytes)
    OBVIOUS
  <2>1. Len(bytes) = b.size /\ bytes[HeaderLen].of = b.of
    BY <1>10 DEF Announced
  <2>2. l = b.size /\ b.size >= HeaderLen
    BY <1>7, <1>8, <2>1
  <2>3. PICK m \in BodyLens : b.size = HeaderLen + m
    BY <1>7, <2>2 DEF Sizes
  <2>4. bytes = Whole(b.of, HeaderLen + m)
    <3>1. bytes = [i \in 1..Len(bytes) |-> bytes[i]]
      BY <1>1
    <3>2. \A i \in 1..l : bytes[i] = [of |-> b.of, at |-> i, size |-> b.size]
      BY <1>4, <1>6, <2>1, <2>2
    <3>3. Len(bytes) = l
      BY <2>1, <2>2
    <3>4. bytes = [i \in 1..l |-> [of |-> b.of, at |-> i, size |-> b.size]]
      BY <3>1, <3>2, <3>3
    <3> QED
      BY <2>2, <2>3, <3>4 DEF Whole
  <2> QED
    BY <1>6, <1>7, <1>11, <2>1, <2>2, <2>3, <2>4 DEF IsReply
<1>14. ~BadSize(bytes) /\ ~ended => WellCut(bytes \o rest) /\ Unfinished(bytes)
  <2> SUFFICES ASSUME ~BadSize(bytes), ~ended PROVE WellCut(bytes \o rest) /\ Unfinished(bytes)
    OBVIOUS
  <2>1. WellCut(bytes \o rest)
    BY <1>1 DEF s
  <2>2. Len(bytes) # l
    <3> SUFFICES ASSUME Len(bytes) = l PROVE FALSE
      OBVIOUS
    <3>1. Announced(bytes) = b.size
      BY <1>6, <1>7, <1>10 DEF Announced
    <3>2. b.size = 0 /\ l = HeaderLen
      BY <1>6, <1>7, <1>8, <3>1
    <3> QED
      BY <1>7, <3>1, <3>2 DEF BadSize
  <2>3. bytes[1] = b /\ Len(bytes) \in Nat
    BY <1>1, <1>3, <1>4 DEF b
  <2>4. Len(bytes) < l
    BY <1>6, <1>9, <2>2, <2>3
  <2> QED
    BY <2>1, <2>3, <2>4 DEF Unfinished, l
<1> QED
  BY <1>1, <1>12, <1>13, <1>14 DEF bytes, rest

-----------------------------------------------------------------------------
(* The invariant. *)

\* A reply is not empty and its first byte says whose it is.
LEMMA ReplyHasOwner ==
    ASSUME NEW id, NEW bytes, IsReply(id, bytes)
    PROVE  bytes # <<>> /\ bytes[1].of = id /\ IsReply(bytes[1].of, bytes)
<1>1. PICK n \in BodyLens : bytes = Whole(id, HeaderLen + n)
  BY DEF IsReply
<1>2. HeaderLen + n \in Nat /\ 1 \in 1..(HeaderLen + n)
  BY LinkAssumption
<1>3. bytes[1] = [of |-> id, at |-> 1, size |-> HeaderLen + n] /\ DOMAIN bytes = 1..(HeaderLen + n)
  BY <1>1, <1>2 DEF Whole
<1>4. bytes # <<>>
  BY <1>2, <1>3
<1> QED
  BY <1>3, <1>4

\* A session that does not exist yet has read nothing.
LEMMA LinkInitially == LinkInit => LinkInv
<1> SUFFICES ASSUME LinkInit PROVE LinkInv
  OBVIOUS
<1> USE DEF LinkInit
<1>1. LinkType
  BY LinkAssumption DEF LinkType
<1>2. StreamIsCut
  <2>1. demux.pending = <<>> /\ wire = <<>> /\ <<>> \in Seq(LinkBytes)
    OBVIOUS
  <2>2. <<>> \o <<>> = <<>>
    BY <2>1, NothingBefore
  <2>3. WellCut(<<>>)
    BY DEF WellCut
  <2>4. demux.pending \o wire = <<>>
    BY <2>1, <2>2
  <2> QED
    BY <2>1, <2>3, <2>4, NothingBefore DEF StreamIsCut
<1>3. RepliesAreWhole /\ StatesAreNew
  BY DEF RepliesAreWhole, StatesAreNew
<1> QED
  BY <1>1, <1>2, <1>3 DEF LinkInv

\* A request has an id of its own, or its thread is told that the socket is shut.
LEMMA RequestSent ==
    ASSUME LinkInv, NEW t \in Threads, SendRequest(t)
    PROVE  /\ nextId' \in 0..MaxRequests /\ DOMAIN asked' = {"ids", "broken"} /\ asked'.ids \subseteq LinkIds
           /\ DOMAIN doing' = Threads
           /\ \A u \in Threads : \/ doing'[u] = doing[u]
                                 \/ /\ DOMAIN doing'[u] = {"call", "id", "got", "state"}
                                    /\ doing'[u].call \in {"nothing", "reply"}
                                    /\ doing'[u].got = <<>> /\ doing'[u].state = 0
<1> USE DEF LinkInv, LinkType, SendRequest
<1>1. nextId \in LinkIds /\ nextId' \in 0..MaxRequests
  BY LinkAssumption DEF LinkIds
<1>2. DOMAIN asked' = {"ids", "broken"} /\ asked'.ids \subseteq LinkIds
  BY <1>1 DEF HandsBack
<1>3. DOMAIN doing' = Threads /\ \A u \in Threads : u # t => doing'[u] = doing[u]
  BY DEF HandsBack
<1>4. /\ DOMAIN doing'[t] = {"call", "id", "got", "state"}
      /\ doing'[t].call \in {"nothing", "reply"}
      /\ doing'[t].got = <<>> /\ doing'[t].state = 0
  <2>1. CASE conn = "shut"
    BY <2>1 DEF HandsBack
  <2>2. CASE conn # "shut"
    <3>1. doing'[t] = [call |-> "reply", id |-> nextId, got |-> <<>>, state |-> 0]
      BY <2>2
    <3> QED
      BY <3>1
  <2> QED
    BY <2>1, <2>2
<1> QED
  BY <1>1, <1>2, <1>3, <1>4

\* What a thread is handed leaves the others alone.
LEMMA HandedBack ==
    ASSUME LinkType, NEW t \in Threads, NEW got, HandsBack(t, got)
    PROVE  /\ DOMAIN doing' = Threads /\ \A u \in Threads : u # t => doing'[u] = doing[u]
           /\ DOMAIN doing'[t] = {"call", "id", "got", "state"}
           /\ doing'[t].call = "nothing" /\ doing'[t].got = got /\ doing'[t].state = 0
  BY DEF LinkType, HandsBack

\* What was not asked for anew is as whole and as new as before.
LEMMA OthersKept ==
    ASSUME LinkInv, UNCHANGED <<layout, demux, wire, datagrams, arrived>>,
           \A u \in Threads : \/ doing'[u] = doing[u]
                              \/ /\ DOMAIN doing'[u] = {"call", "id", "got", "state"}
                                 /\ doing'[u].call \in {"nothing", "reply"}
                                 /\ doing'[u].got = <<>> /\ doing'[u].state = 0
    PROVE  StreamIsCut' /\ RepliesAreWhole' /\ StatesAreNew'
<1> USE DEF LinkInv
<1>1. StreamIsCut'
  BY DEF StreamIsCut
<1>2. RepliesAreWhole'
  BY DEF RepliesAreWhole
<1>3. StatesAreNew'
  BY DEF StatesAreNew
<1> QED
  BY <1>1, <1>2, <1>3

\* What is there after a read that does not fail: whole replies, and the rest of the stream.
LEMMA ReadIsWhole ==
    ASSUME LinkInv, NEW n \in 1..Len(wire), n <= Missing(demux.pending),
           wire' = SubSeq(wire, n + 1, Len(wire))
    PROVE  LET bytes == Assembled(n)
               next == Demuxed(bytes)
           IN  /\ wire' \in Seq(LinkBytes) /\ (BadSize(bytes) => WellCut(wire'))
               /\ ~BadSize(bytes) =>
                    /\ DOMAIN next = {"received", "pending"} /\ next.pending \in Seq(LinkBytes)
                    /\ WellCut(next.pending \o wire') /\ Unfinished(next.pending)
                    /\ \A id \in DOMAIN next.received : IsReply(id, next.received[id])
<1>0. LinkType /\ StreamIsCut /\ RepliesAreWhole
  BY DEF LinkInv
<1> DEFINE bytes == Assembled(n)
           next == Demuxed(bytes)
           ended == Len(bytes) >= HeaderLen /\ Len(bytes) = Announced(bytes)
<1>2. /\ demux.pending \in Seq(LinkBytes) /\ wire \in Seq(LinkBytes)
      /\ WellCut(demux.pending \o wire) /\ Unfinished(demux.pending)
      /\ DOMAIN demux = {"received", "pending"}
  BY <1>0 DEF LinkType, StreamIsCut
<1>3. /\ bytes \in Seq(LinkBytes) /\ wire' \in Seq(LinkBytes)
      /\ BadSize(bytes) => WellCut(wire')
      /\ ~BadSize(bytes) /\ ended => WellCut(wire') /\ IsReply(bytes[HeaderLen].of, bytes)
      /\ ~BadSize(bytes) /\ ~ended => WellCut(bytes \o wire') /\ Unfinished(bytes)
  BY <1>2, ReadCuts DEF Assembled
<1>5. ASSUME ~BadSize(bytes)
      PROVE  /\ DOMAIN next = {"received", "pending"} /\ next.pending \in Seq(LinkBytes)
             /\ WellCut(next.pending \o wire') /\ Unfinished(next.pending)
             /\ \A id \in DOMAIN next.received : IsReply(id, next.received[id])
  <2> HIDE DEF bytes
  <2>1. CASE ended
    <3>1. /\ DOMAIN next = {"received", "pending"} /\ next.pending = <<>>
          /\ next.received = [id \in DOMAIN demux.received \cup {bytes[HeaderLen].of} |->
                                IF id = bytes[HeaderLen].of THEN bytes ELSE demux.received[id]]
      BY <2>1 DEF Demuxed
    <3>2. IsReply(bytes[HeaderLen].of, bytes) /\ WellCut(wire')
      BY <1>3, <1>5, <2>1
    <3>3. \A id \in DOMAIN next.received : IsReply(id, next.received[id])
      BY <1>0, <3>1, <3>2 DEF RepliesAreWhole
    <3>4. <<>> \o wire' = wire' /\ <<>> \in Seq(LinkBytes) /\ Unfinished(<<>>)
      BY <1>3, NothingBefore
    <3> QED
      BY <3>1, <3>2, <3>3, <3>4
  <2>2. CASE ~ended
    <3>1. DOMAIN next = {"received", "pending"} /\ next.pending = bytes
            /\ next.received = demux.received
      BY <1>2, <2>2 DEF Demuxed
    <3> QED
      BY <1>0, <1>3, <1>5, <2>2, <3>1 DEF RepliesAreWhole
  <2> QED
    BY <2>1, <2>2
<1> QED
  BY <1>3, <1>5

\* A turn of a thread that waits for its reply.
LEMMA TurnKeeps == ASSUME LinkInv, NEW t \in Threads, AwaitReply(t) PROVE LinkInv'
<1>0. LinkType /\ StreamIsCut /\ RepliesAreWhole /\ StatesAreNew
  BY DEF LinkInv
<1>1. doing[t].call = "reply" /\ UNCHANGED <<layout, nextId, peer, asked, datagrams, arrived>>
  BY DEF AwaitReply
\* What a thread is handed is in both ways the reply that is there.
<1>2. ASSUME NEW got, HandsBack(t, got), got # <<>> => IsReply(got[1].of, got),
             linked' \in {"none", "handshake", "open", "failed"}, conn' \in {"up", "closed", "shut"},
             DOMAIN demux' = {"received", "pending"},
             demux'.pending \in Seq(LinkBytes), wire' \in Seq(LinkBytes), StreamIsCut',
             \A id \in DOMAIN demux'.received : IsReply(id, demux'.received[id])
      PROVE  LinkInv'
  <2>1. /\ DOMAIN doing' = Threads /\ \A u \in Threads : u # t => doing'[u] = doing[u]
        /\ DOMAIN doing'[t] = {"call", "id", "got", "state"}
        /\ doing'[t].call = "nothing" /\ doing'[t].got = got /\ doing'[t].state = 0
    BY <1>0, <1>2, HandedBack
  <2>2. LinkType'
    BY <1>0, <1>1, <1>2, <2>1 DEF LinkType
  <2>3. RepliesAreWhole'
    BY <1>0, <1>2, <2>1 DEF RepliesAreWhole
  <2>4. StatesAreNew'
    BY <1>0, <1>1, <2>1 DEF StatesAreNew
  <2> QED
    BY <1>2, <2>2, <2>3, <2>4 DEF LinkInv
<1>3. LinkFails(t) => /\ HandsBack(t, <<>>) /\ linked' \in {"none", "handshake", "open", "failed"}
                      /\ conn' \in {"up", "closed", "shut"}
  BY <1>0 DEF LinkFails, LinkType
<1>4. Judged(t) => /\ linked' \in {"none", "handshake", "open", "failed"}
                   /\ conn' \in {"up", "closed", "shut"}
  BY <1>0 DEF Judged, LinkType
<1>5. ASSUME NEW next, DOMAIN next = {"received", "pending"}, next.pending \in Seq(LinkBytes),
             wire' \in Seq(LinkBytes), WellCut(next.pending \o wire'), Unfinished(next.pending),
             \A id \in DOMAIN next.received : IsReply(id, next.received[id]),
             NEW id \in Claimed(t, next.received),
             demux' = [next EXCEPT !.received = [i \in DOMAIN next.received \ {id} |-> next.received[i]]],
             HandsBack(t, next.received[id]), Judged(t)
      PROVE  LinkInv'
  <2>1. id \in DOMAIN next.received
    BY <1>5 DEF Claimed
  <2>2. IsReply(next.received[id][1].of, next.received[id])
    BY <1>5, <2>1, ReplyHasOwner
  <2>3. /\ DOMAIN demux' = {"received", "pending"} /\ demux'.pending = next.pending
        /\ demux'.received = [i \in DOMAIN next.received \ {id} |-> next.received[i]]
    BY <1>5
  <2>4. \A i \in DOMAIN demux'.received : IsReply(i, demux'.received[i])
    BY <1>5, <2>3
  <2>5. StreamIsCut'
    BY <1>5, <2>3 DEF StreamIsCut
  <2> QED
    BY <1>2, <1>4, <1>5, <2>2, <2>3, <2>4, <2>5
<1>6. CASE ReadsEnd(t)
  <2>1. LinkFails(t) /\ UNCHANGED <<wire, demux>>
    BY <1>6 DEF ReadsEnd, ConnectionEnded
  <2>2. StreamIsCut'
    BY <1>0, <2>1 DEF StreamIsCut
  <2> QED
    BY <1>0, <1>2, <1>3, <2>1, <2>2 DEF LinkType, RepliesAreWhole
<1>7. CASE ReadsNothing(t)
  <2>1. PICK id \in Claimed(t, demux.received) :
          /\ demux' = [demux EXCEPT !.received =
                         [i \in DOMAIN demux.received \ {id} |-> demux.received[i]]]
          /\ HandsBack(t, demux.received[id]) /\ Judged(t)
    BY <1>7 DEF ReadsNothing
  <2>2. wire' = wire
    BY <1>7 DEF ReadsNothing
  <2> QED
    BY <1>0, <1>5, <2>1, <2>2 DEF LinkType, StreamIsCut, RepliesAreWhole
<1>8. CASE ReadsBytes(t)
  <2>1. PICK n \in 1..Len(wire) :
          /\ n <= Missing(demux.pending) /\ wire' = SubSeq(wire, n + 1, Len(wire))
          /\ LET bytes == Assembled(n)
                 next == Demuxed(bytes)
             IN  IF BadSize(bytes)
                 THEN demux' = [demux EXCEPT !.pending = <<>>] /\ LinkFails(t)
                 ELSE IF Claimed(t, next.received) = {}
                 THEN demux' = next /\ UNCHANGED <<doing, linked, conn>>
                 ELSE \E id \in Claimed(t, next.received) :
                        /\ demux' = [next EXCEPT !.received =
                                       [i \in DOMAIN next.received \ {id} |-> next.received[i]]]
                        /\ HandsBack(t, next.received[id]) /\ Judged(t)
    BY <1>8 DEF ReadsBytes
  <2> DEFINE bytes == Assembled(n)
             next == Demuxed(bytes)
  <2>2. DOMAIN demux = {"received", "pending"}
    BY <1>0 DEF LinkType
  <2>3. wire' \in Seq(LinkBytes) /\ (BadSize(bytes) => WellCut(wire'))
    BY <2>1, ReadIsWhole
  <2>4. \/ BadSize(bytes) /\ demux' = [demux EXCEPT !.pending = <<>>] /\ LinkFails(t)
        \/ /\ ~BadSize(bytes) /\ demux' = next /\ UNCHANGED <<doing, linked, conn>>
        \/ /\ ~BadSize(bytes)
           /\ \E id \in Claimed(t, next.received) :
                /\ demux' = [next EXCEPT !.received =
                               [i \in DOMAIN next.received \ {id} |-> next.received[i]]]
                /\ HandsBack(t, next.received[id]) /\ Judged(t)
    BY <2>1
  <2>5. ASSUME ~BadSize(bytes)
        PROVE  /\ DOMAIN next = {"received", "pending"} /\ next.pending \in Seq(LinkBytes)
               /\ WellCut(next.pending \o wire') /\ Unfinished(next.pending)
               /\ \A id \in DOMAIN next.received : IsReply(id, next.received[id])
    BY <2>1, <2>5, ReadIsWhole
  <2>6. CASE BadSize(bytes) /\ demux' = [demux EXCEPT !.pending = <<>>] /\ LinkFails(t)
    <3> HIDE DEF bytes, next
    <3>1. DOMAIN demux' = {"received", "pending"} /\ demux'.pending = <<>> /\ demux'.received = demux.received
      BY <2>2, <2>6
    <3>2. <<>> \o wire' = wire' /\ <<>> \in Seq(LinkBytes) /\ Unfinished(<<>>)
      BY <2>3, NothingBefore
    <3>3. StreamIsCut'
      BY <2>3, <2>6, <3>1, <3>2 DEF StreamIsCut
    <3>4. \A id \in DOMAIN demux'.received : IsReply(id, demux'.received[id])
      BY <1>0, <3>1 DEF RepliesAreWhole
    <3> QED
      BY <1>2, <1>3, <2>3, <2>6, <3>1, <3>2, <3>3, <3>4
  <2>7. CASE ~BadSize(bytes) /\ demux' = next /\ UNCHANGED <<doing, linked, conn>>
    <3> HIDE DEF bytes, next
    <3>1. LinkType'
      BY <1>0, <1>1, <2>3, <2>5, <2>7 DEF LinkType
    <3>2. StreamIsCut'
      BY <2>5, <2>7 DEF StreamIsCut
    <3>3. RepliesAreWhole'
      BY <1>0, <2>5, <2>7 DEF RepliesAreWhole
    <3>4. StatesAreNew'
      BY <1>0, <1>1, <2>7 DEF StatesAreNew
    <3> QED
      BY <3>1, <3>2, <3>3, <3>4 DEF LinkInv
  <2>8. CASE /\ ~BadSize(bytes)
             /\ \E id \in Claimed(t, next.received) :
                  /\ demux' = [next EXCEPT !.received =
                                 [i \in DOMAIN next.received \ {id} |-> next.received[i]]]
                  /\ HandsBack(t, next.received[id]) /\ Judged(t)
    <3> HIDE DEF bytes, next
    <3> QED
      BY <1>5, <2>3, <2>5, <2>8
  <2> QED
    BY <2>4, <2>6, <2>7, <2>8
<1> QED
  BY <1>6, <1>7, <1>8 DEF AwaitReply

\* What is left of the queue when its head is gone.
LEMMA RestOfStates ==
    ASSUME NEW q \in Seq(States), q # <<>>
    PROVE  Tail(q) \in Seq(States) /\ \A i \in 1..Len(Tail(q)) :
             i + 1 \in 1..Len(q) /\ Tail(q)[i] = q[i + 1]
  OBVIOUS

\* Streams are put together in any grouping.
LEMMA Regrouped ==
    ASSUME NEW p \in Seq(LinkBytes), NEW w \in Seq(LinkBytes), NEW m \in Seq(LinkBytes)
    PROVE  (p \o w) \o m = p \o (w \o m)
  OBVIOUS

\* Every step of a thread, of the server and of its datagrams keeps the invariant.
LEMMA LinkStep == LinkInv /\ [LinkNext]_linkVars => LinkInv'
<1> SUFFICES ASSUME LinkInv, [LinkNext]_linkVars PROVE LinkInv'
  OBVIOUS
<1>0. LinkType /\ StreamIsCut /\ RepliesAreWhole /\ StatesAreNew
  BY DEF LinkInv
<1>1. CASE Connect
  <2>1. UNCHANGED <<layout, conn, demux, peer, wire, datagrams, arrived>>
          /\ linked' \in {"handshake", "failed"} /\ Main \in Threads
    BY <1>1, LinkAssumption DEF Connect
  <2>2. CASE SendRequest(Main)
    BY <1>0, <2>1, <2>2, RequestSent, OthersKept DEF LinkInv, LinkType
  <2>3. CASE UNCHANGED <<nextId, doing, asked>>
    BY <1>0, <2>1, <2>3, OthersKept DEF LinkInv, LinkType
  <2> QED
    BY <1>1, <2>2, <2>3 DEF Connect
<1>2. ASSUME NEW t \in Threads, SendsCommand(t) PROVE LinkInv'
  <2>1. SendRequest(t) /\ UNCHANGED <<layout, linked, conn, demux, peer, wire, datagrams, arrived>>
    BY <1>2 DEF SendsCommand
  <2> QED
    BY <1>0, <2>1, RequestSent, OthersKept DEF LinkInv, LinkType
<1>3. ASSUME NEW t \in Threads, AwaitReply(t) PROVE LinkInv'
  BY <1>3, TurnKeeps
<1>4. ASSUME NEW t \in Threads, Begins(t) PROVE LinkInv'
  <2> USE <1>4 DEF Begins
  <2>0. /\ DOMAIN doing' = Threads /\ \A u \in Threads : u # t => doing'[u] = doing[u]
        /\ DOMAIN doing'[t] = {"call", "id", "got", "state"} /\ doing'[t].call \in {"drain", "state"}
        /\ doing'[t].call = "state" => layout # "gripper"
        /\ doing'[t].got = <<>> /\ doing'[t].state = 0
        /\ DOMAIN arrived' = {"now", "before"} /\ arrived'.now = arrived.now
        /\ DOMAIN arrived'.before = Threads /\ arrived'.before[t] = arrived.now
        /\ \A u \in Threads : u # t => arrived'.before[u] = arrived.before[u]
    BY <1>0 DEF LinkType
  <2>1. LinkType'
    BY <1>0, <2>0 DEF LinkType
  <2>2. StreamIsCut'
    BY <1>0 DEF StreamIsCut
  <2>3. RepliesAreWhole'
    BY <1>0, <2>0 DEF RepliesAreWhole
  <2>4. StatesAreNew'
    BY <1>0, <2>0 DEF StatesAreNew, LinkType
  <2> QED
    BY <2>1, <2>2, <2>3, <2>4 DEF LinkInv
<1>5. ASSUME NEW t \in Threads, DrainStates(t) PROVE LinkInv'
  <2> USE <1>5 DEF DrainStates, Drains
  <2>0. /\ DOMAIN doing' = Threads /\ \A u \in Threads : u # t => doing'[u] = doing[u]
        /\ DOMAIN doing'[t] = {"call", "id", "got", "state"} /\ doing'[t].call \in {"drain", "state"}
        /\ doing'[t].call = "state" => datagrams' = <<>>
        /\ doing'[t].got = doing[t].got /\ doing'[t].state = doing[t].state
    BY <1>0 DEF LinkType
  <2>1. LinkType'
    BY <1>0, <2>0 DEF LinkType
  <2>2. StreamIsCut'
    BY <1>0 DEF StreamIsCut
  <2>3. RepliesAreWhole'
    BY <1>0, <2>0 DEF RepliesAreWhole
  <2>4. StatesAreNew'
    <3>1. CASE datagrams = <<>>
      BY <1>0, <2>0, <3>1 DEF StatesAreNew
    <3>2. CASE datagrams # <<>>
      <4>1. doing' = doing /\ datagrams' = Tail(datagrams) /\ UNCHANGED <<layout, arrived>>
        BY <3>2
      <4>2. datagrams' \in Seq(States) /\ \A i \in 1..Len(datagrams') :
              i + 1 \in 1..Len(datagrams) /\ datagrams'[i] = datagrams[i + 1]
        BY <1>0, <3>2, <4>1, RestOfStates DEF StatesAreNew
      <4> HIDE <1>5 DEF DrainStates
      <4> QED
        BY <1>0, <4>1, <4>2 DEF StatesAreNew
    <3> QED
      BY <3>1, <3>2
  <2> QED
    BY <2>1, <2>2, <2>3, <2>4 DEF LinkInv
<1>6. ASSUME NEW t \in Threads, Receive(t) PROVE LinkInv'
  <2> USE <1>6 DEF Receive
  <2>0. /\ DOMAIN doing' = Threads /\ \A u \in Threads : u # t => doing'[u] = doing[u]
        /\ DOMAIN doing'[t] = {"call", "id", "got", "state"} /\ doing'[t].call = "nothing"
        /\ doing'[t].got = <<>>
        /\ doing'[t].state = Head(datagrams).n \/ doing'[t].state = 0
    BY <1>0 DEF LinkType
  <2>1. LinkType'
    BY <1>0, <2>0 DEF LinkType
  <2>2. StreamIsCut'
    BY <1>0 DEF StreamIsCut
  <2>3. RepliesAreWhole'
    BY <1>0, <2>0 DEF RepliesAreWhole
  <2>4. StatesAreNew'
    <3>1. datagrams' \in Seq(States) /\ \A i \in 1..Len(datagrams') :
            i + 1 \in 1..Len(datagrams) /\ datagrams'[i] = datagrams[i + 1]
      BY <1>0, RestOfStates DEF StatesAreNew
    <3>2. 1 \in 1..Len(datagrams) /\ Head(datagrams) = datagrams[1]
      BY <1>0 DEF StatesAreNew
    <3>3. UNCHANGED <<layout, arrived>> /\ doing[t].call = "state"
      OBVIOUS
    <3> HIDE <1>6 DEF Receive
    <3> QED
      BY <1>0, <2>0, <3>1, <3>2, <3>3 DEF StatesAreNew
  <2> QED
    BY <2>1, <2>2, <2>3, <2>4 DEF LinkInv
<1>7. ASSUME NEW t \in Threads, ReceiveTimesOut(t) PROVE LinkInv'
  <2> USE <1>7 DEF ReceiveTimesOut
  <2>0. /\ DOMAIN doing' = Threads /\ \A u \in Threads : u # t => doing'[u] = doing[u]
        /\ DOMAIN doing'[t] = {"call", "id", "got", "state"}
        /\ doing'[t].call = "nothing" /\ doing'[t].got = <<>> /\ doing'[t].state = 0
    BY <1>0, HandedBack
  <2>1. LinkType'
    BY <1>0, <2>0 DEF LinkType, Silenced
  <2>2. StreamIsCut'
    BY <1>0 DEF StreamIsCut
  <2>3. RepliesAreWhole'
    BY <1>0, <2>0 DEF RepliesAreWhole
  <2>4. StatesAreNew'
    BY <1>0, <2>0 DEF StatesAreNew
  <2> QED
    BY <2>1, <2>2, <2>3, <2>4 DEF LinkInv
<1>8. CASE Answers
  <2>0. UNCHANGED <<layout, linked, conn, nextId, demux, doing, peer, datagrams, arrived>>
    BY <1>8 DEF Answers
  <2>1. PICK id \in asked.ids, size \in Sizes :
          /\ wire' = wire \o [i \in 1..LengthOf(size) |-> [of |-> id, at |-> i, size |-> size]]
          /\ DOMAIN asked' = {"ids", "broken"} /\ asked'.ids = asked.ids \ {id}
    <3>1. PICK id \in asked.ids :
            \/ \E n \in BodyLens : /\ wire' = wire \o Whole(id, HeaderLen + n)
                                   /\ asked' = [asked EXCEPT !.ids = @ \ {id}]
            \/ /\ asked' = [ids |-> asked.ids \ {id}, broken |-> asked.broken - 1]
               /\ wire' = wire \o [i \in 1..HeaderLen |-> [of |-> id, at |-> i, size |-> 0]]
      BY <1>8 DEF Answers
    <3>2. ASSUME NEW n \in BodyLens, wire' = wire \o Whole(id, HeaderLen + n),
                 asked' = [asked EXCEPT !.ids = @ \ {id}]
          PROVE  \E size \in Sizes :
                   /\ wire' = wire \o [i \in 1..LengthOf(size) |-> [of |-> id, at |-> i, size |-> size]]
                   /\ DOMAIN asked' = {"ids", "broken"} /\ asked'.ids = asked.ids \ {id}
      <4>1. HeaderLen + n \in Sizes /\ LengthOf(HeaderLen + n) = HeaderLen + n
        BY MessageBytes
      <4>2. DOMAIN asked' = {"ids", "broken"} /\ asked'.ids = asked.ids \ {id}
        BY <1>0, <3>2 DEF LinkType
      <4> QED
        BY <3>2, <4>1, <4>2 DEF Whole
    <3>3. ASSUME asked' = [ids |-> asked.ids \ {id}, broken |-> asked.broken - 1],
                 wire' = wire \o [i \in 1..HeaderLen |-> [of |-> id, at |-> i, size |-> 0]]
          PROVE  \E size \in Sizes :
                   /\ wire' = wire \o [i \in 1..LengthOf(size) |-> [of |-> id, at |-> i, size |-> size]]
                   /\ DOMAIN asked' = {"ids", "broken"} /\ asked'.ids = asked.ids \ {id}
      <4>1. 0 \in Sizes /\ LengthOf(0) = HeaderLen
        BY MessageBytes
      <4>2. DOMAIN asked' = {"ids", "broken"} /\ asked'.ids = asked.ids \ {id}
        BY <3>3
      <4> QED
        BY <3>3, <4>1, <4>2
    <3> QED
      BY <3>1, <3>2, <3>3
  <2> DEFINE m == [i \in 1..LengthOf(size) |-> [of |-> id, at |-> i, size |-> size]]
             p == demux.pending
  <2>2. p \in Seq(LinkBytes) /\ wire \in Seq(LinkBytes) /\ id \in LinkIds
          /\ p \o wire \in Seq(LinkBytes) /\ WellCut(p \o wire)
    BY <1>0, Together DEF LinkType, StreamIsCut
  <2>3. m \in Seq(LinkBytes) /\ WellCut((p \o wire) \o m)
    <3> DEFINE r == p \o wire
    <3>1. r \in Seq(LinkBytes) /\ WellCut(r) /\ id \in LinkIds /\ size \in Sizes
      BY <2>2
    <3> HIDE DEF r, p
    <3>2. m \in Seq(LinkBytes) /\ WellCut(r \o m)
      BY ONLY <3>1, CutAnswered
    <3> QED
      BY <3>2 DEF r
  <2> HIDE DEF m
  <2>4. wire' = wire \o m
    BY <2>1 DEF m
  <2>5. wire' \in Seq(LinkBytes)
    BY <2>2, <2>3, <2>4
  <2>6. (p \o wire) \o m = p \o (wire \o m)
    BY ONLY <2>2, <2>3, Regrouped
  <2>7. LinkType'
    BY <1>0, <2>0, <2>1, <2>5 DEF LinkType
  <2>8. StreamIsCut'
    BY <1>0, <2>0, <2>3, <2>4, <2>6 DEF StreamIsCut
  <2>9. RepliesAreWhole' /\ StatesAreNew'
    BY <1>0, <2>0 DEF RepliesAreWhole, StatesAreNew
  <2> QED
    BY <2>7, <2>8, <2>9 DEF LinkInv
<1>9. CASE Closes
  BY <1>0, <1>9 DEF Closes, LinkInv, LinkType, StreamIsCut, RepliesAreWhole, StatesAreNew
<1>10. CASE Publishes
  <2>0. UNCHANGED <<layout, linked, conn, nextId, demux, doing, peer, wire, asked>>
    BY <1>10 DEF Publishes
  <2>1. DOMAIN arrived' = {"now", "before"} /\ arrived'.now = arrived.now + 1 /\ arrived'.before = arrived.before
          /\ arrived.now \in Nat
    BY <1>0, <1>10 DEF Publishes, LinkType
  <2>2. PICK d \in States : d.n = arrived.now + 1 /\ datagrams' = Append(datagrams, d)
    BY <1>10, <2>1 DEF Publishes, States
  <2>3. /\ datagrams' \in Seq(States) /\ Len(datagrams') = Len(datagrams) + 1
        /\ datagrams'[Len(datagrams) + 1] = d
        /\ \A i \in 1..Len(datagrams) : datagrams'[i] = datagrams[i]
    BY <1>0, <2>2 DEF StatesAreNew
  <2>4. \A i \in 1..Len(datagrams') : i \in 1..Len(datagrams) \/ datagrams'[i] = d
    BY <1>0, <2>3 DEF StatesAreNew
  <2>5. LinkType'
    BY <1>0, <2>0, <2>1 DEF LinkType
  <2>6. StreamIsCut' /\ RepliesAreWhole'
    BY <1>0, <2>0 DEF StreamIsCut, RepliesAreWhole
  <2>7. StatesAreNew'
    <3>1. \A i \in 1..Len(datagrams) : datagrams[i].n \in Nat
      <4>1. \A i \in 1..Len(datagrams) : datagrams[i] \in States
        BY <1>0 DEF StatesAreNew
      <4>2. \A e \in States : e.n \in Nat
        BY DEF States
      <4> QED
        BY <4>1, <4>2
    <3>2. \A i \in 1..Len(datagrams') : datagrams'[i].n <= arrived'.now
      BY <1>0, <2>1, <2>2, <2>3, <2>4, <3>1 DEF StatesAreNew
    <3>3. \A u \in Threads : arrived.before[u] \in 0..arrived.now
      BY <1>0 DEF LinkType
    <3>4. ASSUME NEW u \in Threads, layout = "gripper", doing[u].call = "state", NEW i \in 1..Len(datagrams')
          PROVE  datagrams'[i].n > arrived.before[u]
      BY <1>0, <2>1, <2>2, <2>3, <2>4, <3>3, <3>4 DEF StatesAreNew
    <3> QED
      BY <1>0, <2>0, <2>1, <2>3, <3>2, <3>4 DEF StatesAreNew
  <2> QED
    BY <2>5, <2>6, <2>7 DEF LinkInv
<1>11. CASE UNCHANGED linkVars
  BY <1>0, <1>11 DEF linkVars, LinkInv, LinkType, StreamIsCut, RepliesAreWhole, StatesAreNew
<1> QED
  BY <1>1, <1>2, <1>3, <1>4, <1>5, <1>6, <1>7, <1>8, <1>9, <1>10, <1>11 DEF LinkNext

\* The invariant gives what the run checks.
LEMMA LinkShows == LinkInv => LinkSafety
<1> SUFFICES ASSUME LinkInv PROVE LinkSafety
  OBVIOUS
<1>0. LinkType /\ StreamIsCut /\ RepliesAreWhole /\ StatesAreNew
  BY DEF LinkInv
<1> DEFINE p == demux.pending
<1>1. p \in Seq(LinkBytes) /\ HeaderLen \in Nat /\ BodyLens \subseteq Nat /\ BodyLens # {}
  BY <1>0, LinkAssumption DEF LinkType
<1>2. \A i \in DOMAIN p : p[i] \in Bytes
  <2>1. \A i \in 1..Len(p) : p[i] \in LinkBytes
    BY <1>1
  <2>2. LinkBytes \subseteq Bytes
    BY MessageBytes DEF LinkBytes, Bytes
  <2>3. DOMAIN p = 1..Len(p)
    BY <1>1
  <2> QED
    BY <2>1, <2>2, <2>3
<1>3. \E n \in BodyLens : Len(p) < HeaderLen + n
  <2> DEFINE l == Len(p)
  <2>0. PICK m \in BodyLens : m \in Nat
    BY <1>1
  <2>00. HeaderLen >= 1
    BY LinkAssumption
  <2>1. CASE p = <<>>
    <3>1. Len(p) = 0
      BY <2>1
    <3> QED
      BY <1>1, <2>0, <2>00, <3>1
  <2>2. CASE p # <<>>
    <3> DEFINE size == p[1].size
    <3>1. l \in Nat /\ l < LengthOf(size)
      BY <1>0, <1>1, <2>2 DEF StreamIsCut, Unfinished
    <3>2. p[1] \in LinkBytes
      BY <1>1, <2>2
    <3>3. size \in Sizes
      BY <3>2 DEF LinkBytes
    <3> HIDE DEF l, size
    <3>4. CASE size = 0
      <4>1. LengthOf(size) = HeaderLen
        BY <3>4, MessageBytes
      <4>2. l < HeaderLen + m
        BY <1>1, <2>0, <3>1, <4>1
      <4> QED
        BY <4>2 DEF l
    <3>5. ASSUME NEW n \in BodyLens, size = HeaderLen + n PROVE \E k \in BodyLens : l < HeaderLen + k
      BY <3>1, <3>5, MessageBytes
    <3> QED
      BY <3>3, <3>4, <3>5 DEF Sizes, l
  <2> QED
    BY <2>1, <2>2
<1>4. LinkTypeOK
  BY <1>0, <1>2, <1>3 DEF LinkTypeOK, LinkType, RepliesAreWhole, IsReply
<1>5. ReplyIsWhole
  BY <1>0 DEF ReplyIsWhole, RepliesAreWhole, StatesAreNew, IsReply
<1> QED
  BY <1>4, <1>5 DEF LinkSafety

\* Whoever reads a reply off the socket and in however many reads, it is handed out whole; no more
\* than a part of one message is left over (read_from_buffer), and a state of the gripper is none
\* that arrived before read_once was called.
THEOREM LinkIsSafe == ArmLifeSpec => []LinkSafety
<1>1. ArmLifeInit => LinkInv
  BY LinkInitially DEF ArmLifeInit
<1>2. LinkInv /\ [ArmLifeNext]_armVars => LinkInv'
  <2>1. [ArmLifeNext]_armVars => [LinkNext]_linkVars
    BY DEF ArmLifeNext, armVars
  <2> QED
    BY <2>1, LinkStep
<1>3. LinkInv => LinkSafety
  BY LinkShows
<1> QED
  BY <1>1, <1>2, <1>3, PTL DEF ArmLifeSpec

\* A turn that hands something out hands its thread the reply to its own request.
LEMMA TurnIsOwn ==
    ASSUME LinkInv, NEW t \in Threads, AwaitReply(t), NEW u \in Threads, doing'[u].got # <<>>,
           doing[u].got = <<>>
    PROVE  u = t /\ doing'[u].got[1].of = doing[t].id
<1>0. LinkType /\ RepliesAreWhole
  BY DEF LinkInv
<1>1. ASSUME NEW got, HandsBack(t, got) PROVE u = t /\ doing'[u].got = got
  BY <1>0, <1>1, HandedBack
<1>2. ASSUME NEW received, NEW id \in Claimed(t, received), IsReply(id, received[id]),
             HandsBack(t, received[id])
      PROVE  u = t /\ doing'[u].got[1].of = doing[t].id
  <2>1. id = doing[t].id
    BY <1>2 DEF Claimed
  <2>2. received[id][1].of = id
    BY <1>2, ReplyHasOwner
  <2> QED
    BY <1>1, <1>2, <2>1, <2>2
<1>3. ~LinkFails(t)
  BY <1>1 DEF LinkFails
<1>4. CASE ReadsEnd(t)
  BY <1>3, <1>4 DEF ReadsEnd, ConnectionEnded
<1>5. CASE ReadsNothing(t)
  <2>1. PICK id \in Claimed(t, demux.received) : HandsBack(t, demux.received[id])
    BY <1>5 DEF ReadsNothing
  <2>2. IsReply(id, demux.received[id])
    BY <1>0, <2>1 DEF Claimed, RepliesAreWhole
  <2> QED
    BY <1>2, <2>1, <2>2
<1>6. CASE ReadsBytes(t)
  <2>1. PICK n \in 1..Len(wire) :
          /\ n <= Missing(demux.pending) /\ wire' = SubSeq(wire, n + 1, Len(wire))
          /\ LET bytes == Assembled(n)
                 next == Demuxed(bytes)
             IN  IF BadSize(bytes)
                 THEN demux' = [demux EXCEPT !.pending = <<>>] /\ LinkFails(t)
                 ELSE IF Claimed(t, next.received) = {}
                 THEN demux' = next /\ UNCHANGED <<doing, linked, conn>>
                 ELSE \E id \in Claimed(t, next.received) :
                        /\ demux' = [next EXCEPT !.received =
                                       [i \in DOMAIN next.received \ {id} |-> next.received[i]]]
                        /\ HandsBack(t, next.received[id]) /\ Judged(t)
    BY <1>6 DEF ReadsBytes
  <2> DEFINE bytes == Assembled(n)
             next == Demuxed(bytes)
  <2>2. doing' # doing
    OBVIOUS
  <2>3. ~BadSize(bytes) /\ \E id \in Claimed(t, next.received) : HandsBack(t, next.received[id])
    BY <1>3, <2>1, <2>2
  <2>4. PICK id \in Claimed(t, next.received) : HandsBack(t, next.received[id])
    BY <2>3
  <2>5. IsReply(id, next.received[id])
    BY <2>1, <2>3, <2>4, ReadIsWhole DEF Claimed
  <2> HIDE DEF next, bytes
  <2> QED
    BY <1>2, <2>4, <2>5
<1> QED
  BY <1>4, <1>5, <1>6 DEF AwaitReply

\* No other step hands out a reply.
LEMMA OwnReplyStep ==
    ASSUME LinkInv, [LinkNext]_linkVars, NEW t \in Threads, doing[t].call = "reply",
           doing'[t].got # <<>>
    PROVE  doing'[t].got[1].of = doing[t].id
<1>0. LinkType /\ doing[t].got = <<>>
  BY DEF LinkInv, RepliesAreWhole
<1>1. doing' # doing
  BY <1>0
<1>2. ASSUME NEW u \in Threads, SendRequest(u) PROVE FALSE
  <2>1. \A v \in Threads : doing'[v].got = <<>> \/ doing'[v] = doing[v]
    BY <1>0, <1>2, RequestSent
  <2> QED
    BY <1>0, <2>1
<1>3. ASSUME NEW u \in Threads, doing'[u].got = <<>> \/ doing'[u].got = doing[u].got,
             \A v \in Threads : v # u => doing'[v] = doing[v]
      PROVE  FALSE
  BY <1>0, <1>3
<1>4. CASE Connect
  BY <1>1, <1>2, <1>4, LinkAssumption DEF Connect
<1>5. ASSUME NEW u \in Threads, SendsCommand(u) PROVE FALSE
  BY <1>2, <1>5 DEF SendsCommand
<1>6. ASSUME NEW u \in Threads, AwaitReply(u) PROVE doing'[t].got[1].of = doing[t].id
  BY <1>0, <1>6, TurnIsOwn
<1>7. ASSUME NEW u \in Threads, Begins(u) \/ DrainStates(u) \/ Receive(u) PROVE FALSE
  <2>1. doing'[u].got = <<>> \/ doing'[u].got = doing[u].got
    BY <1>0, <1>7 DEF Begins, DrainStates, Drains, Receive, LinkType
  <2>2. \A v \in Threads : v # u => doing'[v] = doing[v]
    BY <1>0, <1>7 DEF Begins, DrainStates, Drains, Receive, LinkType
  <2> QED
    BY <1>3, <2>1, <2>2
<1>8. ASSUME NEW u \in Threads, ReceiveTimesOut(u) PROVE FALSE
  <2>1. doing'[u].got = <<>> /\ \A v \in Threads : v # u => doing'[v] = doing[v]
    BY <1>0, <1>8, HandedBack DEF ReceiveTimesOut
  <2> QED
    BY <1>3, <2>1
<1> QED
  BY <1>1, <1>4, <1>5, <1>6, <1>7, <1>8 DEF LinkNext, Answers, Closes, Publishes, linkVars

\* What a thread that waits is handed is the reply to its own request, whichever thread read it off
\* the socket and in whatever order the replies came (blocking_receive_response).
THEOREM RepliesAreOwn == ArmLifeSpec => ReplyIsOwn
<1>1. ArmLifeInit => LinkInv
  BY LinkInitially DEF ArmLifeInit
<1>2. [ArmLifeNext]_armVars => [LinkNext]_linkVars
  BY DEF ArmLifeNext, armVars
<1>3. LinkInv /\ [LinkNext]_linkVars => LinkInv'
  BY LinkStep
<1>4. LinkInv /\ [LinkNext]_linkVars =>
        [\A t \in Threads : doing[t].call = "reply" /\ doing'[t].got # <<>> =>
           doing'[t].got[1].of = doing[t].id]_linkVars
  BY OwnReplyStep
<1> QED
  BY <1>1, <1>2, <1>3, <1>4, PTL DEF ArmLifeSpec, ReplyIsOwn
=============================================================================
