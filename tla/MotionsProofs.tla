---------------------------- MODULE MotionsProofs ----------------------------
(***************************************************************************)
(* What MCMotions checks on small instances, proved for every value of the *)
(* constants: how a motion of the robot is settled with its client, how a  *)
(* program's threads and its feeder share an arm, how a configuration      *)
(* starts its sessions, how tests share the simulators' ports.             *)
(*                                                                         *)
(* Each part has an inductive invariant of its own.  The program's and the *)
(* motion's hold in every behaviour, whatever part moves; the others' need *)
(* a beginning of their own, so they hold while theirs is the part that    *)
(* moves.                                                                  *)
(***************************************************************************)
EXTENDS MCMotions, WireProofs, TLAPS

-----------------------------------------------------------------------------
(* A program's threads and its feeder. *)

PyShapes ==
    /\ DOMAIN pyLocks = {"gil", "follow", "control"}
    /\ DOMAIN chunk = {"rows", "next", "dt", "started", "ticket", "quit"}
    /\ chunk.rows \in Seq({"good", "bad"}) /\ chunk.next \in Nat /\ chunk.dt \in Nat /\ chunk.started \in Nat
    /\ chunk.ticket \in Nat
    /\ DOMAIN feeder = {"at", "until"} /\ DOMAIN control = {"handle", "running", "takers"}
    /\ DOMAIN aim = {"ticket", "row"} /\ aim.ticket \in Nat /\ aim.row \in Nat /\ pyNow \in Nat
    /\ DOMAIN pyCalls = PyThreads
    /\ \A t \in PyThreads :
         /\ DOMAIN pyCalls[t] = {"op", "taken", "at", "chunk"} /\ pyCalls[t].taken \in 0..3
         /\ \/ pyCalls[t].at \in {"python", "joining", "returning"}
            \/ pyCalls[t].at = "locking" /\ pyCalls[t].op \in {"move", "look", "stop", "follow"}
            \/ pyCalls[t].at = "notifying" /\ pyCalls[t].op \in {"follow", "stop", "joining"}
         /\ pyCalls[t].at = "locking" /\ pyCalls[t].op = "follow" => pyCalls[t].chunk \in PyChunks

\* A thread holds the locks of its call it has taken, and the worker those of its place.
HoldsGil(t) ==
    \/ pyCalls[t].at = "locking" /\ pyCalls[t].op # "stop" /\ pyCalls[t].taken >= 1
    \/ pyCalls[t].at = "notifying" /\ pyCalls[t].op = "follow"
HoldsFollow(t) ==
    /\ pyCalls[t].at = "locking"
    /\ \/ pyCalls[t].op = "stop" /\ pyCalls[t].taken >= 1
       \/ pyCalls[t].op \in {"move", "follow"} /\ pyCalls[t].taken >= 2
HoldsControl(t) ==
    /\ pyCalls[t].at = "locking"
    /\ \/ pyCalls[t].op \in {"stop", "look"} /\ pyCalls[t].taken >= 2
       \/ pyCalls[t].op \in {"move", "follow"} /\ pyCalls[t].taken >= 3
HeldByCalls ==
    \A t \in PyThreads :
      /\ pyLocks["gil"] = t <=> HoldsGil(t)
      /\ pyLocks["follow"] = t <=> HoldsFollow(t)
      /\ pyLocks["control"] = t <=> HoldsControl(t)
HeldByFeeder ==
    /\ pyLocks["gil"] # Feeder
    /\ pyLocks["follow"] = Feeder <=> feeder.at \in {"checking", "publishing", "setting"}
    /\ pyLocks["control"] = Feeder <=> feeder.at = "setting"

\* What of a chunk has been published, a row that is being published apart.
Publishes == feeder.at \in {"publishing", "setting"}
Fed == IF Publishes THEN chunk.next - 1 ELSE chunk.next
AimIsOfTheChunk ==
    /\ aim.ticket <= chunk.ticket
    /\ Publishes => /\ chunk.next > 0 /\ chunk.next <= Len(chunk.rows)
                    /\ pyNow >= DueAt(chunk, chunk.next - 1)
    /\ chunk.rows # <<>> => \/ aim.ticket = chunk.ticket /\ aim.row = Fed
                            \/ aim.ticket < chunk.ticket /\ Fed = 0

PyArmInv ==
    PyShapes /\ HeldByCalls /\ HeldByFeeder /\ AimIsOfTheChunk /\ NeverSleepsPastARow /\ StopIsFinal

LEMMA PyArmBegins == PyArmInit => PyArmInv
<1> SUFFICES ASSUME PyArmInit PROVE PyArmInv
  OBVIOUS
<1>1. /\ pyLocks = [l \in {"gil", "follow", "control"} |-> NobodyHolds]
      /\ chunk = [rows |-> <<>>, next |-> 0, dt |-> 0, started |-> 0, ticket |-> 0, quit |-> FALSE]
      /\ feeder = [at |-> "locking", until |-> 0]
      /\ pyCalls = [t \in PyThreads |-> Outside]
      /\ control = [handle |-> TRUE, running |-> TRUE, takers |-> 0]
      /\ aim = [ticket |-> 0, row |-> 0] /\ pyNow = 0
  BY DEF PyArmInit
<1>2. PyShapes
  BY <1>1 DEF PyShapes, Outside
<1>3. HeldByCalls /\ HeldByFeeder
  BY <1>1, PyArmAssumption DEF HeldByCalls, HeldByFeeder, HoldsGil, HoldsFollow, HoldsControl, Outside
<1>4. AimIsOfTheChunk
  BY <1>1 DEF AimIsOfTheChunk, Publishes, Fed
<1>5. NeverSleepsPastARow /\ StopIsFinal
  BY <1>1 DEF NeverSleepsPastARow, StopIsFinal
<1> QED
  BY <1>2, <1>3, <1>4, <1>5 DEF PyArmInv

\* Which lock a call takes next.
LEMMA LocksInOrder ==
    /\ LocksOf("stop") = <<"follow", "control">> /\ Len(LocksOf("stop")) = 2
    /\ LocksOf("look") = <<"gil", "control">> /\ Len(LocksOf("look")) = 2
    /\ \A op \in {"move", "follow"} : LocksOf(op) = <<"gil", "follow", "control">> /\ Len(LocksOf(op)) = 3
<1>1. LocksOf("stop") = <<"follow", "control">>
  BY DEF LocksOf
<1>2. LocksOf("look") = <<"gil", "control">>
  BY DEF LocksOf
<1>3. \A op \in {"move", "follow"} : LocksOf(op) = <<"gil", "follow", "control">>
  BY DEF LocksOf
<1> QED
  BY <1>1, <1>2, <1>3

LEMMA NextLock ==
    ASSUME NEW op \in {"move", "look", "stop", "follow"}, NEW n \in 0..3, n < Len(LocksOf(op))
    PROVE  \/ op = "stop" /\ ((n = 0 /\ LocksOf(op)[n + 1] = "follow") \/ (n = 1 /\ LocksOf(op)[n + 1] = "control"))
           \/ op = "look" /\ ((n = 0 /\ LocksOf(op)[n + 1] = "gil") \/ (n = 1 /\ LocksOf(op)[n + 1] = "control"))
           \/ /\ op \in {"move", "follow"}
              /\ \/ n = 0 /\ LocksOf(op)[n + 1] = "gil"
                 \/ n = 1 /\ LocksOf(op)[n + 1] = "follow"
                 \/ n = 2 /\ LocksOf(op)[n + 1] = "control"
<1>1. CASE op = "stop"
  <2>1. LocksOf(op) = <<"follow", "control">> /\ Len(LocksOf(op)) = 2
    BY <1>1, LocksInOrder
  <2> DEFINE s == LocksOf(op)
  <2>2. n \in {0, 1} /\ s[1] = "follow" /\ s[2] = "control"
    BY <2>1
  <2> QED
    BY <1>1, <2>2
<1>2. CASE op = "look"
  <2>1. LocksOf(op) = <<"gil", "control">> /\ Len(LocksOf(op)) = 2
    BY <1>2, LocksInOrder
  <2> DEFINE s == LocksOf(op)
  <2>2. n \in {0, 1} /\ s[1] = "gil" /\ s[2] = "control"
    BY <2>1
  <2> QED
    BY <1>2, <2>2
<1>3. CASE op \in {"move", "follow"}
  <2>1. LocksOf(op) = <<"gil", "follow", "control">> /\ Len(LocksOf(op)) = 3
    BY <1>3, LocksInOrder
  <2> DEFINE s == LocksOf(op)
  <2>2. n \in {0, 1, 2} /\ s[1] = "gil" /\ s[2] = "follow" /\ s[3] = "control"
    BY <2>1
  <2> QED
    BY <1>3, <2>2
<1> QED
  BY <1>1, <1>2, <1>3

\* Who changes the chunk has its lock, so the worker is not publishing.
LEMMA ChunkIsLocked ==
    ASSUME PyShapes, HeldByCalls, HeldByFeeder, NEW t \in PyThreads, NEW op \in {"move", "follow", "stop"}, Holds(t, op)
    PROVE  HoldsFollow(t) /\ HoldsControl(t) /\ feeder.at \notin {"checking", "publishing", "setting"}
<1>1. pyCalls[t].at = "locking" /\ pyCalls[t].op = op /\ pyCalls[t].taken = Len(LocksOf(op))
  BY DEF Holds
<1>2. (op = "stop" /\ pyCalls[t].taken = 2) \/ (op \in {"move", "follow"} /\ pyCalls[t].taken = 3)
  <2>1. CASE op = "stop"
    <3>1. Len(LocksOf(op)) = 2
      BY <2>1, LocksInOrder
    <3> QED
      BY <1>1, <2>1, <3>1
  <2>2. CASE op \in {"move", "follow"}
    <3>1. Len(LocksOf(op)) = 3
      BY <2>2, LocksInOrder
    <3> QED
      BY <1>1, <2>2, <3>1
  <2> QED
    BY <2>1, <2>2
<1>3. HoldsFollow(t) /\ HoldsControl(t)
  <2>1. CASE op = "stop" /\ pyCalls[t].taken = 2
    BY <1>1, <2>1 DEF HoldsFollow, HoldsControl
  <2>2. CASE op \in {"move", "follow"} /\ pyCalls[t].taken = 3
    <3>1. pyCalls[t].op \in {"move", "follow"}
      BY <1>1, <2>2
    <3> QED
      BY <1>1, <2>2, <3>1 DEF HoldsFollow, HoldsControl
  <2> QED
    BY <1>2, <2>1, <2>2
<1> QED
  BY <1>3, PyArmAssumption DEF HeldByCalls, HeldByFeeder

\* A step of a thread moves locks between itself and nobody.
LEMMA HeldAfter ==
    ASSUME PyShapes, HeldByCalls, HeldByFeeder, NEW t \in PyThreads,
           \A u \in PyThreads : u # t => pyCalls'[u] = pyCalls[u],
           \A l \in {"gil", "follow", "control"} :
             pyLocks'[l] = pyLocks[l] \/ (pyLocks'[l] \in {t, NobodyHolds} /\ pyLocks[l] \in {t, NobodyHolds}),
           pyLocks'["gil"] = t <=> HoldsGil(t)', pyLocks'["follow"] = t <=> HoldsFollow(t)',
           pyLocks'["control"] = t <=> HoldsControl(t)',
           feeder'.at \in {"checking", "publishing", "setting"} <=> feeder.at \in {"checking", "publishing", "setting"},
           feeder'.at = "setting" <=> feeder.at = "setting"
    PROVE  HeldByCalls' /\ HeldByFeeder'
<1>1. HeldByFeeder'
  BY PyArmAssumption DEF HeldByFeeder
<1>2. ASSUME NEW u \in PyThreads
      PROVE  /\ pyLocks'["gil"] = u <=> HoldsGil(u)'
             /\ pyLocks'["follow"] = u <=> HoldsFollow(u)'
             /\ pyLocks'["control"] = u <=> HoldsControl(u)'
  <2>1. CASE u = t
    BY <2>1
  <2>2. CASE u # t
    <3>1. pyCalls'[u] = pyCalls[u]
      BY <2>2
    <3>2. (HoldsGil(u)' <=> HoldsGil(u)) /\ (HoldsFollow(u)' <=> HoldsFollow(u)) /\ (HoldsControl(u)' <=> HoldsControl(u))
      BY <3>1 DEF HoldsGil, HoldsFollow, HoldsControl
    <3>3. \A l \in {"gil", "follow", "control"} : pyLocks'[l] = u <=> pyLocks[l] = u
      BY <2>2, PyArmAssumption
    <3>4. /\ pyLocks["gil"] = u <=> HoldsGil(u)
          /\ pyLocks["follow"] = u <=> HoldsFollow(u)
          /\ pyLocks["control"] = u <=> HoldsControl(u)
      BY DEF HeldByCalls
    <3> QED
      BY <3>2, <3>3, <3>4
  <2> QED
    BY <2>1, <2>2
<1> QED
  BY <1>1, <1>2 DEF HeldByCalls

\* Locks that are given back.
LEMMA WithoutIt ==
    ASSUME PyShapes, NEW who, NEW kept, pyLocks' = Without(who, kept)
    PROVE  /\ DOMAIN pyLocks' = {"gil", "follow", "control"}
           /\ \A l \in {"gil", "follow", "control"} :
                pyLocks'[l] = IF pyLocks[l] = who /\ l \notin kept THEN NobodyHolds ELSE pyLocks[l]
  BY DEF PyShapes, Without

\* A lock that is taken was nobody's.
LEMMA TakesIt ==
    ASSUME PyShapes, NEW name \in {"gil", "follow", "control"}, NEW who, Takes(name, who)
    PROVE  /\ DOMAIN pyLocks' = {"gil", "follow", "control"} /\ pyLocks[name] = NobodyHolds /\ pyLocks'[name] = who
           /\ \A l \in {"gil", "follow", "control"} : l # name => pyLocks'[l] = pyLocks[l]
  BY DEF PyShapes, Takes

\* What leaves the chunk and the loop's target alone.
LEMMA ChunkStays ==
    ASSUME PyArmInv, UNCHANGED <<chunk, aim>>, pyNow' \in Nat, pyNow' >= pyNow, Publishes' <=> Publishes
    PROVE  AimIsOfTheChunk'
<1>1. PyShapes /\ AimIsOfTheChunk /\ UNCHANGED <<chunk, aim>>
  BY DEF PyArmInv
<1>2. Fed' = Fed
  BY <1>1 DEF Fed
<1>3. Publishes => pyNow' >= DueAt(chunk, chunk.next - 1)
  <2>1. ASSUME Publishes PROVE pyNow' >= DueAt(chunk, chunk.next - 1)
    <3> DEFINE d == DueAt(chunk, chunk.next - 1)
    <3>1. pyNow >= d
      BY <1>1, <2>1 DEF AimIsOfTheChunk
    <3>2. d \in Int
      BY <1>1 DEF PyShapes, DueAt
    <3> HIDE DEF d
    <3>3. pyNow' >= d
      BY <1>1, <3>1, <3>2 DEF PyShapes
    <3> QED
      BY <3>3 DEF d
  <2> QED
    BY <2>1
<1> QED
  BY <1>1, <1>2, <1>3 DEF AimIsOfTheChunk, DueAt

\* A step of a thread that leaves the chunk and the worker alone.
LEMMA ThreadAlone ==
    ASSUME PyArmInv, NEW t \in PyThreads, UNCHANGED <<chunk, feeder, aim, pyNow>>,
           DOMAIN pyLocks' = {"gil", "follow", "control"},
           \A u \in PyThreads : u # t => pyCalls'[u] = pyCalls[u], DOMAIN pyCalls' = PyThreads,
           DOMAIN pyCalls'[t] = {"op", "taken", "at", "chunk"}, pyCalls'[t].taken \in 0..3,
           \/ pyCalls'[t].at \in {"python", "joining", "returning"}
           \/ pyCalls'[t].at = "locking" /\ pyCalls'[t].op \in {"move", "look", "stop", "follow"},
           pyCalls'[t].at = "locking" /\ pyCalls'[t].op = "follow" => pyCalls'[t].chunk \in PyChunks,
           pyCalls[t].at # "notifying",
           \A l \in {"gil", "follow", "control"} :
             pyLocks'[l] = pyLocks[l] \/ (pyLocks'[l] \in {t, NobodyHolds} /\ pyLocks[l] \in {t, NobodyHolds}),
           pyLocks'["gil"] = t <=> HoldsGil(t)', pyLocks'["follow"] = t <=> HoldsFollow(t)',
           pyLocks'["control"] = t <=> HoldsControl(t)',
           DOMAIN control' = {"handle", "running", "takers"}, control'.handle <=> control.handle, control'.takers = control.takers
    PROVE  PyArmInv'
<1>1. PyShapes /\ HeldByCalls /\ HeldByFeeder /\ NeverSleepsPastARow /\ StopIsFinal
  BY DEF PyArmInv
<1>2. PyShapes'
  <2>1. \A u \in PyThreads :
          /\ DOMAIN pyCalls'[u] = {"op", "taken", "at", "chunk"} /\ pyCalls'[u].taken \in 0..3
          /\ \/ pyCalls'[u].at \in {"python", "joining", "returning"}
             \/ pyCalls'[u].at = "locking" /\ pyCalls'[u].op \in {"move", "look", "stop", "follow"}
             \/ pyCalls'[u].at = "notifying" /\ pyCalls'[u].op \in {"follow", "stop", "joining"}
          /\ pyCalls'[u].at = "locking" /\ pyCalls'[u].op = "follow" => pyCalls'[u].chunk \in PyChunks
    <3> TAKE u \in PyThreads
    <3>1. CASE u = t
      BY <3>1
    <3>2. CASE u # t
      <4>1. pyCalls'[u] = pyCalls[u]
        BY <3>2
      <4> QED
        BY <1>1, <4>1 DEF PyShapes
    <3> QED
      BY <3>1, <3>2
  <2> QED
    BY <1>1, <2>1 DEF PyShapes
<1>3. HeldByCalls' /\ HeldByFeeder'
  BY <1>1, HeldAfter
<1>4. AimIsOfTheChunk'
  <2>1. pyNow' \in Nat /\ pyNow' >= pyNow /\ (Publishes' <=> Publishes)
    BY <1>1 DEF PyShapes, Publishes
  <2> QED
    BY <2>1, ChunkStays
<1>5. NeverSleepsPastARow'
  <2>1. \A u \in PyThreads : pyCalls[u].at = "notifying" => pyCalls'[u].at = "notifying"
    OBVIOUS
  <2> QED
    BY <1>1, <2>1 DEF NeverSleepsPastARow
<1>6. StopIsFinal'
  BY <1>1 DEF StopIsFinal
<1> QED
  BY <1>2, <1>3, <1>4, <1>5, <1>6 DEF PyArmInv

\* Each step of a thread that leaves the chunk alone.
LEMMA ThreadSteps ==
    ASSUME PyArmInv, NEW t \in PyThreads
    PROVE  /\ \A op \in {"move", "look", "stop"} : PyCall(t, op, <<>>) => PyArmInv'
           /\ \A c \in PyChunks : PyCall(t, "follow", c) => PyArmInv'
           /\ TakesNext(t) => PyArmInv'
           /\ Look(t) => PyArmInv'
           /\ Join(t) => PyArmInv'
           /\ GoesBack(t) => PyArmInv'
<1>0. PyShapes /\ HeldByCalls /\ HeldByFeeder /\ NeverSleepsPastARow /\ StopIsFinal
  BY DEF PyArmInv
<1>a. /\ DOMAIN pyLocks = {"gil", "follow", "control"} /\ DOMAIN pyCalls = PyThreads
      /\ DOMAIN pyCalls[t] = {"op", "taken", "at", "chunk"} /\ pyCalls[t].taken \in 0..3
      /\ DOMAIN control = {"handle", "running", "takers"}
      /\ \A u \in PyThreads : pyLocks["gil"] = u <=> HoldsGil(u)
      /\ \A u \in PyThreads : pyLocks["follow"] = u <=> HoldsFollow(u)
      /\ \A u \in PyThreads : pyLocks["control"] = u <=> HoldsControl(u)
  BY <1>0 DEF PyShapes, HeldByCalls
<1>1. ASSUME NEW op, NEW c, PyCall(t, op, c), op \in {"move", "look", "stop"} \/ (op = "follow" /\ c \in PyChunks)
      PROVE  PyArmInv'
  <2> DEFINE r == [op |-> op, taken |-> 0, at |-> "locking", chunk |-> c]
  <2>1. /\ pyCalls[t].at = "python" /\ pyCalls' = [pyCalls EXCEPT ![t] = r]
        /\ UNCHANGED <<pyLocks, chunk, feeder, control, aim, pyNow>>
    BY <1>1 DEF PyCall
  <2>2. /\ DOMAIN r = {"op", "taken", "at", "chunk"} /\ r.op = op /\ r.taken = 0 /\ r.at = "locking" /\ r.chunk = c
    OBVIOUS
  <2> HIDE DEF r
  <2>3. pyCalls'[t] = r /\ DOMAIN pyCalls' = PyThreads /\ \A u \in PyThreads : u # t => pyCalls'[u] = pyCalls[u]
    BY <1>a, <2>1
  <2>4. /\ ~HoldsGil(t) /\ ~HoldsFollow(t) /\ ~HoldsControl(t)
        /\ ~HoldsGil(t)' /\ ~HoldsFollow(t)' /\ ~HoldsControl(t)'
    BY <2>1, <2>2, <2>3 DEF HoldsGil, HoldsFollow, HoldsControl
  <2>5. /\ pyLocks'["gil"] = t <=> HoldsGil(t)'
        /\ pyLocks'["follow"] = t <=> HoldsFollow(t)'
        /\ pyLocks'["control"] = t <=> HoldsControl(t)'
    BY <1>a, <2>1, <2>4
  <2>6. /\ r.at = "locking" /\ r.op \in {"move", "look", "stop", "follow"}
        /\ r.at = "locking" /\ r.op = "follow" => r.chunk \in PyChunks
    BY <1>1, <2>2
  <2> QED
    BY <1>a, <2>1, <2>2, <2>3, <2>5, <2>6, ThreadAlone
<1>2. ASSUME TakesNext(t) PROVE PyArmInv'
  <2> DEFINE op == pyCalls[t].op
             n == pyCalls[t].taken
             l == LocksOf(op)[n + 1]
  <2>1. /\ pyCalls[t].at = "locking" /\ n < Len(LocksOf(op)) /\ Takes(l, t)
        /\ pyCalls' = [pyCalls EXCEPT ![t].taken = @ + 1] /\ UNCHANGED <<chunk, feeder, control, aim, pyNow>>
    BY <1>2 DEF TakesNext
  <2>2. op \in {"move", "look", "stop", "follow"} /\ n \in 0..3 /\ (op = "follow" => pyCalls[t].chunk \in PyChunks)
    BY <1>0, <2>1 DEF PyShapes
  <2>3. \/ op = "stop" /\ ((n = 0 /\ l = "follow") \/ (n = 1 /\ l = "control"))
        \/ op = "look" /\ ((n = 0 /\ l = "gil") \/ (n = 1 /\ l = "control"))
        \/ op \in {"move", "follow"} /\ ((n = 0 /\ l = "gil") \/ (n = 1 /\ l = "follow") \/ (n = 2 /\ l = "control"))
    BY <2>1, <2>2, NextLock
  <2> HIDE DEF l
  <2>4. l \in {"gil", "follow", "control"}
    BY <2>3
  <2>5. /\ DOMAIN pyLocks' = {"gil", "follow", "control"} /\ pyLocks[l] = NobodyHolds /\ pyLocks'[l] = t
        /\ \A k \in {"gil", "follow", "control"} : k # l => pyLocks'[k] = pyLocks[k]
    BY <1>0, <2>1, <2>4, TakesIt
  <2>6. /\ DOMAIN pyCalls' = PyThreads /\ \A u \in PyThreads : u # t => pyCalls'[u] = pyCalls[u]
        /\ DOMAIN pyCalls'[t] = {"op", "taken", "at", "chunk"} /\ pyCalls'[t].op = op /\ pyCalls'[t].taken = n + 1
        /\ pyCalls'[t].at = "locking" /\ pyCalls'[t].chunk = pyCalls[t].chunk
    BY <1>a, <2>1
  <2>7. /\ pyLocks'["gil"] = t <=> HoldsGil(t)'
        /\ pyLocks'["follow"] = t <=> HoldsFollow(t)'
        /\ pyLocks'["control"] = t <=> HoldsControl(t)'
    <3>1. /\ pyLocks["gil"] = t <=> (op # "stop" /\ n >= 1)
          /\ pyLocks["follow"] = t <=> ((op = "stop" /\ n >= 1) \/ (op \in {"move", "follow"} /\ n >= 2))
          /\ pyLocks["control"] = t <=> ((op \in {"stop", "look"} /\ n >= 2) \/ (op \in {"move", "follow"} /\ n >= 3))
      <4>1. pyCalls[t].at = "locking" /\ n \in 0..3 /\ op \in {"move", "look", "stop", "follow"}
        BY <2>1, <2>2
      <4>2. /\ HoldsGil(t) <=> (op # "stop" /\ n >= 1)
            /\ HoldsFollow(t) <=> ((op = "stop" /\ n >= 1) \/ (op \in {"move", "follow"} /\ n >= 2))
            /\ HoldsControl(t) <=> ((op \in {"stop", "look"} /\ n >= 2) \/ (op \in {"move", "follow"} /\ n >= 3))
        BY <4>1 DEF HoldsGil, HoldsFollow, HoldsControl
      <4> QED
        BY <1>a, <4>2
    <3>2. /\ HoldsGil(t)' <=> (op # "stop" /\ n + 1 >= 1)
          /\ HoldsFollow(t)' <=> ((op = "stop" /\ n + 1 >= 1) \/ (op \in {"move", "follow"} /\ n + 1 >= 2))
          /\ HoldsControl(t)' <=> ((op \in {"stop", "look"} /\ n + 1 >= 2) \/ (op \in {"move", "follow"} /\ n + 1 >= 3))
      <4> DEFINE r == pyCalls'[t]
      <4>1. r.at = "locking" /\ r.taken = n + 1 /\ r.op = op
        BY <2>6
      <4> HIDE DEF op, n
      <4> QED
        BY <4>1 DEF HoldsGil, HoldsFollow, HoldsControl
    <3> HIDE DEF op, n
    <3> QED
      BY <2>2, <2>3, <2>5, <3>1, <3>2
  <2>8. \A k \in {"gil", "follow", "control"} :
          pyLocks'[k] = pyLocks[k] \/ (pyLocks'[k] \in {t, NobodyHolds} /\ pyLocks[k] \in {t, NobodyHolds})
    BY <2>5
  <2>9. pyCalls'[t].taken \in 0..3
    BY <2>2, <2>3, <2>6
  <2> QED
    BY <1>a, <2>1, <2>2, <2>5, <2>6, <2>7, <2>8, <2>9, ThreadAlone
\* A call that is over: its thread holds nothing.
<1>3. ASSUME pyCalls' = [pyCalls EXCEPT ![t] = Outside], UNCHANGED <<chunk, feeder, control, aim, pyNow>>,
             pyCalls[t].at # "notifying",
             CallReturns(t) \/ (UNCHANGED pyLocks /\ pyCalls[t].at = "returning")
      PROVE  PyArmInv'
  <2>1. /\ DOMAIN pyCalls' = PyThreads /\ \A u \in PyThreads : u # t => pyCalls'[u] = pyCalls[u]
        /\ DOMAIN pyCalls'[t] = {"op", "taken", "at", "chunk"} /\ pyCalls'[t].op = "none" /\ pyCalls'[t].taken = 0
        /\ pyCalls'[t].at = "python"
    BY <1>a, <1>3 DEF Outside
  <2>2. ~HoldsGil(t)' /\ ~HoldsFollow(t)' /\ ~HoldsControl(t)'
    BY <2>1 DEF HoldsGil, HoldsFollow, HoldsControl
  <2>3. /\ DOMAIN pyLocks' = {"gil", "follow", "control"}
        /\ \A l \in {"gil", "follow", "control"} :
             /\ pyLocks'[l] = pyLocks[l] \/ (pyLocks'[l] \in {t, NobodyHolds} /\ pyLocks[l] \in {t, NobodyHolds})
             /\ pyLocks'[l] # t
    <3>1. CASE CallReturns(t)
      <4>1. pyLocks' = Without(t, {})
        BY <3>1 DEF CallReturns
      <4> QED
        BY <1>0, <4>1, WithoutIt, PyArmAssumption
    <3>2. CASE UNCHANGED pyLocks /\ pyCalls[t].at = "returning"
      <4>1. ~HoldsGil(t) /\ ~HoldsFollow(t) /\ ~HoldsControl(t)
        BY <3>2 DEF HoldsGil, HoldsFollow, HoldsControl
      <4> QED
        BY <1>a, <3>2, <4>1
    <3> QED
      BY <1>3, <3>1, <3>2
  <2> QED
    BY <1>a, <1>3, <2>1, <2>2, <2>3, ThreadAlone
<1>4. ASSUME Look(t) PROVE PyArmInv'
  BY <1>3, <1>4 DEF Look, CallReturns, Holds
<1>5. ASSUME GoesBack(t) PROVE PyArmInv'
  BY <1>3, <1>5 DEF GoesBack
<1>6. ASSUME Join(t) PROVE PyArmInv'
  <2>1. /\ pyCalls[t].at = "joining" /\ control' = [control EXCEPT !.running = FALSE]
        /\ pyCalls' = [pyCalls EXCEPT ![t].at = "returning"] /\ UNCHANGED <<pyLocks, chunk, feeder, aim, pyNow>>
    BY <1>6 DEF Join
  <2>2. /\ DOMAIN pyCalls' = PyThreads /\ \A u \in PyThreads : u # t => pyCalls'[u] = pyCalls[u]
        /\ DOMAIN pyCalls'[t] = {"op", "taken", "at", "chunk"} /\ pyCalls'[t].taken = pyCalls[t].taken
        /\ pyCalls'[t].at = "returning"
    BY <1>a, <2>1
  <2>3. /\ ~HoldsGil(t) /\ ~HoldsFollow(t) /\ ~HoldsControl(t)
        /\ ~HoldsGil(t)' /\ ~HoldsFollow(t)' /\ ~HoldsControl(t)'
    BY <2>1, <2>2 DEF HoldsGil, HoldsFollow, HoldsControl
  <2>4. /\ pyLocks'["gil"] = t <=> HoldsGil(t)'
        /\ pyLocks'["follow"] = t <=> HoldsFollow(t)'
        /\ pyLocks'["control"] = t <=> HoldsControl(t)'
    BY <1>a, <2>1, <2>3
  <2>5. DOMAIN control' = {"handle", "running", "takers"} /\ (control'.handle <=> control.handle) /\ control'.takers = control.takers
    BY <1>a, <2>1
  <2> QED
    BY <1>a, <2>1, <2>2, <2>4, <2>5, ThreadAlone
<1> QED
  BY <1>1, <1>2, <1>4, <1>5, <1>6

\* A step that changes the chunk, with its lock: the worker is not publishing.
LEMMA ChunkSteps ==
    ASSUME PyArmInv, NEW t \in PyThreads
    PROVE  /\ Update(t) => PyArmInv'
           /\ Follow(t) => PyArmInv'
           /\ Take(t) => PyArmInv'
           /\ Notify(t) => PyArmInv'
<1>0. PyShapes /\ HeldByCalls /\ HeldByFeeder /\ AimIsOfTheChunk /\ NeverSleepsPastARow /\ StopIsFinal
  BY DEF PyArmInv
<1>a. /\ DOMAIN pyLocks = {"gil", "follow", "control"} /\ DOMAIN pyCalls = PyThreads
      /\ DOMAIN pyCalls[t] = {"op", "taken", "at", "chunk"} /\ pyCalls[t].taken \in 0..3
      /\ DOMAIN control = {"handle", "running", "takers"}
      /\ DOMAIN chunk = {"rows", "next", "dt", "started", "ticket", "quit"}
      /\ chunk.next \in Nat /\ chunk.dt \in Nat /\ chunk.started \in Nat /\ chunk.ticket \in Nat
      /\ aim.ticket \in Nat /\ aim.row \in Nat /\ pyNow \in Nat /\ aim.ticket <= chunk.ticket
  BY <1>0 DEF PyShapes, AimIsOfTheChunk
<1>b. /\ \A u \in PyThreads : pyLocks["gil"] = u <=> HoldsGil(u)
      /\ \A u \in PyThreads : pyLocks["follow"] = u <=> HoldsFollow(u)
      /\ \A u \in PyThreads : pyLocks["control"] = u <=> HoldsControl(u)
  BY <1>0 DEF HeldByCalls
\* The shapes, once what a step does to each is known.
<1>1. ASSUME DOMAIN pyLocks' = {"gil", "follow", "control"}, DOMAIN feeder' = {"at", "until"},
             DOMAIN control' = {"handle", "running", "takers"}, DOMAIN aim' = {"ticket", "row"},
             aim'.ticket \in Nat, aim'.row \in Nat, pyNow' = pyNow,
             DOMAIN chunk' = {"rows", "next", "dt", "started", "ticket", "quit"}, chunk'.rows \in Seq({"good", "bad"}),
             chunk'.next \in Nat, chunk'.dt \in Nat, chunk'.started \in Nat, chunk'.ticket \in Nat,
             DOMAIN pyCalls' = PyThreads, \A u \in PyThreads : u # t => pyCalls'[u] = pyCalls[u],
             DOMAIN pyCalls'[t] = {"op", "taken", "at", "chunk"}, pyCalls'[t].taken \in 0..3,
             \/ pyCalls'[t].at \in {"python", "joining", "returning"}
             \/ pyCalls'[t].at = "notifying" /\ pyCalls'[t].op \in {"follow", "stop", "joining"}
      PROVE  PyShapes'
  <2>1. \A u \in PyThreads :
          /\ DOMAIN pyCalls'[u] = {"op", "taken", "at", "chunk"} /\ pyCalls'[u].taken \in 0..3
          /\ \/ pyCalls'[u].at \in {"python", "joining", "returning"}
             \/ pyCalls'[u].at = "locking" /\ pyCalls'[u].op \in {"move", "look", "stop", "follow"}
             \/ pyCalls'[u].at = "notifying" /\ pyCalls'[u].op \in {"follow", "stop", "joining"}
          /\ pyCalls'[u].at = "locking" /\ pyCalls'[u].op = "follow" => pyCalls'[u].chunk \in PyChunks
    <3> TAKE u \in PyThreads
    <3>1. CASE u = t
      BY <1>1, <3>1
    <3>2. CASE u # t
      <4>1. pyCalls'[u] = pyCalls[u]
        BY <1>1, <3>2
      <4> QED
        BY <1>0, <4>1 DEF PyShapes
    <3> QED
      BY <3>1, <3>2
  <2> QED
    BY <1>0, <1>1, <2>1 DEF PyShapes
\* What the end of a call does.
<1>2. ASSUME CallReturns(t)
      PROVE  /\ DOMAIN pyCalls' = PyThreads /\ \A u \in PyThreads : u # t => pyCalls'[u] = pyCalls[u]
             /\ DOMAIN pyCalls'[t] = {"op", "taken", "at", "chunk"} /\ pyCalls'[t].taken \in 0..3
             /\ pyCalls'[t].at = "python"
             /\ DOMAIN pyLocks' = {"gil", "follow", "control"}
             /\ \A l \in {"gil", "follow", "control"} :
                  pyLocks'[l] = pyLocks[l] \/ (pyLocks'[l] \in {t, NobodyHolds} /\ pyLocks[l] \in {t, NobodyHolds})
             /\ pyLocks'["gil"] = t <=> HoldsGil(t)'
             /\ pyLocks'["follow"] = t <=> HoldsFollow(t)'
             /\ pyLocks'["control"] = t <=> HoldsControl(t)'
  <2>1. pyCalls' = [pyCalls EXCEPT ![t] = Outside] /\ pyLocks' = Without(t, {})
    BY <1>2 DEF CallReturns
  <2>2. /\ DOMAIN pyCalls' = PyThreads /\ \A u \in PyThreads : u # t => pyCalls'[u] = pyCalls[u]
        /\ DOMAIN pyCalls'[t] = {"op", "taken", "at", "chunk"} /\ pyCalls'[t].taken \in 0..3
        /\ pyCalls'[t].at = "python"
    BY <1>a, <2>1 DEF Outside
  <2>3. ~HoldsGil(t)' /\ ~HoldsFollow(t)' /\ ~HoldsControl(t)'
    BY <2>2 DEF HoldsGil, HoldsFollow, HoldsControl
  <2>4. /\ DOMAIN pyLocks' = {"gil", "follow", "control"}
        /\ \A l \in {"gil", "follow", "control"} :
             pyLocks'[l] = IF pyLocks[l] = t THEN NobodyHolds ELSE pyLocks[l]
    BY <1>0, <2>1, WithoutIt
  <2> QED
    BY <2>2, <2>3, <2>4, PyArmAssumption
<1>3. ASSUME Update(t) PROVE PyArmInv'
  <2>1. Holds(t, "move") /\ CallReturns(t) /\ UNCHANGED <<feeder, control, pyNow>>
    BY <1>3 DEF Update
  <2>2. ~Publishes /\ feeder.at \notin {"checking", "publishing", "setting"}
    BY <1>0, <2>1, ChunkIsLocked DEF Publishes
  <2> DEFINE c == [Clear(chunk) EXCEPT !.ticket = @ + 1]
  <2>3. /\ chunk' = c
        /\ aim' = aim \/ aim' = [ticket |-> c.ticket, row |-> 0]
    BY <1>3 DEF Update
  <2>4. /\ DOMAIN c = {"rows", "next", "dt", "started", "ticket", "quit"} /\ c.rows = <<>> /\ c.next = chunk.next
        /\ c.dt = chunk.dt /\ c.started = chunk.started /\ c.ticket = chunk.ticket + 1
    BY <1>a DEF Clear
  <2>5. c.quit <=> chunk.quit
    BY <1>a DEF Clear
  <2> HIDE DEF c
  <2>6. DOMAIN aim' = {"ticket", "row"} /\ aim'.ticket \in Nat /\ aim'.row \in Nat /\ aim'.ticket <= c.ticket
    BY <1>0, <1>a, <2>3, <2>4 DEF PyShapes
  <2>7. PyShapes'
    BY <1>0, <1>1, <1>2, <1>a, <2>1, <2>3, <2>4, <2>6 DEF PyShapes
  <2>8. HeldByCalls' /\ HeldByFeeder'
    BY <1>0, <1>2, <2>1, HeldAfter
  <2>9. AimIsOfTheChunk'
    BY <2>1, <2>2, <2>3, <2>4, <2>6 DEF AimIsOfTheChunk, Publishes
  <2>10. NeverSleepsPastARow' /\ StopIsFinal'
    BY <1>0, <1>a, <2>1, <2>3, <2>4, <2>5 DEF NeverSleepsPastARow, StopIsFinal
  <2> QED
    BY <2>7, <2>8, <2>9, <2>10 DEF PyArmInv
<1>4. ASSUME Follow(t) PROVE PyArmInv'
  <2>1. Holds(t, "follow") /\ UNCHANGED <<feeder, control, aim, pyNow>>
    BY <1>4 DEF Follow
  <2>2. ~Publishes /\ feeder.at \notin {"checking", "publishing", "setting"}
    BY <1>0, <2>1, ChunkIsLocked DEF Publishes
  <2>3. CASE ~control.handle
    <3>1. CallReturns(t) /\ UNCHANGED chunk
      BY <1>4, <2>3 DEF Follow, MayFollow
    <3>2. PyShapes'
      BY <1>0, <1>1, <1>2, <2>1, <3>1 DEF PyShapes
    <3>3. HeldByCalls' /\ HeldByFeeder'
      BY <1>0, <1>2, <2>1, <3>1, HeldAfter
    <3>4. AimIsOfTheChunk' /\ StopIsFinal'
      BY <1>0, <2>1, <3>1 DEF AimIsOfTheChunk, StopIsFinal, Fed, Publishes, DueAt
    <3>5. NeverSleepsPastARow'
      <4>1. \A u \in PyThreads : pyCalls[u].at = "notifying" => pyCalls'[u].at = "notifying"
        BY <1>2, <2>1, <3>1 DEF Holds
      <4> QED
        BY <1>0, <2>1, <3>1, <4>1 DEF NeverSleepsPastARow
    <3> QED
      BY <3>2, <3>3, <3>4, <3>5 DEF PyArmInv
  <2>4. CASE control.handle
    <3> DEFINE r == pyCalls[t].chunk
               c == [chunk EXCEPT !.rows = r.rows, !.next = 0, !.started = pyNow, !.dt = r.dt, !.ticket = @ + 1]
    <3>1. chunk' = c /\ pyLocks' = Without(t, {"gil"}) /\ pyCalls' = [pyCalls EXCEPT ![t].at = "notifying"]
      BY <1>4, <2>4 DEF Follow, MayFollow
    <3>2. r \in PyChunks
      BY <1>0, <2>1 DEF PyShapes, Holds
    <3>3. r.rows \in Seq({"good", "bad"}) /\ r.dt \in Nat
      BY <3>2, PyArmAssumption
    <3>4. /\ DOMAIN c = {"rows", "next", "dt", "started", "ticket", "quit"} /\ c.rows = r.rows /\ c.next = 0
          /\ c.dt = r.dt /\ c.started = pyNow /\ c.ticket = chunk.ticket + 1
      BY <1>a
    <3> HIDE DEF c, r
    <3>5. /\ DOMAIN pyCalls' = PyThreads /\ \A u \in PyThreads : u # t => pyCalls'[u] = pyCalls[u]
          /\ DOMAIN pyCalls'[t] = {"op", "taken", "at", "chunk"} /\ pyCalls'[t].taken = pyCalls[t].taken
          /\ pyCalls'[t].at = "notifying" /\ pyCalls'[t].op = "follow"
      BY <1>a, <2>1, <3>1 DEF Holds
    <3>6. /\ DOMAIN pyLocks' = {"gil", "follow", "control"}
          /\ \A l \in {"gil", "follow", "control"} :
               pyLocks'[l] = IF pyLocks[l] = t /\ l \notin {"gil"} THEN NobodyHolds ELSE pyLocks[l]
      BY <1>0, <3>1, WithoutIt
    <3>7. HoldsGil(t)
      <4>1. pyCalls[t].at = "locking" /\ pyCalls[t].op = "follow" /\ pyCalls[t].taken = 3
        BY <2>1, LocksInOrder DEF Holds
      <4> QED
        BY <4>1 DEF HoldsGil
    <3>8. HoldsGil(t)' /\ ~HoldsFollow(t)' /\ ~HoldsControl(t)'
      BY <3>5 DEF HoldsGil, HoldsFollow, HoldsControl
    <3>9. /\ pyLocks'["gil"] = t <=> HoldsGil(t)'
          /\ pyLocks'["follow"] = t <=> HoldsFollow(t)'
          /\ pyLocks'["control"] = t <=> HoldsControl(t)'
      BY <1>b, <3>6, <3>7, <3>8, PyArmAssumption
    <3>10. \A l \in {"gil", "follow", "control"} :
             pyLocks'[l] = pyLocks[l] \/ (pyLocks'[l] \in {t, NobodyHolds} /\ pyLocks[l] \in {t, NobodyHolds})
      BY <3>6
    <3>11. PyShapes'
      BY <1>0, <1>1, <1>a, <2>1, <3>1, <3>3, <3>4, <3>5, <3>6 DEF PyShapes
    <3>12. HeldByCalls' /\ HeldByFeeder'
      BY <1>0, <2>1, <3>5, <3>9, <3>10, HeldAfter
    <3>13. AimIsOfTheChunk'
      BY <1>a, <2>1, <2>2, <3>1, <3>4 DEF AimIsOfTheChunk, Publishes, Fed
    <3>14. NeverSleepsPastARow' /\ StopIsFinal'
      BY <1>0, <2>1, <2>4, <3>5 DEF NeverSleepsPastARow, StopIsFinal
    <3> QED
      BY <3>11, <3>12, <3>13, <3>14 DEF PyArmInv
  <2> QED
    BY <2>3, <2>4
<1>5. ASSUME Take(t) PROVE PyArmInv'
  <2>1. /\ Holds(t, "stop") /\ pyLocks' = Without(t, {}) /\ UNCHANGED <<feeder, aim, pyNow>>
        /\ pyCalls' = [pyCalls EXCEPT ![t].at = "notifying", ![t].op = IF control.handle THEN "joining" ELSE "stop"]
    BY <1>5 DEF Take
  <2>2. ~Publishes /\ feeder.at \notin {"checking", "publishing", "setting"}
    BY <1>0, <2>1, ChunkIsLocked DEF Publishes
  <2>3. /\ DOMAIN chunk' = {"rows", "next", "dt", "started", "ticket", "quit"} /\ chunk'.rows = <<>>
        /\ chunk'.next = chunk.next /\ chunk'.dt = chunk.dt /\ chunk'.started = chunk.started
        /\ chunk'.ticket = chunk.ticket /\ chunk'.quit
    BY <1>5, <1>a DEF Take, Clear
  <2>4. DOMAIN control' = {"handle", "running", "takers"} /\ ~control'.handle
    BY <1>5, <1>a DEF Take
  <2>5. control'.takers = 1
    <3>1. control'.takers = control.takers + (IF control.handle THEN 1 ELSE 0)
      BY <1>5, <1>a DEF Take
    <3> QED
      BY <1>0, <3>1 DEF StopIsFinal
  <2>6. /\ DOMAIN pyCalls' = PyThreads /\ \A u \in PyThreads : u # t => pyCalls'[u] = pyCalls[u]
        /\ DOMAIN pyCalls'[t] = {"op", "taken", "at", "chunk"} /\ pyCalls'[t].taken = pyCalls[t].taken
        /\ pyCalls'[t].at = "notifying" /\ pyCalls'[t].op = IF control.handle THEN "joining" ELSE "stop"
    BY <1>a, <2>1
  <2>7. pyCalls'[t].op \in {"joining", "stop"}
    BY <2>6
  <2>8. ~HoldsGil(t)' /\ ~HoldsFollow(t)' /\ ~HoldsControl(t)'
    BY <2>6, <2>7 DEF HoldsGil, HoldsFollow, HoldsControl
  <2>9. /\ DOMAIN pyLocks' = {"gil", "follow", "control"}
        /\ \A l \in {"gil", "follow", "control"} : pyLocks'[l] = IF pyLocks[l] = t THEN NobodyHolds ELSE pyLocks[l]
    BY <1>0, <2>1, WithoutIt
  <2>10. /\ \A l \in {"gil", "follow", "control"} :
              pyLocks'[l] = pyLocks[l] \/ (pyLocks'[l] \in {t, NobodyHolds} /\ pyLocks[l] \in {t, NobodyHolds})
         /\ \A l \in {"gil", "follow", "control"} : pyLocks'[l] # t
    BY <2>9, PyArmAssumption
  <2>11. PyShapes'
    <3>1. chunk'.rows \in Seq({"good", "bad"})
      BY <2>3
    <3> QED
      BY <1>0, <1>1, <1>a, <2>1, <2>3, <2>4, <2>6, <2>7, <2>9, <3>1 DEF PyShapes
  <2>12. HeldByCalls' /\ HeldByFeeder'
    BY <1>0, <2>1, <2>6, <2>8, <2>10, HeldAfter
  <2>13. AimIsOfTheChunk'
    BY <1>a, <2>1, <2>2, <2>3 DEF AimIsOfTheChunk, Publishes
  <2>14. NeverSleepsPastARow' /\ StopIsFinal'
    BY <1>a, <2>3, <2>4, <2>5 DEF NeverSleepsPastARow, StopIsFinal
  <2> QED
    BY <2>11, <2>12, <2>13, <2>14 DEF PyArmInv
<1>6. ASSUME Notify(t) PROVE PyArmInv'
  <2>1. /\ pyCalls[t].at = "notifying" /\ UNCHANGED <<chunk, control, aim, pyNow>>
        /\ feeder' = IF feeder.at \in {"asleep", "dozing"} THEN [feeder EXCEPT !.at = "locking"] ELSE feeder
    BY <1>6 DEF Notify, Awoken
  <2>2. /\ DOMAIN feeder' = {"at", "until"} /\ feeder'.at \notin {"asleep", "dozing"}
        /\ feeder'.at = feeder.at \/ (feeder'.at = "locking" /\ feeder.at \in {"asleep", "dozing"})
    BY <1>0, <2>1 DEF PyShapes
  <2>3. /\ DOMAIN pyCalls' = PyThreads /\ \A u \in PyThreads : u # t => pyCalls'[u] = pyCalls[u]
        /\ DOMAIN pyCalls'[t] = {"op", "taken", "at", "chunk"} /\ pyCalls'[t].taken \in 0..3
        /\ pyCalls'[t].at \in {"python", "joining", "returning"}
        /\ DOMAIN pyLocks' = {"gil", "follow", "control"}
        /\ \A l \in {"gil", "follow", "control"} :
             pyLocks'[l] = pyLocks[l] \/ (pyLocks'[l] \in {t, NobodyHolds} /\ pyLocks[l] \in {t, NobodyHolds})
        /\ pyLocks'["gil"] = t <=> HoldsGil(t)'
        /\ pyLocks'["follow"] = t <=> HoldsFollow(t)'
        /\ pyLocks'["control"] = t <=> HoldsControl(t)'
    <3>1. CASE pyCalls[t].op = "follow"
      BY <1>2, <1>6, <3>1 DEF Notify
    <3>2. CASE pyCalls[t].op # "follow"
      <4> DEFINE at == IF pyCalls[t].op = "joining" THEN "joining" ELSE "returning"
      <4>1. pyCalls' = [pyCalls EXCEPT ![t].at = at] /\ UNCHANGED pyLocks
        BY <1>6, <3>2 DEF Notify
      <4>2. at \in {"joining", "returning"}
        OBVIOUS
      <4> HIDE DEF at
      <4>3. /\ DOMAIN pyCalls' = PyThreads /\ \A u \in PyThreads : u # t => pyCalls'[u] = pyCalls[u]
            /\ DOMAIN pyCalls'[t] = {"op", "taken", "at", "chunk"} /\ pyCalls'[t].taken = pyCalls[t].taken
            /\ pyCalls'[t].at = at
        BY <1>a, <4>1
      <4>4. /\ ~HoldsGil(t) /\ ~HoldsFollow(t) /\ ~HoldsControl(t)
            /\ ~HoldsGil(t)' /\ ~HoldsFollow(t)' /\ ~HoldsControl(t)'
        BY <2>1, <3>2, <4>2, <4>3 DEF HoldsGil, HoldsFollow, HoldsControl
      <4> QED
        BY <1>a, <1>b, <4>1, <4>2, <4>3, <4>4
    <3> QED
      BY <3>1, <3>2
  <2>4. PyShapes'
    BY <1>0, <1>1, <2>1, <2>2, <2>3 DEF PyShapes
  <2>5. HeldByCalls' /\ HeldByFeeder'
    <3>1. /\ feeder'.at \in {"checking", "publishing", "setting"} <=> feeder.at \in {"checking", "publishing", "setting"}
          /\ feeder'.at = "setting" <=> feeder.at = "setting"
      BY <2>2
    <3> QED
      BY <1>0, <2>3, <3>1, HeldAfter
  <2>6. AimIsOfTheChunk'
    <3>1. Publishes' <=> Publishes
      BY <2>2 DEF Publishes
    <3> QED
      BY <1>a, <2>1, <3>1, ChunkStays
  <2>7. NeverSleepsPastARow' /\ StopIsFinal'
    BY <1>0, <2>1, <2>2 DEF NeverSleepsPastARow, StopIsFinal
  <2> QED
    BY <2>4, <2>5, <2>6, <2>7 DEF PyArmInv
<1> QED
  BY <1>3, <1>4, <1>5, <1>6

\* Each step of the worker, of the loop and of time.
LEMMA FeederSteps ==
    ASSUME PyArmInv
    PROVE  /\ FeederLocks => PyArmInv'
           /\ FeederChecks => PyArmInv'
           /\ FeederWakes => PyArmInv'
           /\ FeederTakesControl => PyArmInv'
           /\ FeederSets => PyArmInv'
           /\ PyLoopEnds => PyArmInv'
           /\ PyTick => PyArmInv'
<1>0. PyShapes /\ HeldByCalls /\ HeldByFeeder /\ AimIsOfTheChunk /\ NeverSleepsPastARow /\ StopIsFinal
  BY DEF PyArmInv
<1>a. /\ DOMAIN pyLocks = {"gil", "follow", "control"}
      /\ DOMAIN control = {"handle", "running", "takers"} /\ DOMAIN feeder = {"at", "until"}
      /\ DOMAIN chunk = {"rows", "next", "dt", "started", "ticket", "quit"}
      /\ chunk.next \in Nat /\ chunk.dt \in Nat /\ chunk.started \in Nat /\ chunk.ticket \in Nat
      /\ chunk.rows \in Seq({"good", "bad"})
      /\ DOMAIN aim = {"ticket", "row"}
      /\ aim.ticket \in Nat /\ aim.row \in Nat /\ pyNow \in Nat /\ aim.ticket <= chunk.ticket
  BY <1>0 DEF PyShapes, AimIsOfTheChunk
<1>b. /\ pyLocks["gil"] # Feeder
      /\ pyLocks["follow"] = Feeder <=> feeder.at \in {"checking", "publishing", "setting"}
      /\ pyLocks["control"] = Feeder <=> feeder.at = "setting"
  BY <1>0 DEF HeldByFeeder
\* A step of the worker moves locks between itself and nobody.
<1>1. ASSUME UNCHANGED pyCalls,
             \A l \in {"gil", "follow", "control"} :
               pyLocks'[l] = pyLocks[l] \/ (pyLocks'[l] \in {Feeder, NobodyHolds} /\ pyLocks[l] \in {Feeder, NobodyHolds})
      PROVE  HeldByCalls'
  <2>1. \A t \in PyThreads : \A l \in {"gil", "follow", "control"} : pyLocks'[l] = t <=> pyLocks[l] = t
    BY <1>1, PyArmAssumption
  <2>2. \A t \in PyThreads : (HoldsGil(t)' <=> HoldsGil(t)) /\ (HoldsFollow(t)' <=> HoldsFollow(t)) /\ (HoldsControl(t)' <=> HoldsControl(t))
    BY <1>1 DEF HoldsGil, HoldsFollow, HoldsControl
  <2> QED
    BY <1>0, <2>1, <2>2 DEF HeldByCalls
\* The shapes, where the worker changes neither rows but to none, nor the calls.
<1>2. ASSUME UNCHANGED pyCalls, DOMAIN pyLocks' = {"gil", "follow", "control"}, DOMAIN feeder' = {"at", "until"},
             DOMAIN control' = {"handle", "running", "takers"}, DOMAIN aim' = {"ticket", "row"},
             aim'.ticket \in Nat, aim'.row \in Nat, pyNow' \in Nat,
             DOMAIN chunk' = {"rows", "next", "dt", "started", "ticket", "quit"}, chunk'.rows \in {chunk.rows, <<>>},
             chunk'.next \in Nat, chunk'.dt = chunk.dt, chunk'.started = chunk.started, chunk'.ticket = chunk.ticket
      PROVE  PyShapes'
  <2>1. chunk'.rows \in Seq({"good", "bad"})
    <3>1. <<>> \in Seq({"good", "bad"}) /\ chunk.rows \in Seq({"good", "bad"})
      BY <1>a
    <3>2. chunk'.rows = chunk.rows \/ chunk'.rows = <<>>
      BY <1>2
    <3> QED
      BY <3>1, <3>2
  <2> QED
    BY <1>0, <1>2, <2>1 DEF PyShapes
<1>3. ASSUME FeederLocks PROVE PyArmInv'
  <2>1. /\ feeder.at = "locking" /\ Takes("follow", Feeder) /\ feeder' = [feeder EXCEPT !.at = "checking"]
        /\ UNCHANGED <<chunk, pyCalls, control, aim, pyNow>>
    BY <1>3 DEF FeederLocks
  <2>2. DOMAIN feeder' = {"at", "until"} /\ feeder'.at = "checking"
    BY <1>a, <2>1
  <2>3. /\ DOMAIN pyLocks' = {"gil", "follow", "control"} /\ pyLocks["follow"] = NobodyHolds /\ pyLocks'["follow"] = Feeder
        /\ \A l \in {"gil", "follow", "control"} : l # "follow" => pyLocks'[l] = pyLocks[l]
    BY <1>0, <2>1, TakesIt
  <2>4. HeldByCalls'
    BY <1>1, <2>1, <2>3
  <2>5. HeldByFeeder'
    BY <1>b, <2>1, <2>2, <2>3 DEF HeldByFeeder
  <2>6. PyShapes'
    BY <1>2, <1>a, <2>1, <2>2, <2>3
  <2>7. AimIsOfTheChunk'
    <3>1. Publishes' <=> Publishes
      BY <2>1, <2>2 DEF Publishes
    <3> QED
      BY <1>a, <2>1, <3>1, ChunkStays
  <2>8. NeverSleepsPastARow' /\ StopIsFinal'
    BY <1>0, <2>1, <2>2 DEF NeverSleepsPastARow, StopIsFinal
  <2> QED
    BY <2>4, <2>5, <2>6, <2>7, <2>8 DEF PyArmInv
<1>4. ASSUME FeederWakes PROVE PyArmInv'
  <2>1. /\ feeder.at \in {"asleep", "dozing"} /\ feeder' = [feeder EXCEPT !.at = "locking"]
        /\ UNCHANGED <<pyLocks, chunk, pyCalls, control, aim, pyNow>>
    BY <1>4 DEF FeederWakes
  <2>2. DOMAIN feeder' = {"at", "until"} /\ feeder'.at = "locking"
    BY <1>a, <2>1
  <2>3. HeldByCalls' /\ HeldByFeeder'
    BY <1>1, <1>b, <2>1, <2>2 DEF HeldByFeeder
  <2>4. PyShapes'
    BY <1>2, <1>a, <2>1, <2>2
  <2>5. AimIsOfTheChunk'
    <3>1. Publishes' <=> Publishes
      BY <2>1, <2>2 DEF Publishes
    <3> QED
      BY <1>a, <2>1, <3>1, ChunkStays
  <2>6. NeverSleepsPastARow' /\ StopIsFinal'
    BY <1>0, <2>1, <2>2 DEF NeverSleepsPastARow, StopIsFinal
  <2> QED
    BY <2>3, <2>4, <2>5, <2>6 DEF PyArmInv
<1>5. ASSUME FeederTakesControl PROVE PyArmInv'
  <2>1. /\ feeder.at = "publishing" /\ Takes("control", Feeder) /\ feeder' = [feeder EXCEPT !.at = "setting"]
        /\ UNCHANGED <<chunk, pyCalls, control, aim, pyNow>>
    BY <1>5 DEF FeederTakesControl
  <2>2. DOMAIN feeder' = {"at", "until"} /\ feeder'.at = "setting"
    BY <1>a, <2>1
  <2>3. /\ DOMAIN pyLocks' = {"gil", "follow", "control"} /\ pyLocks["control"] = NobodyHolds /\ pyLocks'["control"] = Feeder
        /\ \A l \in {"gil", "follow", "control"} : l # "control" => pyLocks'[l] = pyLocks[l]
    BY <1>0, <2>1, TakesIt
  <2>4. HeldByCalls' /\ HeldByFeeder'
    BY <1>1, <1>b, <2>1, <2>2, <2>3 DEF HeldByFeeder
  <2>5. PyShapes'
    BY <1>2, <1>a, <2>1, <2>2, <2>3
  <2>6. AimIsOfTheChunk'
    <3>1. Publishes' <=> Publishes
      BY <2>1, <2>2 DEF Publishes
    <3> QED
      BY <1>a, <2>1, <3>1, ChunkStays
  <2>7. NeverSleepsPastARow' /\ StopIsFinal'
    BY <1>0, <2>1, <2>2 DEF NeverSleepsPastARow, StopIsFinal
  <2> QED
    BY <2>4, <2>5, <2>6, <2>7 DEF PyArmInv
<1>6. ASSUME FeederChecks PROVE PyArmInv'
  <2>1. feeder.at = "checking" /\ UNCHANGED <<pyCalls, control, aim, pyNow>> /\ ~Publishes
    BY <1>6 DEF FeederChecks, Publishes
  <2> DEFINE due == DueAt(chunk, chunk.next)
  <2>2. due \in Nat
    <3>1. \A d, n \in Nat : d * n \in Nat
      OBVIOUS
    <3> QED
      BY <1>a, <3>1 DEF DueAt
  \* It goes, or waits, and gives the lock back.
  <2>3. ASSUME UNCHANGED chunk, pyLocks' = Without(Feeder, {}), DOMAIN feeder' = {"at", "until"},
               feeder'.at \in {"gone", "asleep", "dozing"},
               feeder'.at = "asleep" => chunk.next >= Len(chunk.rows),
               feeder'.at = "dozing" => feeder'.until = due
        PROVE  PyArmInv'
    <3>1. /\ DOMAIN pyLocks' = {"gil", "follow", "control"}
          /\ \A l \in {"gil", "follow", "control"} : pyLocks'[l] = IF pyLocks[l] = Feeder THEN NobodyHolds ELSE pyLocks[l]
      BY <1>0, <2>3, WithoutIt
    <3>2. HeldByCalls' /\ HeldByFeeder'
      BY <1>1, <1>b, <2>1, <2>3, <3>1, PyArmAssumption DEF HeldByFeeder
    <3>3. PyShapes'
      BY <1>2, <1>a, <2>1, <2>3, <3>1
    <3>4. ~Publishes' /\ AimIsOfTheChunk'
      <4>1. ~Publishes'
        BY <2>3 DEF Publishes
      <4> QED
        BY <1>a, <2>1, <2>3, <4>1, ChunkStays
    <3>5. NeverSleepsPastARow'
      <4>1. Len(chunk.rows) \in Nat
        BY <1>a
      <4>2. chunk.next < Len(chunk.rows) => feeder'.at # "asleep"
        BY <1>a, <2>3, <4>1
      <4>3. feeder'.at = "dozing" => feeder'.until <= due
        BY <2>2, <2>3
      <4>4. DueAt(chunk, chunk.next)' = due
        BY <2>3 DEF DueAt
      <4> HIDE DEF due
      <4> QED
        BY <2>3, <4>2, <4>3, <4>4 DEF NeverSleepsPastARow
    <3>6. StopIsFinal'
      BY <1>0, <2>1, <2>3 DEF StopIsFinal
    <3> QED
      BY <3>2, <3>3, <3>4, <3>5, <3>6 DEF PyArmInv
  <2>4. CASE chunk.quit /\ feeder' = [feeder EXCEPT !.at = "gone"] /\ pyLocks' = Without(Feeder, {}) /\ UNCHANGED chunk
    <3>1. DOMAIN feeder' = {"at", "until"} /\ feeder'.at = "gone"
      BY <1>a, <2>4
    <3> QED
      BY <2>3, <2>4, <3>1
  <2>5. CASE chunk.next >= Len(chunk.rows) /\ feeder' = [feeder EXCEPT !.at = "asleep"] /\ pyLocks' = Without(Feeder, {}) /\ UNCHANGED chunk
    <3>1. DOMAIN feeder' = {"at", "until"} /\ feeder'.at = "asleep"
      BY <1>a, <2>5
    <3> QED
      BY <2>3, <2>5, <3>1
  <2>6. CASE feeder' = [at |-> "dozing", until |-> due] /\ pyLocks' = Without(Feeder, {}) /\ UNCHANGED chunk
    <3>1. DOMAIN feeder' = {"at", "until"} /\ feeder'.at = "dozing" /\ feeder'.until = due
      BY <2>6
    <3> QED
      BY <2>3, <2>6, <3>1
  <2>7. CASE /\ chunk.next < Len(chunk.rows) /\ IsDue(chunk)
             /\ chunk' = [chunk EXCEPT !.next = @ + 1]
             /\ feeder' = [feeder EXCEPT !.at = "publishing"] /\ UNCHANGED pyLocks
    <3>1. DOMAIN feeder' = {"at", "until"} /\ feeder'.at = "publishing"
      BY <1>a, <2>7
    <3>2. /\ DOMAIN chunk' = {"rows", "next", "dt", "started", "ticket", "quit"} /\ chunk'.rows = chunk.rows
          /\ chunk'.next = chunk.next + 1 /\ chunk'.dt = chunk.dt /\ chunk'.started = chunk.started
          /\ chunk'.ticket = chunk.ticket
      BY <1>a, <2>7
    <3>3. chunk'.quit <=> chunk.quit
      BY <1>a, <2>7
    <3>4. HeldByCalls' /\ HeldByFeeder'
      BY <1>1, <1>b, <2>1, <2>7, <3>1 DEF HeldByFeeder
    <3>5. PyShapes'
      BY <1>2, <1>a, <2>1, <2>7, <3>1, <3>2
    <3>6. AimIsOfTheChunk'
      <4>1. Publishes' /\ Fed' = chunk'.next - 1 /\ Fed = chunk.next
        BY <2>1, <3>1 DEF Publishes, Fed
      <4>2. Fed' = Fed /\ chunk'.next > 0
        BY <1>a, <3>2, <4>1
      <4>3. Len(chunk.rows) \in Nat
        BY <1>a
      <4>4. chunk'.next <= Len(chunk'.rows)
        BY <1>a, <2>7, <3>2, <4>3
      <4>5. DueAt(chunk', chunk'.next - 1) = due
        BY <1>a, <3>2 DEF DueAt
      <4>6. pyNow' >= DueAt(chunk', chunk'.next - 1)
        BY <2>1, <2>7, <4>5 DEF IsDue
      <4> QED
        BY <1>0, <2>1, <3>2, <4>1, <4>2, <4>4, <4>6 DEF AimIsOfTheChunk
    <3>7. NeverSleepsPastARow' /\ StopIsFinal'
      BY <1>0, <2>1, <3>1, <3>2, <3>3 DEF NeverSleepsPastARow, StopIsFinal
    <3> QED
      BY <3>4, <3>5, <3>6, <3>7 DEF PyArmInv
  <2> QED
    BY <1>6, <2>4, <2>5, <2>6, <2>7 DEF FeederChecks
<1>7. ASSUME FeederSets PROVE PyArmInv'
  <2> DEFINE taken == control.handle /\ control.running /\ chunk.rows[chunk.next] = "good"
  <2>1. /\ feeder.at = "setting" /\ Publishes
        /\ chunk' = IF taken THEN chunk ELSE Clear(chunk)
        /\ aim' = IF taken THEN [ticket |-> chunk.ticket, row |-> chunk.next] ELSE aim
        /\ pyLocks' = Without(Feeder, {"follow"}) /\ feeder' = [feeder EXCEPT !.at = "checking"]
        /\ UNCHANGED <<pyCalls, control, pyNow>>
    BY <1>7 DEF FeederSets, AfterRow, Publishes
  <2> HIDE DEF taken
  <2>2. DOMAIN feeder' = {"at", "until"} /\ feeder'.at = "checking"
    BY <1>a, <2>1
  <2>3. /\ DOMAIN pyLocks' = {"gil", "follow", "control"}
        /\ \A l \in {"gil", "follow", "control"} :
             pyLocks'[l] = IF pyLocks[l] = Feeder /\ l \notin {"follow"} THEN NobodyHolds ELSE pyLocks[l]
    BY <1>0, <2>1, WithoutIt
  <2>4. HeldByCalls' /\ HeldByFeeder'
    BY <1>1, <1>b, <2>1, <2>2, <2>3, PyArmAssumption DEF HeldByFeeder
  <2>5. /\ DOMAIN chunk' = {"rows", "next", "dt", "started", "ticket", "quit"}
        /\ chunk'.rows = IF taken THEN chunk.rows ELSE <<>>
        /\ chunk'.next = chunk.next /\ chunk'.dt = chunk.dt /\ chunk'.started = chunk.started
        /\ chunk'.ticket = chunk.ticket
    BY <1>a, <2>1 DEF Clear
  <2>6. chunk'.quit <=> chunk.quit
    BY <1>a, <2>1 DEF Clear
  <2>7. /\ DOMAIN aim' = {"ticket", "row"}
        /\ IF taken THEN aim'.ticket = chunk.ticket /\ aim'.row = chunk.next
                    ELSE aim'.ticket = aim.ticket /\ aim'.row = aim.row
    BY <1>a, <2>1
  <2>8. PyShapes'
    BY <1>2, <1>a, <2>1, <2>2, <2>3, <2>5, <2>7
  <2>9. AimIsOfTheChunk'
    <3>1. ~Publishes' /\ Fed' = chunk.next
      BY <2>2, <2>5 DEF Publishes, Fed
    <3>2. aim'.ticket <= chunk'.ticket
      BY <1>a, <2>5, <2>7
    <3>3. chunk'.rows # <<>> => aim'.ticket = chunk'.ticket /\ aim'.row = Fed'
      BY <2>5, <2>7, <3>1
    <3> QED
      BY <3>1, <3>2, <3>3 DEF AimIsOfTheChunk
  <2>10. NeverSleepsPastARow' /\ StopIsFinal'
    <3>1. chunk.rows = <<>> => chunk'.rows = <<>>
      BY <2>5
    <3> QED
      BY <1>0, <2>1, <2>2, <2>6, <3>1 DEF NeverSleepsPastARow, StopIsFinal
  <2> QED
    BY <2>4, <2>8, <2>9, <2>10 DEF PyArmInv
<1>8. ASSUME PyLoopEnds PROVE PyArmInv'
  <2>1. control' = [control EXCEPT !.running = FALSE] /\ UNCHANGED <<pyLocks, chunk, feeder, pyCalls, aim, pyNow>>
    BY <1>8 DEF PyLoopEnds
  <2>2. DOMAIN control' = {"handle", "running", "takers"} /\ (control'.handle <=> control.handle) /\ control'.takers = control.takers
    BY <1>a, <2>1
  <2>3. HeldByCalls' /\ HeldByFeeder'
    BY <1>0, <1>1, <2>1 DEF HeldByFeeder
  <2>4. PyShapes'
    BY <1>2, <1>a, <2>1, <2>2
  <2>5. AimIsOfTheChunk'
    <3>1. Publishes' <=> Publishes
      BY <2>1 DEF Publishes
    <3> QED
      BY <1>a, <2>1, <3>1, ChunkStays
  <2>6. NeverSleepsPastARow' /\ StopIsFinal'
    BY <1>0, <2>1, <2>2 DEF NeverSleepsPastARow, StopIsFinal
  <2> QED
    BY <2>3, <2>4, <2>5, <2>6 DEF PyArmInv
<1>9. ASSUME PyTick PROVE PyArmInv'
  <2>1. pyNow' = pyNow + 1 /\ UNCHANGED <<pyLocks, chunk, feeder, pyCalls, control, aim>>
    BY <1>9 DEF PyTick
  <2>2. HeldByCalls' /\ HeldByFeeder'
    BY <1>0, <1>1, <2>1 DEF HeldByFeeder
  <2>3. PyShapes'
    BY <1>2, <1>a, <2>1
  <2>4. AimIsOfTheChunk'
    <3>1. Publishes' <=> Publishes
      BY <2>1 DEF Publishes
    <3>2. pyNow' \in Nat /\ pyNow' >= pyNow
      BY <1>a, <2>1
    <3> QED
      BY <2>1, <3>1, <3>2, ChunkStays
  <2>5. NeverSleepsPastARow' /\ StopIsFinal'
    BY <1>0, <2>1 DEF NeverSleepsPastARow, StopIsFinal
  <2> QED
    BY <2>2, <2>3, <2>4, <2>5 DEF PyArmInv
<1> QED
  BY <1>3, <1>4, <1>5, <1>6, <1>7, <1>8, <1>9

LEMMA PyArmSteps == PyArmInv /\ [PyArmNext]_pyArmVars => PyArmInv'
<1> SUFFICES ASSUME PyArmInv, [PyArmNext]_pyArmVars PROVE PyArmInv'
  OBVIOUS
<1>1. CASE UNCHANGED pyArmVars
  BY <1>1 DEF pyArmVars, PyArmInv, PyShapes, HeldByCalls, HeldByFeeder, HoldsGil, HoldsFollow, HoldsControl,
    AimIsOfTheChunk, Fed, Publishes, DueAt, NeverSleepsPastARow, StopIsFinal
<1>2. CASE \/ FeederLocks \/ FeederChecks \/ FeederWakes \/ FeederTakesControl \/ FeederSets
           \/ PyLoopEnds \/ PyTick
  BY <1>2, FeederSteps
<1>3. ASSUME NEW t \in PyThreads,
             \/ \E op \in {"move", "look", "stop"} : PyCall(t, op, <<>>)
             \/ \E c \in PyChunks : PyCall(t, "follow", c)
             \/ TakesNext(t) \/ Update(t) \/ Follow(t) \/ Look(t) \/ Take(t) \/ Notify(t) \/ Join(t)
             \/ GoesBack(t)
      PROVE  PyArmInv'
  BY <1>3, ThreadSteps, ChunkSteps
<1> QED
  BY <1>1, <1>2, <1>3 DEF PyArmNext

\* No step takes the loop's target back: each change is a later call's or the chunk's next row, when it is due.
LEMMA AimGoesOn ==
    PyArmInv /\ [PyArmNext]_pyArmVars =>
      (aim' # aim =>
         /\ \/ aim'.ticket > aim.ticket /\ aim'.row =< 1
            \/ aim'.ticket = aim.ticket /\ aim'.row = aim.row + 1
         /\ aim'.row = 0 \/ pyNow >= DueAt(chunk, aim'.row - 1))
<1> SUFFICES ASSUME PyArmInv, [PyArmNext]_pyArmVars, aim' # aim
             PROVE  /\ \/ aim'.ticket > aim.ticket /\ aim'.row =< 1
                       \/ aim'.ticket = aim.ticket /\ aim'.row = aim.row + 1
                    /\ aim'.row = 0 \/ pyNow >= DueAt(chunk, aim'.row - 1)
  OBVIOUS
<1>0. PyShapes /\ AimIsOfTheChunk
  BY DEF PyArmInv
<1>1. FeederSets \/ \E t \in PyThreads : Update(t)
  <2>1. PyArmNext
    BY DEF pyArmVars
  <2>2. ~FeederLocks /\ ~FeederChecks /\ ~FeederWakes /\ ~FeederTakesControl /\ ~PyLoopEnds /\ ~PyTick
    BY DEF FeederLocks, FeederChecks, FeederWakes, FeederTakesControl, PyLoopEnds, PyTick
  <2>3. \A t \in PyThreads :
          /\ \A op, c : ~PyCall(t, op, c)
          /\ ~TakesNext(t) /\ ~Follow(t) /\ ~Look(t) /\ ~Take(t) /\ ~Notify(t) /\ ~Join(t) /\ ~GoesBack(t)
    BY DEF PyCall, TakesNext, Follow, Look, Take, Notify, Join, GoesBack
  <2> QED
    BY <2>1, <2>2, <2>3 DEF PyArmNext
<1>2. ASSUME NEW t \in PyThreads, Update(t) PROVE aim'.ticket > aim.ticket /\ aim'.row = 0
  <2>1. aim' = [ticket |-> [Clear(chunk) EXCEPT !.ticket = @ + 1].ticket, row |-> 0]
    BY <1>2 DEF Update
  <2>2. [Clear(chunk) EXCEPT !.ticket = @ + 1].ticket = chunk.ticket + 1
    BY <1>0 DEF PyShapes, Clear
  <2>3. aim'.ticket = chunk.ticket + 1 /\ aim'.row = 0
    BY <2>1, <2>2
  <2> QED
    BY <1>0, <2>3 DEF PyShapes, AimIsOfTheChunk
<1>3. ASSUME FeederSets
      PROVE  /\ \/ aim'.ticket > aim.ticket /\ aim'.row =< 1
                \/ aim'.ticket = aim.ticket /\ aim'.row = aim.row + 1
             /\ pyNow >= DueAt(chunk, aim'.row - 1)
  <2>1. Publishes /\ aim' = [ticket |-> chunk.ticket, row |-> chunk.next]
    BY <1>3 DEF FeederSets, Publishes
  <2>2. aim'.ticket = chunk.ticket /\ aim'.row = chunk.next /\ Fed = chunk.next - 1
    BY <2>1 DEF Fed
  <2>3. chunk.next > 0 /\ chunk.next <= Len(chunk.rows) /\ pyNow >= DueAt(chunk, chunk.next - 1)
    BY <1>0, <2>1 DEF AimIsOfTheChunk
  <2>4. chunk.rows # <<>>
    BY <1>0, <2>3 DEF PyShapes
  <2>5. (aim.ticket = chunk.ticket /\ aim.row = chunk.next - 1) \/ (aim.ticket < chunk.ticket /\ chunk.next - 1 = 0)
    BY <1>0, <2>2, <2>4 DEF AimIsOfTheChunk
  <2>6. chunk.next \in Nat /\ chunk.ticket \in Nat /\ aim.row \in Nat /\ aim.ticket \in Nat
    BY <1>0 DEF PyShapes
  <2>7. \/ aim'.ticket > aim.ticket /\ aim'.row =< 1
        \/ aim'.ticket = aim.ticket /\ aim'.row = aim.row + 1
    BY <2>2, <2>5, <2>6
  <2> QED
    BY <2>2, <2>3, <2>7
<1> QED
  BY <1>1, <1>2, <1>3

\* Whoever in a ring holds the last lock of the order waits for none of the ring's.
LEMMA PyArmHolds == PyArmInv => NeverSleepsPastARow /\ StopIsFinal /\ NoRingOfLocks
<1> SUFFICES ASSUME PyArmInv, NEW ring \in (SUBSET (PyThreads \cup {Feeder})) \ {{}}
             PROVE  \E who \in ring : \A l \in WaitsForLock(who) : pyLocks[l] \notin ring
  BY DEF PyArmInv, NoRingOfLocks
<1>0. PyShapes /\ HeldByCalls /\ HeldByFeeder
  BY DEF PyArmInv
<1>1. WaitsForLock(Feeder) = (CASE feeder.at = "locking" -> {"follow"} [] feeder.at = "publishing" -> {"control"} [] OTHER -> {})
  BY DEF WaitsForLock
\* What a thread waits for comes after what it holds.
<1>2. ASSUME NEW t \in PyThreads
      PROVE  /\ WaitsForLock(t) \subseteq {"gil", "follow", "control"}
             /\ HoldsGil(t) => WaitsForLock(t) \subseteq {"follow", "control"}
             /\ HoldsFollow(t) => WaitsForLock(t) \subseteq {"control"}
             /\ HoldsControl(t) => WaitsForLock(t) = {}
  <2> DEFINE op == pyCalls[t].op
             n == pyCalls[t].taken
  <2>1. WaitsForLock(t) = CASE pyCalls[t].at = "locking" /\ n < Len(LocksOf(op)) -> {LocksOf(op)[n + 1]}
                            [] pyCalls[t].at = "returning" -> {"gil"}
                            [] OTHER -> {}
    BY PyArmAssumption DEF WaitsForLock
  <2>2. CASE pyCalls[t].at = "locking" /\ n < Len(LocksOf(op))
    <3> DEFINE l == LocksOf(op)[n + 1]
    <3>1. op \in {"move", "look", "stop", "follow"} /\ n \in 0..3
      BY <1>0, <2>2 DEF PyShapes
    <3>2. \/ op = "stop" /\ ((n = 0 /\ l = "follow") \/ (n = 1 /\ l = "control"))
          \/ op = "look" /\ ((n = 0 /\ l = "gil") \/ (n = 1 /\ l = "control"))
          \/ op \in {"move", "follow"} /\ ((n = 0 /\ l = "gil") \/ (n = 1 /\ l = "follow") \/ (n = 2 /\ l = "control"))
      BY <2>2, <3>1, NextLock
    <3>3. WaitsForLock(t) = {l}
      BY <2>1, <2>2
    <3>4. /\ HoldsGil(t) <=> (op # "stop" /\ n >= 1)
          /\ HoldsFollow(t) <=> ((op = "stop" /\ n >= 1) \/ (op \in {"move", "follow"} /\ n >= 2))
          /\ HoldsControl(t) <=> ((op \in {"stop", "look"} /\ n >= 2) \/ (op \in {"move", "follow"} /\ n >= 3))
      BY <2>2, <3>1 DEF HoldsGil, HoldsFollow, HoldsControl
    <3> HIDE DEF op, n, l
    <3> QED
      BY <3>1, <3>2, <3>3, <3>4
  <2>3. CASE pyCalls[t].at = "returning"
    <3>1. ~HoldsGil(t) /\ ~HoldsFollow(t) /\ ~HoldsControl(t)
      BY <2>3 DEF HoldsGil, HoldsFollow, HoldsControl
    <3> QED
      BY <2>1, <2>3, <3>1
  <2>4. CASE ~(pyCalls[t].at = "locking" /\ n < Len(LocksOf(op))) /\ pyCalls[t].at # "returning"
    BY <2>1, <2>4
  <2> QED
    BY <2>2, <2>3, <2>4
<1>3. CASE pyLocks["control"] \in ring
  <2> DEFINE who == pyLocks["control"]
  <2>1. WaitsForLock(who) = {}
    <3>1. CASE who = Feeder
      BY <1>0, <1>1, <3>1 DEF HeldByFeeder
    <3>2. CASE who \in PyThreads
      BY <1>0, <1>2, <3>2 DEF HeldByCalls
    <3> QED
      BY <1>3, <3>1, <3>2
  <2> HIDE DEF who
  <2> QED
    BY <1>3, <2>1 DEF who
<1>4. CASE pyLocks["control"] \notin ring /\ pyLocks["follow"] \in ring
  <2> DEFINE who == pyLocks["follow"]
  <2>1. WaitsForLock(who) \subseteq {"control"}
    <3>1. CASE who = Feeder
      BY <1>0, <1>1, <3>1 DEF HeldByFeeder
    <3>2. CASE who \in PyThreads
      BY <1>0, <1>2, <3>2 DEF HeldByCalls
    <3> QED
      BY <1>4, <3>1, <3>2
  <2>2. who \in ring
    BY <1>4
  <2> HIDE DEF who
  <2> QED
    BY <1>4, <2>1, <2>2
<1>5. CASE pyLocks["control"] \notin ring /\ pyLocks["follow"] \notin ring /\ pyLocks["gil"] \in ring
  <2> DEFINE who == pyLocks["gil"]
  <2>1. who \in PyThreads /\ HoldsGil(who)
    BY <1>0, <1>5 DEF HeldByFeeder, HeldByCalls
  <2>2. WaitsForLock(who) \subseteq {"follow", "control"} /\ who \in ring
    BY <1>2, <1>5, <2>1
  <2> HIDE DEF who
  <2> QED
    BY <1>5, <2>2
<1>6. CASE \A l \in {"gil", "follow", "control"} : pyLocks[l] \notin ring
  <2>1. PICK who : who \in ring
    <3>1. ring # {}
      OBVIOUS
    <3> QED
      BY <3>1
  <2>2. WaitsForLock(who) \subseteq {"gil", "follow", "control"}
    <3>1. CASE who = Feeder
      BY <1>1, <3>1
    <3>2. CASE who \in PyThreads
      BY <1>2, <3>2
    <3> QED
      BY <2>1, <3>1, <3>2
  <2> QED
    BY <1>6, <2>1, <2>2
<1> QED
  BY <1>3, <1>4, <1>5, <1>6

-----------------------------------------------------------------------------
(* Tests and the simulators they start. *)

SimPlaces == {"begin", "locked", "portsFree", "free", "probing", "external", "ready", "failing",
              "dropped", "failed", "passed"}
\* Where a test has its binary's lock.
Locked == SimPlaces \ {"begin", "failed", "passed"}

SimShapes ==
    /\ simLock \in [Binaries -> SimTests \cup {NoTest}] /\ simTest \in [SimTests -> SimPlaces]
    /\ containers = [t \in SimTests |-> [at |-> containers[t].at, image |-> containers[t].image,
                                         flags |-> containers[t].flags]]
    /\ \A t \in SimTests : containers[t].at \in {"none", "created", "running", "serving", "exited"}

\* A test takes its turn, and while it is about to have a simulator no other of its binary is left.
OwnTurn ==
    /\ \A t \in SimTests : simTest[t] \in Locked => simLock[BinaryOf[t]] = t
    /\ \A t, u \in SimTests :
         simTest[t] \in {"free", "probing", "ready"} /\ SameBinary(t, u) /\ u \in Live => u = t
    /\ \A t \in SimTests : simTest[t] = "free" => t \notin Live

\* What is left running was asked for: it is tested, or kept.
Wanted(t) ==
    \/ simTest[t] \in {"probing", "ready"}
    \/ simTest[t] \in {"dropped", "passed"} /\ Env(t).keep
OwnContainer ==
    \A t \in SimTests :
      /\ simTest[t] = "begin" => containers[t].at = "none"
      /\ t \in Live => Wanted(t)
      /\ t \in Live /\ simTest[t] \in {"probing", "ready"} => containers[t].flags = SimArgs(ConfigOf[t])
      /\ simTest[t] = "external" => Env(t).address
      /\ Env(t).address => simTest[t] \in {"begin", "external", "dropped", "passed"}

\* The tests of the other binaries have not begun.
Lonely(t) == \A u \in SimTests : ~SameBinary(t, u) => simTest[u] = "begin"
OwnRobot ==
    \A t \in SimTests :
      simTest[t] = "ready" /\ Lonely(t) =>
        t \in Serving /\ Speaks(containers[t]) = ConfigOf[t].protocol

SimInv == SimShapes /\ OwnTurn /\ OneOfABinary /\ OwnContainer /\ OwnRobot

\* No test has begun and there is no container.
LEMMA SimBegins == SimInit => SimInv
<1> SUFFICES ASSUME SimInit PROVE SimInv
  OBVIOUS
<1>1. /\ \A t \in SimTests : simTest[t] = "begin" /\ containers[t] = NoContainer
      /\ simTest \in [SimTests -> SimPlaces] /\ simLock \in [Binaries -> SimTests \cup {NoTest}]
      /\ DOMAIN containers = SimTests /\ containers = [t \in SimTests |-> NoContainer]
  BY DEF SimInit, SimPlaces
<1>2. NoContainer = [at |-> NoContainer.at, image |-> NoContainer.image, flags |-> NoContainer.flags] /\ NoContainer.at = "none"
  BY DEF NoContainer
<1>3. SimShapes
  BY <1>1, <1>2 DEF SimShapes
<1>4. Live = {}
  BY <1>1, <1>2 DEF Live
<1> QED
  BY <1>1, <1>2, <1>3, <1>4 DEF SimInv, OwnTurn, OneOfABinary, OwnContainer, OwnRobot, Locked, SimPlaces

\* What the step of a test leaves alone.
LEMMA SimOthers ==
    ASSUME SimShapes, NEW t \in SimTests, NEW x \in SimPlaces, simTest' = [simTest EXCEPT ![t] = x]
    PROVE  simTest' \in [SimTests -> SimPlaces] /\ simTest'[t] = x /\ \A u \in SimTests : u # t => simTest'[u] = simTest[u]
  BY DEF SimShapes

\* What becomes of one container leaves the others alone.
LEMMA SimContainers ==
    ASSUME SimShapes, NEW t \in SimTests, NEW c, c = [at |-> c.at, image |-> c.image, flags |-> c.flags],
           c.at \in {"none", "created", "running", "serving", "exited"}, containers' = [containers EXCEPT ![t] = c],
           simLock' \in [Binaries -> SimTests \cup {NoTest}], simTest' \in [SimTests -> SimPlaces]
    PROVE  SimShapes' /\ containers'[t] = c /\ \A u \in SimTests : u # t => containers'[u] = containers[u]
<1>1. DOMAIN containers = SimTests
  BY DEF SimShapes
<1>2. DOMAIN containers' = SimTests /\ containers'[t] = c /\ \A u \in SimTests : u # t => containers'[u] = containers[u]
  BY <1>1
<1>3. \A u \in SimTests : /\ containers'[u] = [at |-> containers'[u].at, image |-> containers'[u].image, flags |-> containers'[u].flags]
                         /\ containers'[u].at \in {"none", "created", "running", "serving", "exited"}
  <2> SUFFICES ASSUME NEW u \in SimTests
               PROVE  /\ containers'[u] = [at |-> containers'[u].at, image |-> containers'[u].image, flags |-> containers'[u].flags]
                      /\ containers'[u].at \in {"none", "created", "running", "serving", "exited"}
    OBVIOUS
  <2>1. CASE u = t
    BY <1>2, <2>1
  <2>2. CASE u # t
    BY <1>2, <2>2 DEF SimShapes
  <2> QED
    BY <2>1, <2>2
<1>4. containers' = [u \in SimTests |-> containers'[u]]
  BY <1>1
<1>5. containers' = [u \in SimTests |-> [at |-> containers'[u].at, image |-> containers'[u].image, flags |-> containers'[u].flags]]
  BY <1>3, <1>4
<1> QED
  BY <1>2, <1>3, <1>5 DEF SimShapes

\* Each step of a test, of a server and of Docker keeps the invariant.
LEMMA SimSteps == SimInv /\ [SimNext]_simVars => SimInv'
<1> SUFFICES ASSUME SimInv, [SimNext]_simVars PROVE SimInv'
  OBVIOUS
<1>0. SimShapes /\ OwnTurn /\ OneOfABinary /\ OwnContainer /\ OwnRobot
  BY DEF SimInv
<1> USE DEF SimPlaces
<1>1. CASE UNCHANGED simVars
  BY <1>0, <1>1 DEF simVars, SimInv, SimShapes, OwnTurn, OneOfABinary, OwnContainer, OwnRobot, Live, Serving, Wanted, Env, Lonely
\* A step of a test that has the lock of its binary, or takes it.
<1>2. ASSUME NEW t \in SimTests, NEW x \in SimPlaces, simTest' = [simTest EXCEPT ![t] = x], x # "begin",
             UNCHANGED environ, SimShapes',
             \A u \in SimTests : u # t => containers'[u] = containers[u],
             simLock[BinaryOf[t]] \in {t, NoTest}, x \in Locked => simLock'[BinaryOf[t]] = t,
             \A u \in SimTests : BinaryOf[u] # BinaryOf[t] => simLock'[BinaryOf[u]] = simLock[BinaryOf[u]],
             (t \in Live)' => t \in Live \/ simTest[t] = "free",
             x \in {"free", "probing", "ready"} => simTest[t] \in {"free", "probing", "ready"} \/ Live = {},
             x = "free" => t \notin Live',
             t \in Live' => Wanted(t)',
             t \in Live' /\ x \in {"probing", "ready"} => containers'[t].flags = SimArgs(ConfigOf[t]),
             x = "external" => Env(t).address,
             Env(t).address => x \in {"external", "dropped", "passed"},
             x = "ready" /\ Lonely(t) => t \in Serving' /\ Speaks(containers'[t]) = ConfigOf[t].protocol
      PROVE  SimInv'
  <2>1. /\ simTest' \in [SimTests -> SimPlaces] /\ simTest'[t] = x /\ \A u \in SimTests : u # t => simTest'[u] = simTest[u]
    BY <1>0, <1>2, SimOthers
  <2>2. \A u \in SimTests : u # t => (u \in Live' <=> u \in Live) /\ (u \in Serving' <=> u \in Serving)
    BY <1>2 DEF Live, Serving
  <2>3. \A u \in SimTests : u # t /\ simTest[u] \in Locked => BinaryOf[u] # BinaryOf[t]
    BY <1>0, <1>2, SimAssumption DEF OwnTurn
  <2>4. \A u \in SimTests : simTest'[u] \in Locked => simLock'[BinaryOf[u]] = u
    BY <1>0, <1>2, <2>1, <2>3 DEF OwnTurn
  <2>5. \A u, v \in SimTests :
          simTest'[u] \in {"free", "probing", "ready"} /\ SameBinary(u, v) /\ v \in Live' => v = u
    <3> SUFFICES ASSUME NEW u \in SimTests, NEW v \in SimTests, simTest'[u] \in {"free", "probing", "ready"},
                        BinaryOf[u] = BinaryOf[v], v \in Live', v # u
                 PROVE FALSE
      BY DEF SameBinary
    <3>1. CASE u # t
      <4>1. simTest[u] \in Locked /\ v # t
        BY <2>1, <2>3, <3>1 DEF Locked
      <4>2. simTest[u] \in {"free", "probing", "ready"} /\ v \in Live
        BY <2>1, <2>2, <3>1, <4>1
      <4> QED
        BY <1>0, <4>2 DEF OwnTurn, SameBinary
    <3>2. CASE u = t
      <4>1. v \in Live
        BY <2>2, <3>2
      <4>2. x \in {"free", "probing", "ready"}
        BY <2>1, <3>2
      <4>3. simTest[t] \in {"free", "probing", "ready"}
        BY <1>2, <4>1, <4>2
      <4> QED
        BY <1>0, <3>2, <4>1, <4>3 DEF OwnTurn, SameBinary
    <3> QED
      BY <3>1, <3>2
  <2>6. OwnTurn'
    <3>1. \A u \in SimTests : simTest'[u] = "free" => u \notin Live'
      <4> SUFFICES ASSUME NEW u \in SimTests, simTest'[u] = "free" PROVE u \notin Live'
        OBVIOUS
      <4>1. CASE u = t
        BY <1>2, <2>1, <4>1
      <4>2. CASE u # t
        BY <1>0, <2>1, <2>2, <4>2 DEF OwnTurn
      <4> QED
        BY <4>1, <4>2
    <3> QED
      BY <2>4, <2>5, <3>1 DEF OwnTurn, SameBinary
  <2>7. OneOfABinary'
    <3>1. \A u \in SimTests : u # t /\ u \in Live' /\ BinaryOf[u] = BinaryOf[t] => t \notin Live'
      BY <1>0, <1>2, <2>2 DEF OneOfABinary, OwnTurn, SameBinary
    <3>2. \A u, v \in SimTests : u # t /\ v # t /\ u \in Live' /\ v \in Live' /\ BinaryOf[u] = BinaryOf[v] => u = v
      BY <1>0, <2>2 DEF OneOfABinary, SameBinary
    <3>3. \A u \in Live' : u \in SimTests
      BY DEF Live
    <3> QED
      BY <3>1, <3>2, <3>3 DEF OneOfABinary, SameBinary
  <2>8. OwnContainer'
    <3> SUFFICES ASSUME NEW u \in SimTests
                 PROVE  /\ simTest'[u] = "begin" => containers'[u].at = "none"
                        /\ u \in Live' => Wanted(u)'
                        /\ u \in Live' /\ simTest'[u] \in {"probing", "ready"} => containers'[u].flags = SimArgs(ConfigOf[u])
                        /\ simTest'[u] = "external" => Env(u)'.address
                        /\ Env(u)'.address => simTest'[u] \in {"begin", "external", "dropped", "passed"}
      BY DEF OwnContainer
    <3>1. CASE u = t
      BY <1>2, <2>1, <3>1 DEF Env
    <3>2. CASE u # t
      BY <1>0, <1>2, <2>1, <2>2, <3>2 DEF OwnContainer, Wanted, Env
    <3> QED
      BY <3>1, <3>2
  <2>9. OwnRobot'
    <3>1. \A u \in SimTests : Lonely(u)' => Lonely(u)
      BY <1>2, <2>1 DEF Lonely
    <3> QED
      BY <1>0, <1>2, <2>1, <2>2, <3>1 DEF OwnRobot, SameBinary
  <2> QED
    BY <1>2, <2>6, <2>7, <2>8, <2>9 DEF SimInv
<1>3. ASSUME NEW t \in SimTests, TakeLock(t) PROVE SimInv'
  <2>1. /\ simLock[BinaryOf[t]] = NoTest /\ simLock' = [simLock EXCEPT ![BinaryOf[t]] = t] /\ simTest[t] = "begin"
        /\ simTest' = [simTest EXCEPT ![t] = IF Env(t).address THEN "external" ELSE "locked"]
        /\ UNCHANGED <<environ, containers>>
    BY <1>3 DEF TakeLock, Steps
  <2>2. BinaryOf[t] \in Binaries
    BY DEF Binaries
  <2>3. t \notin Live /\ t \notin Live'
    BY <1>0, <2>1 DEF OwnContainer, Live
  <2>4. SimShapes'
    BY <1>0, <2>1, <2>2 DEF SimShapes
  <2> DEFINE x == IF Env(t).address THEN "external" ELSE "locked"
  <2>5. x \in SimPlaces /\ x \in {"external", "locked"} /\ (x = "external" <=> Env(t).address)
    OBVIOUS
  <2>6. simTest' = [simTest EXCEPT ![t] = x]
    BY <2>1
  <2>7. simLock'[BinaryOf[t]] = t /\ \A u \in SimTests : BinaryOf[u] # BinaryOf[t] => simLock'[BinaryOf[u]] = simLock[BinaryOf[u]]
    BY <1>0, <2>1, <2>2 DEF SimShapes
  <2> HIDE DEF x
  <2> QED
    BY <1>2, <2>1, <2>3, <2>4, <2>5, <2>6, <2>7
\* What goes on with the lock goes on with its simulator as it is.
<1>4. ASSUME NEW t \in SimTests, NEW x \in Locked, Steps(t, simTest[t], x), simTest[t] \in Locked,
             UNCHANGED <<environ, simLock, containers>>,
             x = "free" => Live = {},
             x \in {"probing", "ready"} => simTest[t] = "probing",
             t \in Live => x = "ready" \/ (x = "dropped" /\ Env(t).keep),
             x = "external" => Env(t).address,
             Env(t).address => x \in {"external", "dropped"},
             x = "ready" /\ Lonely(t) => t \in Serving /\ Speaks(containers[t]) = ConfigOf[t].protocol
      PROVE  SimInv'
  <2>1. simTest' = [simTest EXCEPT ![t] = x] /\ simLock[BinaryOf[t]] = t /\ x \in SimPlaces /\ x # "begin"
    BY <1>0, <1>4 DEF Steps, OwnTurn, Locked
  <2>2. simTest' \in [SimTests -> SimPlaces] /\ simTest'[t] = x
    BY <1>0, <2>1, SimOthers
  <2>3. SimShapes' /\ Live' = Live /\ Serving' = Serving
    BY <1>0, <1>4, <2>2 DEF SimShapes, Live, Serving
  <2>4. t \in Live => Wanted(t)' /\ (x \in {"probing", "ready"} => containers[t].flags = SimArgs(ConfigOf[t]))
    BY <1>0, <1>4, <2>2 DEF OwnContainer, Wanted, Env
  <2> QED
    BY <1>2, <1>4, <2>1, <2>3, <2>4
<1>5. ASSUME NEW t \in SimTests, LookAtPorts(t) \/ LookAtNames(t) PROVE SimInv'
  <2>1. PICK x \in {"portsFree", "free", "failing"} :
          Steps(t, simTest[t], x) /\ simTest[t] \in {"locked", "portsFree"} /\ (x = "free" => Live = {})
    BY <1>5 DEF LookAtPorts, LookAtNames, Steps
  <2>2. UNCHANGED <<environ, simLock, containers>>
    BY <1>5 DEF LookAtPorts, LookAtNames
  <2>3. t \notin Live /\ ~Env(t).address
    BY <1>0, <2>1 DEF OwnContainer, Wanted
  <2> QED
    BY <1>4, <2>1, <2>2, <2>3 DEF Locked
<1>6. ASSUME NEW t \in SimTests, WaitReady(t) PROVE SimInv'
  <2>1. Ready(t) /\ simTest[t] = "probing" /\ Steps(t, simTest[t], "ready") /\ UNCHANGED <<environ, simLock, containers>>
    BY <1>6 DEF WaitReady, Steps
  <2>2. ~Env(t).address
    BY <1>0, <2>1 DEF OwnContainer
  <2>3. ASSUME Lonely(t) PROVE t \in Serving /\ Speaks(containers[t]) = ConfigOf[t].protocol
    <3>1. PICK u \in Serving : Speaks(containers[u]) = ConfigOf[t].protocol
      BY <2>1, SimAssumption DEF Ready, OwnProbe, Checked, Answers
    <3>2. u \in SimTests /\ u \in Live
      BY DEF Serving, Live
    <3>3. SameBinary(t, u)
      BY <1>0, <2>3, <3>2 DEF Lonely, OwnContainer, Live
    <3>4. u = t
      BY <1>0, <2>1, <3>2, <3>3 DEF OwnTurn
    <3> QED
      BY <3>1, <3>4
  <2> QED
    BY <1>4, <2>1, <2>2, <2>3 DEF Locked
<1>7. ASSUME NEW t \in SimTests, RunDocker(t) PROVE SimInv'
  <2> DEFINE c == [at |-> "running", image |-> ImageOf(t), flags |-> SimArgs(ConfigOf[t])]
  <2>1. simTest[t] = "free" /\ UNCHANGED <<environ, simLock>>
    BY <1>7 DEF RunDocker, Steps
  <2>2. simLock[BinaryOf[t]] = t /\ t \notin Live /\ ~Env(t).address
    BY <1>0, <2>1 DEF OwnTurn, OwnContainer, Locked
  <2>3. CASE simTest' = [simTest EXCEPT ![t] = "probing"] /\ containers' = [containers EXCEPT ![t] = c]
    <3>1. /\ simTest' \in [SimTests -> SimPlaces] /\ simTest'[t] = "probing"
          /\ containers'[t] = c /\ \A u \in SimTests : u # t => containers'[u] = containers[u]
      BY <1>0, <2>3, SimOthers DEF SimShapes
    <3>2. SimShapes'
      BY <1>0, <2>1, <2>3, <3>1 DEF SimShapes
    <3>3. Wanted(t)' /\ c.flags = SimArgs(ConfigOf[t])
      BY <3>1 DEF Wanted
    <3> HIDE DEF c
    <3> QED
      BY <1>2, <2>1, <2>2, <2>3, <3>1, <3>2, <3>3 DEF Locked
  <2>4. ASSUME NEW left \in {"none", "created"}, simTest' = [simTest EXCEPT ![t] = "failing"],
               containers' = [containers EXCEPT ![t].at = left]
        PROVE  SimInv'
    <3>1. /\ simTest' \in [SimTests -> SimPlaces] /\ simTest'[t] = "failing"
          /\ containers'[t] = [containers[t] EXCEPT !.at = left]
          /\ DOMAIN containers' = SimTests
          /\ \A u \in SimTests : u # t => containers'[u] = containers[u]
      BY <1>0, <2>4, SimOthers DEF SimShapes
    <3>2. containers'[t] = [at |-> left, image |-> containers[t].image, flags |-> containers[t].flags]
      BY <1>0, <3>1 DEF SimShapes
    <3>2a. simLock' \in [Binaries -> SimTests \cup {NoTest}]
      BY <1>0, <2>1 DEF SimShapes
    <3>2b. containers' = [containers EXCEPT ![t] = containers'[t]]
      BY <2>4, <3>1
    <3> DEFINE d == containers'[t]
    <3>2c. /\ d = [at |-> d.at, image |-> d.image, flags |-> d.flags]
           /\ d.at \in {"none", "created", "running", "serving", "exited"}
      BY <2>4, <3>2
    <3>2d. containers' = [containers EXCEPT ![t] = d]
      BY <3>2b
    <3> HIDE DEF d
    <3>3. SimShapes'
      BY <1>0, <3>1, <3>2a, <3>2c, <3>2d, SimContainers
    <3>4. t \notin Live'
      BY <3>2 DEF Live
    <3> QED
      BY <1>2, <2>1, <2>2, <2>4, <3>1, <3>3, <3>4 DEF Locked
  <2> QED
    BY <1>7, <2>3, <2>4 DEF RunDocker, Steps
\* A container that is gone.
<1>8. ASSUME NEW t \in SimTests, containers' = [containers EXCEPT ![t] = NoContainer], UNCHANGED simLock,
             simTest' \in [SimTests -> SimPlaces]
      PROVE  SimShapes' /\ t \notin Live' /\ \A u \in SimTests : u # t => containers'[u] = containers[u]
  <2>1. /\ NoContainer = [at |-> NoContainer.at, image |-> NoContainer.image, flags |-> NoContainer.flags]
        /\ NoContainer.at = "none"
    BY DEF NoContainer
  <2>2. simLock' \in [Binaries -> SimTests \cup {NoTest}]
    BY <1>0, <1>8 DEF SimShapes
  <2>3. SimShapes' /\ containers'[t] = NoContainer /\ \A u \in SimTests : u # t => containers'[u] = containers[u]
    BY <1>0, <1>8, <2>1, <2>2, SimContainers
  <2> QED
    BY <2>1, <2>3 DEF Live
<1>9. ASSUME NEW t \in SimTests, FailReady(t) PROVE SimInv'
  <2>1. /\ simTest[t] = "probing" /\ simTest' = [simTest EXCEPT ![t] = "failing"]
        /\ containers' = [containers EXCEPT ![t] = NoContainer] /\ UNCHANGED <<environ, simLock>>
    BY <1>9 DEF FailReady, Steps
  <2>2. simLock[BinaryOf[t]] = t /\ ~Env(t).address
    BY <1>0, <2>1 DEF OwnTurn, OwnContainer, Locked
  <2>3. simTest' \in [SimTests -> SimPlaces]
    BY <1>0, <2>1, SimOthers
  <2> QED
    BY <1>2, <1>8, <2>1, <2>2, <2>3 DEF Locked
<1>10. ASSUME NEW t \in SimTests, DropServer(t) PROVE SimInv'
  <2>1. /\ simTest[t] \in {"ready", "external"} /\ Steps(t, simTest[t], "dropped") /\ UNCHANGED <<environ, simLock>>
        /\ IF Env(t).address \/ Env(t).keep THEN UNCHANGED containers
           ELSE containers' = [containers EXCEPT ![t] = NoContainer]
    BY <1>10 DEF DropServer, Steps
  <2>2. simLock[BinaryOf[t]] = t /\ simTest' = [simTest EXCEPT ![t] = "dropped"]
    BY <1>0, <2>1 DEF OwnTurn, Locked, Steps
  <2>3. CASE Env(t).address \/ Env(t).keep
    <3>1. t \in Live => Env(t).keep
      BY <1>0, <2>1, <2>3 DEF OwnContainer, Wanted
    <3> QED
      BY <1>4, <2>1, <2>3, <3>1 DEF Locked
  <2>4. CASE ~(Env(t).address \/ Env(t).keep)
    <3>1. simTest' \in [SimTests -> SimPlaces]
      BY <1>0, <2>2, SimOthers
    <3> QED
      BY <1>2, <1>8, <2>1, <2>2, <2>4, <3>1 DEF Locked
  <2> QED
    BY <2>3, <2>4
<1>11. ASSUME NEW t \in SimTests, DropGuard(t) PROVE SimInv'
  <2>1. PICK x \in {"failed", "passed"} :
          /\ simTest' = [simTest EXCEPT ![t] = x] /\ (x = "failed" <=> simTest[t] = "failing")
          /\ simTest[t] \in {"failing", "dropped"} /\ simLock[BinaryOf[t]] = t
          /\ simLock' = [simLock EXCEPT ![BinaryOf[t]] = NoTest] /\ UNCHANGED <<environ, containers>>
    BY <1>0, <1>11 DEF DropGuard, Unlocks, SimShapes
  <2>2. BinaryOf[t] \in Binaries
    BY DEF Binaries
  <2>3. simTest' \in [SimTests -> SimPlaces] /\ simTest'[t] = x
    BY <1>0, <2>1, SimOthers
  <2>4. SimShapes' /\ Live' = Live
    BY <1>0, <2>1, <2>2, <2>3 DEF SimShapes, Live
  <2>5. \A u \in SimTests : BinaryOf[u] # BinaryOf[t] => simLock'[BinaryOf[u]] = simLock[BinaryOf[u]]
    BY <1>0, <2>1, <2>2 DEF SimShapes
  <2>6. t \in Live => Wanted(t)' /\ simTest[t] = "dropped"
    BY <1>0, <2>1, <2>3 DEF OwnContainer, Wanted, Env
  <2>7. Env(t).address => x = "passed"
    BY <1>0, <2>1 DEF OwnContainer
  <2> QED
    BY <1>2, <2>1, <2>3, <2>4, <2>5, <2>6, <2>7 DEF Locked
\* A server that takes its ports, or ends.
<1>12. ASSUME NEW t \in SimTests, NEW at \in {"serving", "exited"}, t \in Live,
              containers' = [containers EXCEPT ![t].at = at], UNCHANGED <<environ, simLock, simTest>>,
              simTest[t] = "ready" /\ Lonely(t) => at = "serving"
       PROVE  SimInv'
  <2>1. /\ containers'[t] = [containers[t] EXCEPT !.at = at] /\ DOMAIN containers' = SimTests
        /\ \A u \in SimTests : u # t => containers'[u] = containers[u]
    BY <1>0, <1>12 DEF SimShapes
  <2>2. containers'[t] = [at |-> at, image |-> containers[t].image, flags |-> containers[t].flags]
    BY <1>0, <2>1 DEF SimShapes
  <2>3. SimShapes'
    <3> DEFINE c == [at |-> at, image |-> containers[t].image, flags |-> containers[t].flags]
    <3>1. c = [at |-> c.at, image |-> c.image, flags |-> c.flags] /\ c.at \in {"serving", "exited"}
      OBVIOUS
    <3>2. containers'[t] = c
      BY <2>2
    <3> HIDE DEF c
    <3>3. simLock' \in [Binaries -> SimTests \cup {NoTest}] /\ simTest' \in [SimTests -> SimPlaces]
      BY <1>0, <1>12 DEF SimShapes
    <3>4. containers' = [containers EXCEPT ![t] = c]
      <4>1. DOMAIN containers = SimTests
        BY <1>0 DEF SimShapes
      <4>2. containers' = [u \in SimTests |-> IF u = t THEN containers'[t] ELSE containers[u]]
        BY <1>12, <4>1
      <4> QED
        BY <3>2, <4>1, <4>2
    <3> QED
      BY <1>0, <3>1, <3>3, <3>4, SimContainers
  <2>4. Live' \subseteq Live /\ \A u \in SimTests : u \in Serving /\ u # t => u \in Serving'
    BY <1>12, <2>1 DEF Live, Serving
  <2>5. OwnTurn' /\ OneOfABinary'
    BY <1>0, <1>12, <2>4 DEF OwnTurn, OneOfABinary
  <2>6. simTest[t] # "begin"
    BY <1>0, <1>12 DEF OwnContainer, Live
  <2>7. \A u \in SimTests : containers'[u].flags = containers[u].flags /\ Speaks(containers'[u]) = Speaks(containers[u])
    BY <2>1, <2>2 DEF Speaks
  <2>8. OwnContainer'
    BY <1>0, <1>12, <2>1, <2>4, <2>6, <2>7 DEF OwnContainer, Wanted, Env
  <2>9. at = "serving" => t \in Serving'
    BY <2>2 DEF Serving
  <2>10. OwnRobot'
    BY <1>0, <1>12, <2>4, <2>7, <2>9 DEF OwnRobot, Lonely
  <2> QED
    BY <2>3, <2>5, <2>8, <2>10 DEF SimInv
<1>13. ASSUME NEW t \in SimTests, ServerStarts(t) PROVE SimInv'
  <2>1. PICK at \in {"serving", "exited"} :
          containers' = [containers EXCEPT ![t].at = at] /\ UNCHANGED <<environ, simLock, simTest>> /\ containers[t].at = "running"
    BY <1>13 DEF ServerStarts
  <2>2. t \in Live
    BY <2>1 DEF Live
  <2>3. ~(simTest[t] = "ready" /\ Lonely(t))
    BY <1>0, <2>1 DEF OwnRobot, Serving
  <2> QED
    BY <1>12, <2>1, <2>2, <2>3
<1>14. ASSUME NEW t \in SimTests, ServerDies(t) PROVE SimInv'
  <2>1. /\ containers' = [containers EXCEPT ![t].at = "exited"] /\ UNCHANGED <<environ, simLock, simTest>>
        /\ t \in Live /\ simTest[t] = "probing"
    BY <1>14 DEF ServerDies
  <2> QED
    BY <1>12, <2>1
<1> QED
  BY <1>1, <1>3, <1>5, <1>6, <1>7, <1>9, <1>10, <1>11, <1>13, <1>14 DEF SimNext

\* So a test's simulator is its own.
LEMMA SimHolds == SimInv => OneOfABinary /\ TestsItsOwn /\ NothingLeftRunning
<1> SUFFICES ASSUME SimInv PROVE TestsItsOwn /\ NothingLeftRunning
  BY DEF SimInv
<1>0. OwnTurn /\ OwnContainer /\ OwnRobot
  BY DEF SimInv
<1>1. TestsItsOwn
  <2> SUFFICES ASSUME NEW t \in SimTests, simTest[t] = "ready", Lonely(t)
               PROVE  Serving = {t} /\ Speaks(containers[t]) = ConfigOf[t].protocol /\ containers[t].flags = SimArgs(ConfigOf[t])
    BY DEF TestsItsOwn, Lonely
  <2>1. t \in Serving /\ t \in Live /\ Speaks(containers[t]) = ConfigOf[t].protocol
    BY <1>0 DEF OwnRobot, Serving, Live
  <2>2. ASSUME NEW u \in Serving PROVE u = t
    <3>1. u \in SimTests /\ u \in Live
      BY DEF Serving, Live
    <3>2. SameBinary(t, u)
      BY <1>0, <3>1 DEF Lonely, OwnContainer, Live
    <3> QED
      BY <1>0, <3>1, <3>2 DEF OwnTurn
  <2> QED
    BY <1>0, <2>1, <2>2 DEF OwnContainer
<1>2. NothingLeftRunning
  <2> SUFFICES ASSUME NEW b \in Binaries, ~environ[b].keep, NEW t \in Live, BinaryOf[t] = b, Over(t)
               PROVE  FALSE
    BY DEF NothingLeftRunning, Live
  <2> QED
    BY <1>0 DEF OwnContainer, Wanted, Env, Over, Live
<1> QED
  BY <1>1, <1>2

-----------------------------------------------------------------------------
(* A motion and its client. *)

\* The ids of the requests the robot has not taken yet are the newest, in order.
Oldest == next - Len(requests)
InReplies == {replies[j] : j \in DOMAIN replies}
\* What the robot owes, has sent, or was read and not claimed.
Pipe == robot.owed \cup InReplies \cup received
Started(i) == [id |-> i, status |-> "started"]
\* The robot runs nothing, or what a call gave up on.
Gone == robot.move \in {NoId} \cup abandoned

Messages == [id : Nat \ {0}, status : Statuses]
MotionShapes ==
    /\ lock \in Users \cup {NoUser} /\ seen \in Nat \ {0} /\ seen <= Len(states)
    /\ states \in Seq([mode: RobotModes, kind: {"idle", "motion", "torque"}]) 
    /\ DOMAIN user = Users
    /\ \A u \in Users :
         /\ DOMAIN user[u] = {"at", "api", "id", "kind", "from", "stop", "result"}
         /\ user[u].at \in Places /\ user[u].id \in Nat /\ user[u].stop \in Nat
         /\ user[u].at # "out" => user[u].api \in Apis /\ user[u].kind \in Kinds
         /\ user[u].at \in {"failed", "released"} => Handle(u)
         /\ user[u].at # "out" \/ user[u].result = "ok" => user[u].id \in Ids
    /\ next \in Nat /\ moves \in 0..MaxMoves /\ calls \in 0..MaxCalls
    /\ requests \in Seq([what: {"move", "stop", "recover"}, id: Nat, kind: {"idle", "motion", "torque"}])
    /\ replies \in Seq(Messages) /\ received \subseteq Messages
    /\ DOMAIN robot = {"move", "mode", "kind", "finish", "owed", "since"}
    /\ robot.owed \subseteq Messages
    /\ robot.move \in Nat /\ robot.mode \in RobotModes
    /\ DOMAIN outcome = Ids /\ abandoned \subseteq Ids

\* One control process at a time, but for handles that outlive their lock.
OneProcess ==
    /\ lock # NoUser => user[lock].at # "out"
    /\ \A u \in Users : user[u].at # "out" => wanted = user[u].kind /\ (Loop(u) => lock = u)

RobotIsConsistent ==
    /\ robot.finish => robot.move # NoId
    /\ robot.move = NoId => robot.kind = "idle" /\ robot.mode # "move"
    /\ robot.move # NoId =>
         /\ robot.mode = "move" /\ robot.kind \in Kinds
         /\ robot.since \in 1..Len(states) /\ states[robot.since].kind = "idle"
         /\ \A n \in 1..Len(states) : n > robot.since => states[n] = [mode |-> "move", kind |-> robot.kind]

IdsInOrder ==
    /\ Oldest >= 1 /\ robot.move < Oldest
    /\ \A i \in 1..Len(requests) : requests[i].id = Oldest + i - 1 /\ (requests[i].what = "move" => requests[i].kind \in Kinds)
    /\ \A i \in Ids : outcome[i] # "none" => i < Oldest /\ i # robot.move
    /\ \A i \in abandoned : i < next
    /\ next <= 1 + 2 * moves + calls
    /\ \A u \in Users : user[u].at \notin {"out", "stopping", "draining", "drained"} => next <= 2 * moves + calls

PipeIsRight ==
    /\ \A m \in Pipe : m.id < Oldest /\ (m.status # "started" => m.id # robot.move)
    /\ \A m \in Pipe : m.status = "started" =>
         /\ m \in robot.owed => m \notin InReplies /\ m \notin received
         /\ m \in InReplies => m \notin received
         /\ \A j, k \in 1..Len(replies) : replies[j] = m /\ replies[k] = m => j = k

StateIsOwn ==
    \A u \in Users : /\ user[u].at \in AwaitsState => user[u].from = seen
                     /\ user[u].at = "running" => Now.kind = wanted

MayMove == {"starting", "polling", "entering", "started", "running", "reading", "finishing", "ending", "failed",
            "cancelling", "stopping"}
InForce == {"started", "running", "reading", "finishing", "ending", "failed"}
MotionIsOwned ==
    up =>
    /\ \A i \in 1..Len(requests) : requests[i].what = "move" =>
         \/ requests[i].id \in abandoned
         \/ lock \in Users /\ user[lock].at = "starting" /\ user[lock].id = requests[i].id
    /\ ~Gone =>
         /\ lock \in Users /\ user[lock].id = robot.move /\ user[lock].at \in MayMove /\ robot.kind = user[lock].kind
         /\ user[lock].at \in InForce => seen > robot.since
         /\ user[lock].at \in {"polling", "entering"} => seen > robot.since \/ Now.kind = "idle"
         /\ user[lock].at \in {"starting", "polling", "entering"} => ~robot.finish
AnswersAreOwn ==
    up => \A u \in Users : user[u].at # "out" =>
      /\ user[u].id \in Ids /\ user[u].id < next
      /\ user[u].at # "starting" => user[u].id < Oldest /\ Started(user[u].id) \notin Pipe
      /\ user[u].at = "starting" => Now.kind = "idle"
      /\ user[u].at \in {"starting", "polling", "entering"} => outcome[user[u].id] # "success" /\ user[u].id \notin abandoned
      /\ \A i \in 1..Len(requests) : requests[i].id = user[u].id => requests[i].what = "move" /\ requests[i].kind = user[u].kind
      /\ \A m \in Pipe : m.id = user[u].id /\ m.status = "success" => outcome[user[u].id] = "success"
      /\ user[u].at = "stopping" =>
           /\ user[u].stop < next
           /\ \A i \in 1..Len(requests) : requests[i].id = user[u].stop => requests[i].what = "stop"
           /\ \A m \in Pipe : m.id = user[u].stop => Gone

FciInv == /\ MotionShapes /\ OneProcess /\ RobotIsConsistent /\ IdsInOrder /\ PipeIsRight /\ StateIsOwn
          /\ MotionIsOwned /\ AnswersAreOwn /\ OkMeansSuccess

\* A control process runs loops, or there is one user.
OneAtATime == Apis \subseteq {"loop"} \/ \E u : Users = {u}

LEMMA FciBegins == Init => FciInv
<1> SUFFICES ASSUME Init PROVE FciInv
  OBVIOUS
<1>1. /\ lock = NoUser /\ seen = 1 /\ wanted = "idle" /\ user = [u \in Users |-> NoProcess]
      /\ next = 1 /\ moves = 0 /\ calls = 0 /\ up = TRUE
      /\ requests = <<>> /\ replies = <<>> /\ received = {}
      /\ robot = [move |-> NoId, mode |-> "idle", kind |-> "idle", finish |-> FALSE, owed |-> {}, since |-> 1]
      /\ states = <<Idle>> /\ outcome = [i \in Ids |-> "none"] /\ abandoned = {}
  BY DEF Init
<1>2. /\ DOMAIN user = Users
      /\ \A u \in Users : user[u] = NoProcess
      /\ NoProcess.at = "out" /\ NoProcess.id = 0 /\ NoProcess.stop = 0 /\ NoProcess.result = "none"
      /\ DOMAIN NoProcess = {"at", "api", "id", "kind", "from", "stop", "result"}
  BY <1>1 DEF NoProcess, NoId
<1>3. /\ DOMAIN robot = {"move", "mode", "kind", "finish", "owed", "since"}
      /\ robot.move = 0 /\ robot.mode = "idle" /\ robot.kind = "idle" /\ ~robot.finish /\ robot.owed = {}
  BY <1>1 DEF NoId
<1>4. Len(requests) = 0 /\ Len(replies) = 0 /\ Len(states) = 1
  BY <1>1
<1>5. states \in Seq([mode: RobotModes, kind: {"idle", "motion", "torque"}])
  BY <1>1 DEF Idle, RobotModes
<1>6. InReplies = {} /\ Pipe = {} /\ Oldest = 1
  BY <1>1, <1>3, <1>4 DEF InReplies, Pipe, Oldest
<1>7. MotionShapes
  BY <1>1, <1>2, <1>3, <1>4, <1>5, BoundsAssumption DEF MotionShapes, Places, Between, RobotModes
<1>8. OneProcess /\ RobotIsConsistent /\ StateIsOwn
  BY <1>1, <1>2, <1>3 DEF OneProcess, RobotIsConsistent, StateIsOwn, AwaitsState, NoId
<1>9. IdsInOrder
  BY <1>1, <1>2, <1>3, <1>4, <1>6 DEF IdsInOrder
<1>10. PipeIsRight /\ MotionIsOwned /\ AnswersAreOwn /\ OkMeansSuccess
  BY <1>1, <1>2, <1>3, <1>4, <1>6 DEF PipeIsRight, MotionIsOwned, AnswersAreOwn, OkMeansSuccess, NoId, Gone
<1> QED
  BY <1>7, <1>8, <1>9, <1>10 DEF FciInv

\* Two control processes are the same one.
LEMMA FciAlone ==
    ASSUME OneAtATime, MotionShapes, OneProcess
    PROVE  /\ \A u, v \in Users : user[u].at # "out" /\ user[v].at # "out" => u = v
           /\ \A u \in Users : user[u].at = "out" /\ lock = NoUser => \A v \in Users : user[v].at = "out"
<1>1. CASE Apis \subseteq {"loop"}
  <2>1. \A u \in Users : user[u].at # "out" => Loop(u)
    BY <1>1 DEF MotionShapes, Loop
  <2> QED
    BY <2>1, UsersAssumption DEF OneProcess
<1>2. CASE \E u : Users = {u}
  BY <1>2
<1> QED
  BY <1>1, <1>2 DEF OneAtATime

\* What a reader takes off the connection or claims is gone from it, and nothing is added.
LEMMA FciReading ==
    ASSUME MotionShapes, PipeIsRight, Unread, received' \subseteq Inbox
    PROVE  /\ replies' \in Seq(Messages) /\ received' \subseteq Messages
           /\ InReplies' \subseteq InReplies /\ received' \subseteq received \cup InReplies
           /\ \A m : m.status = "started" =>
                /\ m \in InReplies' => m \notin received'
                /\ \A j, k \in 1..Len(replies') : replies'[j] = m /\ replies'[k] = m => j = k
           /\ \A m \in Inbox : m.status = "started" /\ m \notin received' => m \notin robot.owed \cup InReplies' \cup received'
           /\ Inbox \subseteq Pipe
<1>1. replies \in Seq(Messages) /\ received \subseteq Messages
  BY DEF MotionShapes
<1>2. CASE replies = <<>>
  <2>1. Inbox = received /\ replies' = replies /\ Len(replies) = 0
    BY <1>2 DEF Inbox, Unread
  <2>2. InReplies = {} /\ InReplies' = {}
    BY <1>2, <2>1 DEF InReplies
  <2> QED
    BY <1>1, <2>1, <2>2 DEF PipeIsRight, Pipe
<1>3. CASE replies # <<>>
  <2> DEFINE h == Head(replies)
  <2>1. /\ replies' = Tail(replies) /\ Len(replies) \in Nat /\ Len(replies) >= 1 /\ Len(replies') = Len(replies) - 1
        /\ \A j \in 1..Len(replies') : replies'[j] = replies[j + 1]
        /\ h = replies[1] /\ h \in Messages
    BY <1>1, <1>3 DEF Unread
  <2>2. Inbox \subseteq received \cup {h} /\ h \in InReplies
    BY <1>3, <2>1 DEF Inbox, Put, InReplies
  <2>3. DOMAIN replies = 1..Len(replies) /\ DOMAIN replies' = 1..Len(replies') /\ replies' \in Seq(Messages)
    BY <1>1, <1>3, <2>1
  <2>4. ASSUME NEW m \in InReplies' PROVE \E k \in 2..Len(replies) : replies[k] = m
    <3>1. PICK j \in 1..Len(replies') : replies'[j] = m
      BY <2>3, <2>4 DEF InReplies
    <3>2. j + 1 \in 2..Len(replies) /\ replies[j + 1] = m
      BY <2>1, <3>1
    <3> QED
      BY <3>2
  <2>5. InReplies' \subseteq InReplies
    BY <2>1, <2>3, <2>4 DEF InReplies
  <2> HIDE DEF h
  <2>6. ASSUME NEW m, m.status = "started", m \in InReplies' PROVE m # h /\ m \notin received
    <3>1. PICK k \in 2..Len(replies) : replies[k] = m
      BY <2>4, <2>6
    <3>2. m \in InReplies /\ m \in Pipe
      BY <2>5, <2>6 DEF Pipe
    <3>3. \A j, l \in 1..Len(replies) : replies[j] = m /\ replies[l] = m => j = l
      BY <2>6, <3>2 DEF PipeIsRight
    <3>4. m # h
      BY <2>1, <3>1, <3>3
    <3> QED
      BY <2>6, <3>2, <3>4 DEF PipeIsRight
  <2>7. ASSUME NEW m, m.status = "started", NEW j \in 1..Len(replies'), NEW k \in 1..Len(replies'), replies'[j] = m, replies'[k] = m
        PROVE  j = k
    <3>1. j + 1 \in 1..Len(replies) /\ k + 1 \in 1..Len(replies) /\ replies[j + 1] = m /\ replies[k + 1] = m
      BY <2>1, <2>7
    <3>2. m \in Pipe
      BY <2>3, <3>1 DEF Pipe, InReplies
    <3>3. j + 1 = k + 1
      BY <2>7, <3>1, <3>2 DEF PipeIsRight
    <3> QED
      BY <2>1, <3>3
  <2>8. ASSUME NEW m \in Inbox, m.status = "started", m \notin received' PROVE m \notin robot.owed \cup InReplies' \cup received'
    <3>1. m \notin InReplies'
      BY <2>2, <2>6, <2>8
    <3>2. m \in Pipe /\ (m \in received \/ m \in InReplies)
      BY <2>2 DEF Pipe
    <3>3. m \notin robot.owed
      BY <2>8, <3>2 DEF PipeIsRight
    <3> QED
      BY <2>8, <3>1, <3>3
  <2> QED
    BY <1>1, <2>1, <2>2, <2>3, <2>5, <2>6, <2>7, <2>8 DEF Pipe
<1> QED
  BY <1>2, <1>3

\* A user is at another place of the same control process.
UserGoes(u, place) ==
    /\ DOMAIN user' = Users /\ \A v \in Users : v # u => user'[v] = user[v]
    /\ DOMAIN user'[u] = {"at", "api", "id", "kind", "from", "stop", "result"} /\ user'[u].at = place
    /\ user'[u].api = user[u].api /\ user'[u].id = user[u].id /\ user'[u].kind = user[u].kind
    /\ user'[u].stop = user[u].stop

LEMMA FciGoes ==
    ASSUME MotionShapes, NEW u \in Users, NEW place
    PROVE  /\ Goes(u, place) => UserGoes(u, place) /\ user'[u].result = user[u].result /\ user'[u].from = user[u].from
           /\ Receives(u, place) => UserGoes(u, place) /\ user'[u].result = user[u].result /\ user'[u].from = seen
           /\ Returns(u, place) => /\ UserGoes(u, "out") /\ user'[u].result = place
                                   /\ lock' = IF lock = u THEN NoUser ELSE lock
<1>1. /\ DOMAIN user = Users /\ DOMAIN user[u] = {"at", "api", "id", "kind", "from", "stop", "result"}
  BY DEF MotionShapes
<1>2. ASSUME Goes(u, place) PROVE UserGoes(u, place) /\ user'[u].result = user[u].result /\ user'[u].from = user[u].from
  BY <1>1, <1>2 DEF Goes, UserGoes
<1>3. ASSUME Receives(u, place) PROVE UserGoes(u, place) /\ user'[u].result = user[u].result /\ user'[u].from = seen
  BY <1>1, <1>3 DEF Receives, UserGoes
<1>4. ASSUME Returns(u, place)
      PROVE  /\ UserGoes(u, "out") /\ user'[u].result = place
             /\ lock' = IF lock = u THEN NoUser ELSE lock
  BY <1>1, <1>4 DEF Returns, UserGoes
<1> QED
  BY <1>2, <1>3, <1>4

\* What a control process does by itself with its place, the lock and the mailbox.
LEMMA FciUserStep ==
    ASSUME FciInv, OneAtATime, NEW u \in Users, NEW p \in Places, user[u].at # "out", UserGoes(u, p),
           UNCHANGED <<seen, moves, calls, up, next, requests, states, outcome>>,
           \/ abandoned' = abandoned
           \/ up /\ abandoned' = abandoned \cup {user[u].id} /\ p \notin {"polling", "entering"},
           UNCHANGED <<replies, received>> \/ (Unread /\ received' \subseteq Inbox),
           DOMAIN robot' = DOMAIN robot, robot'.move = robot.move, robot'.mode = robot.mode, robot'.kind = robot.kind,
           robot'.owed = robot.owed, robot'.since = robot.since, robot'.finish => robot.move # NoId,
           lock' = lock \/ (lock = u /\ lock' = NoUser /\ p \in {"out", "released"}),
           p = "out" => lock' # u, wanted' = wanted \/ p = "out", p \notin {"starting", "running", "stopping"},
           p \in {"failed", "released"} => Handle(u), p \in AwaitsState => user'[u].from = seen,
           user[u].at = "starting" /\ up =>
             /\ lock = u => user[u].id < Oldest \/ user[u].id \in abandoned'
             /\ p # "out" => user[u].id < Oldest /\ Started(user[u].id) \notin Pipe',
           up /\ ~Gone' =>
             /\ p \in MayMove
             /\ p \in InForce => seen > robot.since
             /\ p \in {"polling", "entering"} => (seen > robot.since \/ Now.kind = "idle") /\ ~robot'.finish,
           up /\ p \in {"polling", "entering"} => user[u].at \in {"starting", "polling", "entering"},
           p \notin {"out", "draining", "drained"} => user[u].at \notin {"stopping", "draining", "drained"},
           user'[u].result = "ok" /\ Loop(u) => outcome[user[u].id] = "success"
    PROVE  FciInv'
<1>0. /\ MotionShapes /\ OneProcess /\ RobotIsConsistent /\ IdsInOrder /\ PipeIsRight /\ StateIsOwn
      /\ MotionIsOwned /\ AnswersAreOwn /\ OkMeansSuccess
  BY DEF FciInv
<1>a. /\ \A v \in Users : v # u => user'[v] = user[v] /\ user[v].at = "out" /\ lock # v
      /\ lock # NoUser => lock = u
  <2>1. \A v \in Users : v # u => user[v].at = "out"
    BY <1>0, FciAlone
  <2>2. lock \in Users \cup {NoUser}
    BY <1>0 DEF MotionShapes
  <2> QED
    BY <1>0, <2>1, <2>2, UsersAssumption DEF OneProcess, UserGoes
<1>b. /\ user'[u].at = p /\ user'[u].api = user[u].api /\ user'[u].id = user[u].id /\ user'[u].kind = user[u].kind
      /\ user'[u].stop = user[u].stop /\ lock' \in {lock, NoUser}
  BY DEF UserGoes
<1>c. /\ UNCHANGED <<seen, moves, calls, up, next, requests, states, outcome>>
      /\ abandoned \subseteq abandoned' /\ abandoned' \subseteq abandoned \cup {user[u].id}
      /\ Gone => Gone'
  BY DEF Gone
<1>d. /\ replies' \in Seq(Messages) /\ received' \subseteq Messages /\ Pipe' \subseteq Pipe
      /\ \A m \in Pipe' : m.status = "started" =>
           /\ m \in robot'.owed => m \notin InReplies' /\ m \notin received'
           /\ m \in InReplies' => m \notin received'
           /\ \A j, k \in 1..Len(replies') : replies'[j] = m /\ replies'[k] = m => j = k
  <2>1. CASE UNCHANGED <<replies, received>>
    <3>1. InReplies' = InReplies /\ Pipe' = Pipe
      BY <2>1 DEF InReplies, Pipe
    <3>2. replies \in Seq(Messages) /\ received \subseteq Messages
      BY <1>0 DEF MotionShapes
    <3> QED
      BY <1>0, <2>1, <3>1, <3>2 DEF PipeIsRight
  <2>2. CASE Unread /\ received' \subseteq Inbox
    <3>1. /\ replies' \in Seq(Messages) /\ received' \subseteq Messages
          /\ InReplies' \subseteq InReplies /\ received' \subseteq received \cup InReplies
          /\ \A m : m.status = "started" =>
               /\ m \in InReplies' => m \notin received'
               /\ \A j, k \in 1..Len(replies') : replies'[j] = m /\ replies'[k] = m => j = k
      BY <1>0, <2>2, FciReading
    <3>2. Pipe' \subseteq Pipe
      BY <3>1 DEF Pipe
    <3>3. \A m \in Pipe' : m.status = "started" /\ m \in robot'.owed => m \notin InReplies' /\ m \notin received'
      BY <1>0, <3>1, <3>2 DEF PipeIsRight
    <3> QED
      BY <3>1, <3>2, <3>3
  <2> QED
    BY <2>1, <2>2
<1>1. MotionShapes'
  <2>1. \A v \in Users :
         /\ DOMAIN user'[v] = {"at", "api", "id", "kind", "from", "stop", "result"}
         /\ user'[v].at \in Places /\ user'[v].id \in Nat /\ user'[v].stop \in Nat
         /\ user'[v].at # "out" => user'[v].api \in Apis /\ user'[v].kind \in Kinds
         /\ user'[v].at \in {"failed", "released"} => user'[v].api = "handle"
         /\ user'[v].at # "out" \/ user'[v].result = "ok" => user'[v].id \in Ids
    <3> TAKE v \in Users
    <3>1. CASE v = u
      BY <1>0, <1>b, <3>1 DEF MotionShapes, UserGoes, Handle
    <3>2. CASE v # u
      BY <1>0, <1>a, <3>2 DEF MotionShapes, Handle
    <3> QED
      BY <3>1, <3>2
  <2>2. abandoned' \subseteq Ids
    BY <1>0, <1>c DEF MotionShapes
  <2> QED
    BY <1>0, <1>b, <1>c, <1>d, <2>1, <2>2 DEF MotionShapes, UserGoes, Handle
<1>2. OneProcess'
  <2>1. lock' # NoUser => lock' = u /\ p # "out"
    BY <1>a, <1>b
  <2>2. p # "out" => wanted' = user'[u].kind
    BY <1>0, <1>b DEF OneProcess
  <2>3. p # "out" /\ user'[u].api = "loop" => lock' = u
    BY <1>0, <1>b DEF OneProcess, Loop, Handle
  <2> QED
    BY <1>a, <1>b, <2>1, <2>2, <2>3 DEF OneProcess, Loop
<1>3. RobotIsConsistent'
  BY <1>0, <1>c DEF RobotIsConsistent
<1>4. IdsInOrder'
  <2>1. Oldest' = Oldest
    BY <1>c DEF Oldest
  <2>2. \A v \in Users : user'[v].at \notin {"out", "stopping", "draining", "drained"} => next' <= 2 * moves' + calls'
    <3> TAKE v \in Users
    <3>1. CASE v = u
      BY <1>0, <1>b, <1>c, <3>1 DEF IdsInOrder
    <3>2. CASE v # u
      BY <1>a, <3>2
    <3> QED
      BY <3>1, <3>2
  <2>3. \A i \in abandoned' : i < next'
    <3>1. abandoned' = abandoned \/ user[u].id < next
      BY <1>0 DEF AnswersAreOwn
    <3> QED
      BY <1>0, <1>c, <3>1 DEF IdsInOrder
  <2> QED
    BY <1>0, <1>c, <2>1, <2>2, <2>3 DEF IdsInOrder
<1>5. PipeIsRight'
  <2>1. Oldest' = Oldest
    BY <1>c DEF Oldest
  <2>2. \A m \in Pipe' : m.id < Oldest' /\ (m.status # "started" => m.id # robot'.move)
    BY <1>0, <1>d, <2>1 DEF PipeIsRight
  <2> QED
    BY <1>d, <2>2 DEF PipeIsRight
<1>6. StateIsOwn'
  BY <1>a, <1>b, <1>c DEF StateIsOwn, AwaitsState
<1>7. MotionIsOwned'
  <2> SUFFICES ASSUME up PROVE MotionIsOwned'
    BY <1>c DEF MotionIsOwned
  <2>1. ASSUME NEW i \in 1..Len(requests), requests[i].what = "move", requests[i].id \notin abandoned' PROVE FALSE
    <3>1. lock = u /\ user[u].at = "starting" /\ user[u].id = requests[i].id
      BY <1>0, <1>a, <1>c, <2>1, UsersAssumption DEF MotionIsOwned
    <3>0. Len(requests) \in Nat /\ next \in Nat
      BY <1>0 DEF MotionShapes
    <3>1a. requests[i].id = Oldest + i - 1
      BY <1>0 DEF IdsInOrder
    <3>2. requests[i].id = Oldest + i - 1 /\ Oldest \in Int
      BY <3>0, <3>1a DEF Oldest
    <3>3. user[u].id < Oldest /\ user[u].id \in Nat
      BY <1>0, <2>1, <3>1 DEF MotionShapes
    <3> QED
      BY <2>1, <3>1, <3>2, <3>3
  <2>2. ASSUME ~Gone'
        PROVE  /\ lock' = u /\ user'[u].id = robot.move /\ robot.kind = user'[u].kind /\ p \in MayMove
               /\ p \in InForce => seen > robot.since
               /\ p \in {"polling", "entering"} => (seen > robot.since \/ Now.kind = "idle") /\ ~robot'.finish
    <3>1. lock = u /\ user[u].id = robot.move /\ robot.kind = user[u].kind
      BY <1>0, <1>a, <1>c, <2>2, UsersAssumption DEF MotionIsOwned
    <3>2. /\ p \in MayMove
          /\ p \in InForce => seen > robot.since
          /\ p \in {"polling", "entering"} => (seen > robot.since \/ Now.kind = "idle") /\ ~robot'.finish
      BY <2>2
    <3>3. lock' = u
      BY <3>1, <3>2 DEF MayMove
    <3> QED
      BY <1>b, <3>1, <3>2, <3>3
  <2>3. Now' = Now
    BY <1>c DEF Now
  <2> QED
    BY <1>b, <1>c, <2>1, <2>2, <2>3 DEF MotionIsOwned
<1>8. AnswersAreOwn'
  <2> SUFFICES ASSUME up, p # "out"
               PROVE  /\ user'[u].id \in Ids /\ user'[u].id < next'
                      /\ user'[u].at # "starting" => user'[u].id < Oldest' /\ Started(user'[u].id) \notin Pipe'
                      /\ user'[u].at \notin {"starting", "stopping"}
                      /\ user'[u].at \in {"starting", "polling", "entering"} =>
                           outcome'[user'[u].id] # "success" /\ user'[u].id \notin abandoned'
                      /\ \A i \in 1..Len(requests') : requests'[i].id = user'[u].id => requests'[i].what = "move" /\ requests'[i].kind = user'[u].kind
                      /\ \A m \in Pipe' : m.id = user'[u].id /\ m.status = "success" => outcome'[user'[u].id] = "success"
    BY <1>a, <1>b, <1>c DEF AnswersAreOwn
  <2>1. Oldest' = Oldest
    BY <1>c DEF Oldest
  <2>2. /\ user[u].id \in Ids /\ user[u].id < next
        /\ user[u].at # "starting" => user[u].id < Oldest /\ Started(user[u].id) \notin Pipe
        /\ user[u].at \in {"starting", "polling", "entering"} => outcome[user[u].id] # "success" /\ user[u].id \notin abandoned
        /\ \A i \in 1..Len(requests) : requests[i].id = user[u].id => requests[i].what = "move" /\ requests[i].kind = user[u].kind
        /\ \A m \in Pipe : m.id = user[u].id /\ m.status = "success" => outcome[user[u].id] = "success"
    BY <1>0 DEF AnswersAreOwn
  <2>3. user[u].id < Oldest /\ Started(user[u].id) \notin Pipe'
    BY <1>d, <2>2
  <2> QED
    BY <1>b, <1>c, <1>d, <2>1, <2>2, <2>3
<1>9. OkMeansSuccess'
  <2>1. \A v \in Users : v # u => user'[v] = user[v]
    BY <1>a
  <2> QED
    BY <1>0, <1>b, <1>c, <2>1 DEF OkMeansSuccess, Loop
<1> QED
  BY <1>1, <1>2, <1>3, <1>4, <1>5, <1>6, <1>7, <1>8, <1>9 DEF FciInv

\* While a control process is on, a motion on the robot is its own, and states from after the Move show it.
LEMMA FciOwn ==
    ASSUME FciInv, OneAtATime, NEW u \in Users, user[u].at # "out"
    PROVE  /\ wanted = user[u].kind /\ Running(wanted) /\ wanted # "idle" /\ user[u].at \in Places
           /\ lock \in {u, NoUser} /\ user[u].api \in Apis
           /\ Now.kind \in {"idle", "motion", "torque"}
           /\ up /\ ~Gone =>
                /\ lock = u /\ user[u].id = robot.move /\ user[u].at \in MayMove
                /\ user[u].at \in InForce => seen > robot.since
                /\ user[u].at \in {"polling", "entering"} => seen > robot.since \/ Now.kind = "idle"
                /\ user[u].at \in {"starting", "polling", "entering"} => ~robot.finish
                /\ seen > robot.since => Now.mode = "move" /\ Now.kind = wanted
<1>0. MotionShapes /\ OneProcess /\ RobotIsConsistent /\ MotionIsOwned
  BY DEF FciInv
<1>1. wanted = user[u].kind /\ wanted \in Kinds /\ user[u].at \in Places /\ user[u].api \in Apis
  BY <1>0 DEF OneProcess, MotionShapes
<1>2. lock \in {u, NoUser}
  <2>1. lock \in Users \cup {NoUser}
    BY <1>0 DEF MotionShapes
  <2>2. \A v \in Users : user[v].at # "out" => u = v
    BY <1>0, FciAlone
  <2> QED
    BY <1>0, <2>1, <2>2 DEF OneProcess
<1>3. seen \in 1..Len(states) /\ Now \in [mode: RobotModes, kind: {"idle", "motion", "torque"}]
  <2>1. states \in Seq([mode: RobotModes, kind: {"idle", "motion", "torque"}]) /\ seen \in Nat \ {0} /\ seen <= Len(states)
    BY <1>0 DEF MotionShapes
  <2>2. seen \in 1..Len(states)
    BY <2>1
  <2> DEFINE S == [mode: RobotModes, kind: {"idle", "motion", "torque"}]
  <2>2a. states \in Seq(S)
    BY <2>1
  <2> HIDE DEF S
  <2>2b. states[seen] \in S
    BY <2>2, <2>2a
  <2>3. states[seen] \in [mode: RobotModes, kind: {"idle", "motion", "torque"}]
    BY <2>2b DEF S
  <2> QED
    BY <2>2, <2>3 DEF Now
<1>4. ASSUME up, ~Gone
      PROVE  /\ lock = u /\ user[u].id = robot.move /\ user[u].at \in MayMove
             /\ user[u].at \in InForce => seen > robot.since
             /\ user[u].at \in {"polling", "entering"} => seen > robot.since \/ Now.kind = "idle"
             /\ user[u].at \in {"starting", "polling", "entering"} => ~robot.finish
             /\ seen > robot.since => Now.mode = "move" /\ Now.kind = wanted
  <2>1. lock = u
    BY <1>0, <1>2, <1>4, UsersAssumption DEF MotionIsOwned
  <2>2. /\ user[u].id = robot.move /\ user[u].at \in MayMove /\ robot.kind = user[u].kind
        /\ user[u].at \in InForce => seen > robot.since
        /\ user[u].at \in {"polling", "entering"} => seen > robot.since \/ Now.kind = "idle"
        /\ user[u].at \in {"starting", "polling", "entering"} => ~robot.finish
    BY <1>0, <1>4, <2>1 DEF MotionIsOwned
  <2>3. seen > robot.since => states[seen] = [mode |-> "move", kind |-> robot.kind]
    BY <1>0, <1>3, <1>4 DEF RobotIsConsistent, Gone
  <2> QED
    BY <1>1, <2>1, <2>2, <2>3 DEF Now
<1> QED
  BY <1>1, <1>2, <1>3, <1>4, KindsAssumption DEF Running, GeneratorRunning, ControllerRunning

\* A claimed reply was in the pipe, and after the claim the user's start is not.
LEMMA FciClaim ==
    ASSUME FciInv, NEW i, Claim(i), NEW status, ReplyTo(i, status)
    PROVE  /\ Unread /\ received' \subseteq Inbox
           /\ [id |-> i, status |-> status] \in Pipe /\ i < Oldest
           /\ status = "started" /\ robot' = robot => Started(i) \notin Pipe'
           /\ status # "started" => i # robot.move
<1>0. MotionShapes /\ PipeIsRight
  BY DEF FciInv
<1>1. Unread /\ received' = {m \in Inbox : m.id # i} /\ received' \subseteq Inbox
  BY DEF Claim
<1>2. Inbox \subseteq Pipe /\ (\A m \in Inbox : m.status = "started" /\ m \notin received' => m \notin robot.owed \cup InReplies' \cup received')
  BY <1>0, <1>1, FciReading
<1> DEFINE m == [id |-> i, status |-> status]
<1>3. m \in Inbox /\ m.id = i /\ m.status = status /\ m \notin received'
  BY <1>1 DEF ReplyTo
<1>4. m \in Pipe
  BY <1>2, <1>3
<1>5. i < Oldest /\ (status # "started" => i # robot.move)
  BY <1>0, <1>3, <1>4 DEF PipeIsRight
<1>6. ASSUME status = "started", robot' = robot PROVE Started(i) \notin Pipe'
  <2>1. m = Started(i)
    BY <1>6 DEF Started
  <2>2. m \notin robot.owed \cup InReplies' \cup received'
    BY <1>2, <1>3, <1>6
  <2> QED
    BY <1>6, <2>1, <2>2 DEF Pipe
<1> QED
  BY <1>1, <1>4, <1>5, <1>6

LEMMA FciStarts ==
    ASSUME FciInv, OneAtATime, NEW u \in Users, StartReplied(u) \/ PollReply(u)
    PROVE  FciInv'
<1>0. /\ user[u].at \in {"starting", "polling"} /\ up /\ Claim(user[u].id)
      /\ UNCHANGED <<seen, wanted, moves, calls, up, next, requests, robot, states, outcome, abandoned>> /\ Gone' = Gone
  BY DEF StartReplied, PollReply, At, world, bounds, Gone
<1>1. PICK status \in Statuses :
        /\ ReplyTo(user[u].id, status)
        /\ \/ MoveAccepted(status) /\ user[u].at = "starting" /\ Goes(u, "polling") /\ UNCHANGED lock
           \/ MoveAccepted(status) /\ user[u].at = "polling" /\ Goes(u, "started") /\ UNCHANGED lock
           \/ ~MoveAccepted(status) /\ Returns(u, "error")
  BY DEF StartReplied, PollReply, At
<1>2. /\ Unread /\ received' \subseteq Inbox
      /\ [id |-> user[u].id, status |-> status] \in Pipe /\ user[u].id < Oldest
      /\ status = "started" => Started(user[u].id) \notin Pipe'
      /\ status # "started" => user[u].id # robot.move
  BY <1>0, <1>1, FciClaim
<1>3. /\ user[u].at # "out"
      /\ ~Gone => /\ lock = u /\ user[u].id = robot.move /\ ~robot.finish
                  /\ user[u].at = "polling" => seen > robot.since \/ Now.kind = "idle"
  BY <1>0, FciOwn
<1>4. status # "success"
  <2>1. outcome[user[u].id] # "success" /\ (\A m \in Pipe : m.id = user[u].id /\ m.status = "success" => outcome[user[u].id] = "success")
    BY <1>0 DEF FciInv, AnswersAreOwn
  <2> QED
    BY <1>2, <2>1
<1>5. user[u].at = "starting" => Now.kind = "idle"
  BY <1>0 DEF FciInv, AnswersAreOwn
<1>6. user[u].at = "polling" => status # "started"
  <2>1. user[u].at = "polling" => Started(user[u].id) \notin Pipe
    BY <1>0 DEF FciInv, AnswersAreOwn
  <2> QED
    BY <1>2, <2>1 DEF Started
<1>7. MotionShapes
  BY DEF FciInv
<1>8. robot.finish => robot.move # NoId
  BY DEF FciInv, RobotIsConsistent
<1>9. CASE status = "started"
  <2>1. user[u].at = "starting" /\ MoveAccepted(status)
    BY <1>0, <1>5, <1>6, <1>9 DEF MoveAccepted, GeneratorRunning
  <2>2. UserGoes(u, "polling") /\ user'[u].result = user[u].result /\ UNCHANGED lock
    BY <1>1, <1>7, <2>1, FciGoes
  <2>3. Loop(u) /\ user[u].result = "ok" => outcome[user[u].id] = "success"
    BY DEF FciInv, OkMeansSuccess
  <2>4. "polling" \in Places
    BY DEF Places, Between
  <2>5. up /\ ~Gone' =>
             /\ "polling" \in MayMove
             /\ "polling" \in InForce => seen > robot.since
             /\ "polling" \in {"polling", "entering"} => (seen > robot.since \/ Now.kind = "idle") /\ ~robot'.finish
    BY <1>0, <1>3, <1>5, <2>1 DEF MayMove, InForce
  <2> QED
    BY <1>0, <1>2, <1>3, <1>8, <1>9, <2>1, <2>2, <2>3, <2>4, <2>5, FciUserStep DEF AwaitsState
<1>10. CASE status # "started"
  <2>1. ~MoveAccepted(status)
    BY <1>4, <1>10 DEF MoveAccepted
  <2>2. UserGoes(u, "out") /\ user'[u].result = "error" /\ lock' = IF lock = u THEN NoUser ELSE lock
    BY <1>1, <1>7, <2>1, FciGoes
  <2>3. Gone
    BY <1>2, <1>3, <1>10
  <2>4. "out" \in Places
    BY DEF Places, Between
  <2>5. lock' # u
    BY <2>2, UsersAssumption
  <2> QED
    BY <1>0, <1>2, <1>3, <1>8, <2>2, <2>3, <2>4, <2>5, FciUserStep DEF AwaitsState
<1> QED
  BY <1>9, <1>10

\* The steps of a control process that do not read: the states decide, the callback or the caller.
LEMMA FciRuns ==
    ASSUME FciInv, OneAtATime, NEW u \in Users,
           StartDone(u) \/ PollState(u) \/ Cycle(u) \/ CallbackFails(u) \/ Finish(u) \/ Finishing(u)
    PROVE  FciInv'
<1>0. /\ user[u].at \in {"polling", "started", "running", "failed", "released", "finishing"}
      /\ UNCHANGED <<seen, moves, calls, up, next, requests, states, outcome, abandoned>>
  BY DEF StartDone, PollState, Cycle, CallbackFails, Finish, Finishing, At, InMotion, tcp, world, bounds
<1>0a. robot'.move = robot.move => Gone' = Gone
  BY <1>0 DEF Gone
<1>1. user[u].at # "out"
  BY <1>0
<1>2. /\ wanted = user[u].kind /\ Running(wanted) /\ wanted # "idle" /\ user[u].at \in Places
      /\ lock \in {u, NoUser} /\ user[u].api \in Apis
      /\ Now.kind \in {"idle", "motion", "torque"}
      /\ up /\ ~Gone =>
           /\ lock = u /\ user[u].id = robot.move /\ user[u].at \in MayMove
           /\ user[u].at \in InForce => seen > robot.since
           /\ user[u].at \in {"polling", "entering"} => seen > robot.since \/ Now.kind = "idle"
           /\ user[u].at \in {"starting", "polling", "entering"} => ~robot.finish
           /\ seen > robot.since => Now.mode = "move" /\ Now.kind = wanted
  BY <1>1, FciOwn
<1>3. MotionShapes /\ (Loop(u) /\ user[u].result = "ok" => outcome[user[u].id] = "success")
      /\ (robot.finish => robot.move # NoId)
  BY DEF FciInv, OkMeansSuccess, RobotIsConsistent
<1>4. Loop(u) \/ Handle(u)
  BY <1>2, ApisAssumption DEF Loop, Handle
<1>5. {"started", "entering", "reading", "cancelling", "failed", "finishing", "ending", "claiming", "out"} \subseteq Places
  BY DEF Places, Between, AwaitsState, AwaitsReply
<1>6. /\ user[u].at \in {"started", "running", "finishing", "failed"} /\ up /\ ~Gone => Running(Now.kind) /\ seen > robot.since
      /\ user[u].at = "released" /\ up => Gone
  BY <1>2 DEF MayMove, InForce
<1>7. CASE StartDone(u)
  <2>1. UserGoes(u, "started") /\ user'[u].result = user[u].result /\ UNCHANGED <<lock, wanted, replies, received, robot>>
    BY <1>3, <1>7, FciGoes DEF StartDone, tcp, world
  <2>2. up /\ ~Gone' => "started" \in MayMove /\ seen > robot.since
    BY <1>0a, <1>2, <1>7, <2>1 DEF StartDone, MoveActive, At, MayMove
  <2> QED
    BY <1>0, <1>1, <1>3, <1>5, <2>1, <2>2, FciUserStep DEF AwaitsState
<1>8. CASE PollState(u)
  <2>1. UserGoes(u, "entering") /\ user'[u].result = user[u].result /\ user'[u].from = seen /\ UNCHANGED <<lock, wanted, robot>>
    BY <1>3, <1>8, FciGoes DEF PollState, world
  <2>2. UNCHANGED <<replies, received>> \/ (Unread /\ received' \subseteq Inbox)
    BY <1>8 DEF PollState
  <2>3. up /\ ~Gone' => "entering" \in MayMove /\ (seen > robot.since \/ Now.kind = "idle") /\ ~robot'.finish
    BY <1>0a, <1>2, <1>8, <2>1 DEF PollState, At, MayMove
  <2> QED
    BY <1>0, <1>1, <1>3, <1>5, <1>8, <2>1, <2>2, <2>3, FciUserStep DEF PollState, At, InForce
<1>9. CASE Cycle(u)
  <2>1. UserGoes(u, "reading") /\ user'[u].result = user[u].result /\ user'[u].from = seen
        /\ UNCHANGED <<lock, wanted, replies, received, robot>>
    BY <1>2, <1>3, <1>9, FciGoes DEF Cycle, tcp, world
  <2>2. up /\ ~Gone' => "reading" \in MayMove /\ seen > robot.since
    BY <1>0a, <1>6, <1>9, <2>1 DEF Cycle, InMotion, MayMove
  <2> QED
    BY <1>0, <1>1, <1>3, <1>5, <1>9, <2>1, <2>2, FciUserStep DEF Cycle, InMotion
<1>10. CASE CallbackFails(u)
  <2>1. UserGoes(u, "cancelling") /\ user'[u].result = user[u].result /\ UNCHANGED <<lock, wanted, replies, received, robot>>
    BY <1>3, <1>10, FciGoes DEF CallbackFails, Fails, tcp, world
  <2>2. up /\ ~Gone' => "cancelling" \in MayMove
    BY DEF MayMove
  <2> QED
    BY <1>0, <1>1, <1>3, <1>5, <1>10, <2>1, <2>2, FciUserStep DEF CallbackFails, At, AwaitsState, InForce
<1>11. CASE Finish(u)
  <2>0. UNCHANGED <<replies, received, robot>> /\ (user[u].at = "running" \/ (Handle(u) /\ user[u].at \in {"started", "failed", "released"}))
    BY <1>11 DEF Finish, tcp, world, At
  <2>1. CASE Running(Now.kind)
    <3>1. UserGoes(u, "finishing") /\ user'[u].result = user[u].result /\ UNCHANGED <<lock, wanted>>
      BY <1>3, <1>11, <2>1, FciGoes DEF Finish
    <3>2. up /\ ~Gone' => "finishing" \in MayMove /\ seen > robot.since
      BY <1>0a, <1>6, <2>0 DEF MayMove
    <3> QED
      BY <1>0, <1>1, <1>3, <1>5, <2>0, <3>1, <3>2, FciUserStep DEF AwaitsState
  <2>2. CASE ~Running(Now.kind)
    <3>1. UserGoes(u, "out") /\ user'[u].result = "ok" /\ lock' = IF lock = u THEN NoUser ELSE lock
      BY <1>3, <1>11, <2>2, FciGoes DEF Finish
    <3>2. user[u].at = "running" => Now.kind = wanted
      BY DEF FciInv, StateIsOwn
    <3>3. ~Loop(u)
      BY <1>2, <2>0, <2>2, <3>2 DEF Loop, Handle
    <3>4. up => Gone'
      BY <1>0a, <1>2, <1>6, <2>0, <2>2, <3>2
    <3>5. lock' # u /\ (lock' = lock \/ (lock = u /\ lock' = NoUser))
      BY <3>1, UsersAssumption
    <3> QED
      BY <1>0, <1>1, <1>3, <1>5, <2>0, <3>1, <3>3, <3>4, <3>5, FciUserStep DEF AwaitsState
  <2> QED
    BY <2>1, <2>2
<1>12. CASE Finishing(u)
  <2>0. UNCHANGED <<replies, received, wanted>> /\ up /\ user[u].at = "finishing"
    BY <1>12 DEF Finishing, tcp, At
  <2>1. CASE Running(Now.kind)
    <3>1. UserGoes(u, "ending") /\ user'[u].result = user[u].result /\ user'[u].from = seen /\ UNCHANGED lock
          /\ robot' = [robot EXCEPT !.finish = robot.move # NoId]
      BY <1>2, <1>3, <1>12, <2>1, FciGoes DEF Finishing
    <3>2. ~Gone => "ending" \in MayMove /\ seen > robot.since
      BY <1>6, <2>0 DEF MayMove
    <3> DEFINE b == robot.move # NoId
    <3>3. b <=> robot.move # NoId
      OBVIOUS
    <3>4. robot' = [robot EXCEPT !.finish = b]
      BY <3>1
    <3> HIDE DEF b
    <3>5. DOMAIN robot = {"move", "mode", "kind", "finish", "owed", "since"}
      BY <1>3 DEF MotionShapes
    <3>6. /\ DOMAIN robot' = DOMAIN robot /\ robot'.move = robot.move /\ robot'.mode = robot.mode /\ robot'.kind = robot.kind
          /\ robot'.owed = robot.owed /\ robot'.since = robot.since /\ robot'.finish = b
      BY <3>4, <3>5
    <3> QED
      BY <1>0, <1>0a, <1>1, <1>3, <1>5, <2>0, <3>1, <3>2, <3>3, <3>6, FciUserStep DEF AwaitsState
  <2>2. CASE ~Running(Now.kind)
    <3>1. UserGoes(u, "claiming") /\ user'[u].result = user[u].result /\ UNCHANGED <<lock, robot>>
      BY <1>3, <1>12, <2>2, FciGoes DEF Finishing
    <3>2. Gone'
      BY <1>0a, <1>6, <2>0, <2>2, <3>1
    <3> QED
      BY <1>0, <1>1, <1>3, <1>5, <2>0, <3>1, <3>2, FciUserStep DEF AwaitsState
  <2> QED
    BY <2>1, <2>2
<1> QED
  BY <1>7, <1>8, <1>9, <1>10, <1>11, <1>12

\* Its steps at the end: terminal replies, the cancel, the end of the connection.
LEMMA FciEnds ==
    ASSUME FciInv, OneAtATime, NEW u \in Users,
           AbortReplied(u) \/ FinishReplied(u) \/ StopReplied(u) \/ Drained(u) \/ Broken(u) \/ (Cancel(u) /\ ~up)
    PROVE  FciInv'
<1>0. /\ user[u].at \in Places \ {"out"}
      /\ UNCHANGED <<seen, moves, calls, up, next, requests, robot, states, outcome, abandoned>> /\ Gone' = Gone
  <2>1. user[u].at # "out"
    BY DEF AbortReplied, FinishReplied, StopReplied, Drained, Broken, Errs, Cancel, At
  <2>2. user[u].at \in Places
    BY DEF FciInv, MotionShapes
  <2>3. UNCHANGED <<seen, moves, calls, up, next, requests, robot, states, outcome, abandoned>> /\ Gone' = Gone
    BY DEF AbortReplied, FinishReplied, StopReplied, Drained, Broken, Cancel, tcp, world, bounds, Gone
  <2> QED
    BY <2>1, <2>2, <2>3
<1>1. user[u].at # "out"
  BY <1>0
<1>2. /\ lock \in {u, NoUser} /\ user[u].api \in Apis
      /\ up /\ ~Gone => user[u].at \in MayMove
  BY <1>1, FciOwn
<1>3. MotionShapes /\ (Loop(u) /\ user[u].result = "ok" => outcome[user[u].id] = "success")
      /\ (robot.finish => robot.move # NoId)
  BY DEF FciInv, OkMeansSuccess, RobotIsConsistent
<1>4. Loop(u) \/ Handle(u)
  BY <1>2, ApisAssumption DEF Loop, Handle
<1>5. {"cancelling", "failed", "released", "draining", "out"} \subseteq Places
  BY DEF Places, Between, AwaitsState, AwaitsReply
<1>6. user[u].at = "starting" => ~up \/ user[u].id < Oldest
  BY <1>1 DEF AbortReplied, FinishReplied, StopReplied, Drained, Broken, Cancel, At
<1>7. ASSUME NEW i, Claim(i)
      PROVE  UNCHANGED <<replies, received>> \/ (Unread /\ received' \subseteq Inbox)
  BY <1>7 DEF Claim
<1>8. lock' = (IF lock = u THEN NoUser ELSE lock) => lock' # u /\ (lock' = lock \/ (lock = u /\ lock' = NoUser))
  BY UsersAssumption
<1>9. CASE AbortReplied(u)
  <2>0. user[u].at = "aborted" /\ up /\ Fails(u) /\ UNCHANGED <<lock, wanted>>
        /\ (UNCHANGED <<replies, received>> \/ (Unread /\ received' \subseteq Inbox))
    BY <1>7, <1>9 DEF AbortReplied, At
  <2>1. Gone
    BY <1>2, <2>0 DEF MayMove
  <2>2. \E p \in {"cancelling", "failed"} : UserGoes(u, p) /\ user'[u].result = user[u].result /\ (p = "failed" => Handle(u))
    BY <1>3, <1>4, <2>0, FciGoes DEF Fails
  <2> QED
    BY <1>0, <1>1, <1>3, <1>5, <2>0, <2>1, <2>2, FciUserStep DEF AwaitsState
<1>10. CASE FinishReplied(u)
  <2>0. user[u].at = "claiming" /\ up
        /\ (UNCHANGED <<replies, received>> \/ (Unread /\ received' \subseteq Inbox))
    BY <1>7, <1>10 DEF FinishReplied, At
  <2>1. Gone
    BY <1>2, <2>0 DEF MayMove
  <2>2. PICK status \in Statuses :
           /\ ReplyTo(user[u].id, status)
           /\ IF status = "success" THEN Returns(u, "ok") /\ wanted' = "idle"
                                    ELSE FinishFails(u) /\ UNCHANGED wanted
    BY <1>10 DEF FinishReplied
  <2>3. CASE status = "success"
    <3>1. UserGoes(u, "out") /\ user'[u].result = "ok" /\ lock' = IF lock = u THEN NoUser ELSE lock
      BY <1>3, <2>2, <2>3, FciGoes
    <3>2. [id |-> user[u].id, status |-> status] \in Pipe
      BY <1>10, <2>2, FciClaim DEF FinishReplied
    <3>3. outcome[user[u].id] = "success"
      BY <2>0, <2>3, <3>2 DEF FciInv, AnswersAreOwn
    <3> QED
      BY <1>0, <1>1, <1>3, <1>5, <1>8, <2>0, <2>1, <3>1, <3>3, FciUserStep DEF AwaitsState
  <2>4. CASE status # "success"
    <3>1. FinishFails(u) /\ UNCHANGED wanted
      BY <2>2, <2>4
    <3>2. CASE Loop(u)
      <4>1. UserGoes(u, "cancelling") /\ user'[u].result = user[u].result /\ UNCHANGED <<lock, wanted>>
        BY <1>3, <3>1, <3>2, FciGoes DEF FinishFails
      <4> QED
        BY <1>0, <1>1, <1>3, <1>5, <2>0, <2>1, <4>1, FciUserStep DEF AwaitsState
    <3>3. CASE ~Loop(u)
      <4>1. /\ UserGoes(u, "released") /\ user'[u].result = user[u].result /\ UNCHANGED wanted
            /\ lock' = IF lock = u THEN NoUser ELSE lock
        BY <1>3, <3>1, <3>3, FciGoes DEF FinishFails
      <4> QED
        BY <1>0, <1>1, <1>3, <1>4, <1>5, <1>8, <2>0, <2>1, <3>3, <4>1, FciUserStep DEF AwaitsState
    <3> QED
      BY <3>2, <3>3
  <2> QED
    BY <2>3, <2>4
<1>11. CASE StopReplied(u)
  <2>0. user[u].at = "stopping" /\ up /\ UNCHANGED wanted
        /\ (UNCHANGED <<replies, received>> \/ (Unread /\ received' \subseteq Inbox))
    BY <1>7, <1>11 DEF StopReplied, At
  <2>1. PICK status \in Statuses :
           /\ ReplyTo(user[u].stop, status)
           /\ IF status = "success" THEN Receives(u, "draining") /\ UNCHANGED lock
                                    ELSE Returns(u, "error")
    BY <1>11 DEF StopReplied
  <2>2. [id |-> user[u].stop, status |-> status] \in Pipe
    BY <1>11, <2>1, FciClaim DEF StopReplied
  <2>3. Gone
    BY <2>0, <2>2 DEF FciInv, AnswersAreOwn
  <2>4. CASE status = "success"
    <3>1. UserGoes(u, "draining") /\ user'[u].result = user[u].result /\ user'[u].from = seen /\ UNCHANGED lock
      BY <1>3, <2>1, <2>4, FciGoes
    <3> QED
      BY <1>0, <1>1, <1>3, <1>5, <2>0, <2>3, <3>1, FciUserStep
  <2>5. CASE status # "success"
    <3>1. UserGoes(u, "out") /\ user'[u].result = "error" /\ lock' = IF lock = u THEN NoUser ELSE lock
      BY <1>3, <2>1, <2>5, FciGoes
    <3> QED
      BY <1>0, <1>1, <1>3, <1>5, <1>8, <2>0, <2>3, <3>1, FciUserStep DEF AwaitsState
  <2> QED
    BY <2>4, <2>5
<1>12. CASE Drained(u)
  <2>0. user[u].at = "drained" /\ Returns(u, "error") /\ wanted' = "idle"
        /\ (UNCHANGED <<replies, received>> \/ (Unread /\ received' \subseteq Inbox))
    BY <1>7, <1>12 DEF Drained, At
  <2>1. up => Gone
    BY <1>2, <2>0 DEF MayMove
  <2>2. UserGoes(u, "out") /\ user'[u].result = "error" /\ lock' = IF lock = u THEN NoUser ELSE lock
    BY <1>3, <2>0, FciGoes
  <2> QED
    BY <1>0, <1>1, <1>3, <1>5, <1>8, <2>0, <2>1, <2>2, FciUserStep DEF AwaitsState
<1>13. CASE Broken(u) \/ (Cancel(u) /\ ~up)
  <2>0. ~up /\ UNCHANGED <<replies, received, wanted>>
    <3>1. ~up /\ UNCHANGED <<replies, received, wanted>>
      BY <1>13 DEF Broken, Cancel, tcp
    <3> QED
      BY <3>1
  <2>1. CASE Returns(u, "error")
    <3>1. UserGoes(u, "out") /\ user'[u].result = "error" /\ lock' = IF lock = u THEN NoUser ELSE lock
      BY <1>3, <2>1, FciGoes
    <3> QED
      BY <1>0, <1>1, <1>3, <1>5, <1>8, <2>0, <3>1, FciUserStep DEF AwaitsState
  <2>2. CASE Fails(u) /\ UNCHANGED lock /\ user[u].at \in {"started", "running", "reading", "aborted"}
    <3>1. \E p \in {"cancelling", "failed"} : UserGoes(u, p) /\ user'[u].result = user[u].result /\ (p = "failed" => Handle(u))
      BY <1>3, <1>4, <2>2, FciGoes DEF Fails
    <3> QED
      BY <1>0, <1>1, <1>3, <1>5, <2>0, <2>2, <3>1, FciUserStep DEF AwaitsState
  <2>3. CASE FinishFails(u) /\ user[u].at \in {"finishing", "ending", "claiming"}
    <3>2. CASE Loop(u)
      <4>1. UserGoes(u, "cancelling") /\ user'[u].result = user[u].result /\ UNCHANGED <<lock, wanted>>
        BY <1>3, <2>0, <2>3, <3>2, FciGoes DEF FinishFails
      <4> QED
        BY <1>0, <1>1, <1>3, <1>5, <2>0, <2>3, <4>1, FciUserStep DEF AwaitsState
    <3>3. CASE ~Loop(u)
      <4>1. /\ UserGoes(u, "released") /\ user'[u].result = user[u].result /\ UNCHANGED wanted
            /\ lock' = IF lock = u THEN NoUser ELSE lock
        BY <1>3, <2>0, <2>3, <3>3, FciGoes DEF FinishFails
      <4> QED
        BY <1>0, <1>1, <1>3, <1>4, <1>5, <1>8, <2>0, <2>3, <3>3, <4>1, FciUserStep DEF AwaitsState
    <3> QED
      BY <3>2, <3>3
  <2>4. Broken(u) => \/ Returns(u, "error")
                     \/ Fails(u) /\ UNCHANGED lock /\ user[u].at \in {"started", "running", "reading", "aborted"}
                     \/ FinishFails(u) /\ user[u].at \in {"finishing", "ending", "claiming"}
    BY DEF Broken, Errs
  <2>5. Cancel(u) /\ ~up => Returns(u, "error")
    BY DEF Cancel
  <2> QED
    BY <1>13, <2>1, <2>2, <2>3, <2>4, <2>5
<1> QED
  BY <1>9, <1>10, <1>11, <1>12, <1>13

\* An error with the connection up: what is let go of is given up on.
LEMMA FciGarbled ==
    ASSUME FciInv, OneAtATime, NEW u \in Users, Garbled(u)
    PROVE  FciInv'
<1>0. /\ user[u].at \in Places \ {"out"} /\ user[u].at # "out" /\ up /\ Errs(u)
      /\ UNCHANGED <<seen, wanted, moves, calls, up, next, requests, robot, states, outcome>>
      /\ abandoned' = IF lock = u /\ lock' = NoUser THEN abandoned \cup {user[u].id} ELSE abandoned
  <2>1. user[u].at # "out"
    BY DEF Garbled, AwaitsState, AwaitsReply
  <2>2. user[u].at \in Places
    BY DEF FciInv, MotionShapes
  <2> QED
    BY <2>1, <2>2 DEF Garbled
<1>1. UNCHANGED <<replies, received>> \/ (Unread /\ received' \subseteq Inbox)
  BY DEF Garbled, Unusable, Claim
<1>2. /\ lock \in {u, NoUser} /\ user[u].api \in Apis
      /\ ~Gone => lock = u /\ user[u].id = robot.move /\ user[u].at \in MayMove /\ (user[u].at \in InForce => seen > robot.since)
  BY <1>0, FciOwn
<1>3. MotionShapes /\ (Loop(u) /\ user[u].result = "ok" => outcome[user[u].id] = "success")
      /\ (robot.finish => robot.move # NoId)
  BY DEF FciInv, OkMeansSuccess, RobotIsConsistent
<1>4. Loop(u) \/ Handle(u)
  BY <1>2, ApisAssumption DEF Loop, Handle
<1>5. {"cancelling", "failed", "released", "out"} \subseteq Places
  BY DEF Places, Between
<1>6. Gone => Gone'
  BY <1>0 DEF Gone
<1>7. lock' = (IF lock = u THEN NoUser ELSE lock) =>
        /\ lock' # u /\ (lock' = lock \/ (lock = u /\ lock' = NoUser)) /\ Gone'
        /\ lock = u => user[u].id \in abandoned'
  <2> SUFFICES ASSUME lock' = (IF lock = u THEN NoUser ELSE lock)
               PROVE  /\ lock' # u /\ (lock' = lock \/ (lock = u /\ lock' = NoUser)) /\ Gone'
                      /\ lock = u => user[u].id \in abandoned'
    OBVIOUS
  <2>1. lock' # u /\ (lock' = lock \/ (lock = u /\ lock' = NoUser))
    BY UsersAssumption
  <2>2. lock = u => user[u].id \in abandoned'
    BY <1>0, <2>1
  <2>3. ~Gone => robot.move \in abandoned'
    BY <1>2, <2>2
  <2> QED
    BY <1>0, <1>6, <2>1, <2>2, <2>3 DEF Gone
<1>8. \/ Returns(u, "error")
      \/ Fails(u) /\ UNCHANGED lock /\ user[u].at \in {"started", "running", "reading", "aborted"}
      \/ FinishFails(u) /\ user[u].at \in {"finishing", "ending", "claiming"}
  BY <1>0 DEF Errs
<1>9. UNCHANGED lock => abandoned' = abandoned /\ Gone' = Gone
  BY <1>0, UsersAssumption DEF Gone
<1>10. abandoned' = abandoned \/ abandoned' = abandoned \cup {user[u].id}
  BY <1>0
<1>11. CASE Returns(u, "error")
  <2>1. UserGoes(u, "out") /\ user'[u].result = "error" /\ lock' = IF lock = u THEN NoUser ELSE lock
    BY <1>3, <1>11, FciGoes
  <2> QED
    BY <1>0, <1>1, <1>3, <1>5, <1>7, <1>10, <2>1, FciUserStep DEF AwaitsState
<1>12. CASE Fails(u) /\ UNCHANGED lock /\ user[u].at \in {"started", "running", "reading", "aborted"}
  <2>1. PICK p \in {"cancelling", "failed"} : UserGoes(u, p) /\ user'[u].result = user[u].result /\ (p = "failed" => Handle(u))
    BY <1>3, <1>4, <1>12, FciGoes DEF Fails
  <2>2. ~Gone' => p \in MayMove /\ seen > robot.since
    BY <1>2, <1>9, <1>12 DEF MayMove, InForce
  <2> QED
    BY <1>0, <1>1, <1>3, <1>5, <1>9, <1>12, <2>1, <2>2, FciUserStep DEF AwaitsState
<1>13. CASE FinishFails(u) /\ user[u].at \in {"finishing", "ending", "claiming"}
  <2>1. CASE Loop(u)
    <3>1. UserGoes(u, "cancelling") /\ user'[u].result = user[u].result /\ UNCHANGED lock
      BY <1>3, <1>13, <2>1, FciGoes DEF FinishFails
    <3> QED
      BY <1>0, <1>1, <1>3, <1>5, <1>9, <1>13, <3>1, FciUserStep DEF AwaitsState, MayMove, InForce
  <2>2. CASE ~Loop(u)
    <3>1. UserGoes(u, "released") /\ user'[u].result = user[u].result /\ lock' = IF lock = u THEN NoUser ELSE lock
      BY <1>3, <1>13, <2>2, FciGoes DEF FinishFails
    <3> QED
      BY <1>0, <1>1, <1>3, <1>4, <1>5, <1>7, <1>10, <1>13, <2>2, <3>1, FciUserStep DEF AwaitsState
  <2> QED
    BY <2>1, <2>2
<1> QED
  BY <1>8, <1>11, <1>12, <1>13

LEMMA FciPipe ==
    ASSUME MotionShapes
    PROVE  Pipe \subseteq Messages /\ \A m \in Pipe : m.id \in Nat \ {0}
<1>1. replies \in Seq(Messages) /\ received \subseteq Messages /\ robot.owed \subseteq Messages
  BY DEF MotionShapes
<1>2. \A j \in DOMAIN replies : replies[j] \in Messages
  BY <1>1
<1>3. Pipe \subseteq Messages
  BY <1>1, <1>2 DEF Pipe, InReplies
<1> QED
  BY <1>3 DEF Messages

\* A request joins the queue with the next id; what is there keeps its place.
LEMMA FciAsks ==
    ASSUME FciInv, NEW what \in {"move", "stop", "recover"}, NEW kind \in {"idle", "motion", "torque"},
           Request(what, kind), what = "move" => kind \in Kinds
    PROVE  /\ requests' \in Seq([what: {"move", "stop", "recover"}, id: Nat, kind: {"idle", "motion", "torque"}])
           /\ next' = next + 1 /\ next \in Nat /\ next >= Oldest /\ Oldest' = Oldest
           /\ \A i \in 1..Len(requests') :
                /\ requests'[i].id = Oldest' + i - 1 /\ (requests'[i].what = "move" => requests'[i].kind \in Kinds)
                /\ \/ i \in 1..Len(requests) /\ requests'[i] = requests[i] /\ requests[i].id < next
                   \/ requests'[i].what = what /\ requests'[i].id = next /\ requests'[i].kind = kind
<1> DEFINE R == [what: {"move", "stop", "recover"}, id: Nat, kind: {"idle", "motion", "torque"}]
           r == [what |-> what, id |-> next, kind |-> kind]
<1>1. requests \in Seq(R) /\ next \in Nat /\ Len(requests) \in Nat
  BY DEF FciInv, MotionShapes
<1>2. requests' = Append(requests, r) /\ next' = next + 1
  BY DEF Request
<1>3. r \in R /\ r.what = what /\ r.id = next /\ r.kind = kind
  BY <1>1
<1> HIDE DEF R, r
<1>4. requests' \in Seq(R) /\ Len(requests') = Len(requests) + 1
      /\ \A i \in 1..Len(requests') : (i \in 1..Len(requests) /\ requests'[i] = requests[i]) \/ (i = Len(requests) + 1 /\ requests'[i] = r)
  BY <1>1, <1>2, <1>3
<1>5. next >= Oldest /\ Oldest' = Oldest /\ Oldest \in Int /\ next = Oldest + Len(requests)
  BY <1>1, <1>2, <1>4 DEF Oldest
<1>6. \A i \in 1..Len(requests) : requests[i].id = Oldest + i - 1 /\ (requests[i].what = "move" => requests[i].kind \in Kinds)
  BY DEF FciInv, IdsInOrder
<1>7. ASSUME NEW i \in 1..Len(requests')
      PROVE  /\ requests'[i].id = Oldest' + i - 1 /\ (requests'[i].what = "move" => requests'[i].kind \in Kinds)
             /\ \/ i \in 1..Len(requests) /\ requests'[i] = requests[i] /\ requests[i].id < next
                \/ requests'[i].what = what /\ requests'[i].id = next /\ requests'[i].kind = kind
  <2>1. CASE i \in 1..Len(requests) /\ requests'[i] = requests[i]
    <3>1. requests[i].id = Oldest + i - 1 /\ (requests[i].what = "move" => requests[i].kind \in Kinds)
      BY <1>6, <2>1
    <3>2. requests[i].id < next
      BY <1>1, <1>5, <2>1, <3>1
    <3> QED
      BY <1>5, <2>1, <3>1, <3>2
  <2>2. CASE i = Len(requests) + 1 /\ requests'[i] = r
    <3>1. requests'[i].what = what /\ requests'[i].id = next /\ requests'[i].kind = kind
      BY <1>3, <2>2
    <3> QED
      BY <1>1, <1>5, <2>2, <3>1
  <2> QED
    BY <1>4, <1>7, <2>1, <2>2
<1> QED
  BY <1>1, <1>2, <1>4, <1>5, <1>7 DEF R

LEMMA FciStart ==
    ASSUME FciInv, OneAtATime, NEW u \in Users, Start(u)
    PROVE  FciInv'
<1>0. /\ MotionShapes /\ OneProcess /\ RobotIsConsistent /\ IdsInOrder /\ PipeIsRight /\ StateIsOwn
      /\ MotionIsOwned /\ AnswersAreOwn /\ OkMeansSuccess
  BY DEF FciInv
<1>1. /\ user[u].at = "out" /\ lock = NoUser /\ ~Running(Now.kind) /\ moves < MaxMoves /\ up /\ moves' = moves + 1 /\ lock' = u
      /\ UNCHANGED <<seen, caller, calls, troubles, up, replies, received, robot, states, outcome, abandoned>>
  BY DEF Start, At, world
<1>2. PICK kind \in Kinds, api \in Apis :
           /\ wanted' = kind
           /\ user' = [user EXCEPT ![u] = [NoProcess EXCEPT !.at = "starting", !.api = api,
                                                            !.kind = kind, !.id = next]]
           /\ Request("move", kind)
  BY DEF Start
<1>3. \A v \in Users : user[v].at = "out"
  BY <1>0, <1>1, FciAlone
<1>4. /\ DOMAIN user' = Users /\ (\A v \in Users : v # u => user'[v] = user[v])
      /\ DOMAIN user'[u] = {"at", "api", "id", "kind", "from", "stop", "result"}
      /\ user'[u].at = "starting" /\ user'[u].api = api /\ user'[u].kind = kind /\ user'[u].id = next
      /\ user'[u].stop = NoId /\ user'[u].result = "none"
  BY <1>0, <1>2 DEF MotionShapes, NoProcess
<1>5. kind \in {"motion", "torque"}
  BY <1>2, KindsAssumption
<1>6. /\ requests' \in Seq([what: {"move", "stop", "recover"}, id: Nat, kind: {"idle", "motion", "torque"}])
      /\ next' = next + 1 /\ next \in Nat /\ next >= Oldest /\ Oldest' = Oldest
      /\ \A i \in 1..Len(requests') :
           /\ requests'[i].id = Oldest' + i - 1 /\ (requests'[i].what = "move" => requests'[i].kind \in Kinds)
           /\ \/ i \in 1..Len(requests) /\ requests'[i] = requests[i] /\ requests[i].id < next
              \/ requests'[i].what = "move" /\ requests'[i].id = next /\ requests'[i].kind = kind
  BY <1>2, <1>5, FciAsks
<1>7. next \in Ids /\ next' <= 2 * moves' + calls' /\ Oldest >= 1 /\ Oldest \in Int
  <2>1. Oldest >= 1 /\ next <= 1 + 2 * moves + calls
    BY <1>0 DEF IdsInOrder
  <2>2. moves \in Nat /\ calls \in Nat /\ calls <= MaxCalls /\ MaxMoves \in Nat /\ MaxCalls \in Nat
    BY <1>0, BoundsAssumption DEF MotionShapes
  <2>3. Oldest \in Int
    BY <1>0 DEF MotionShapes, Oldest
  <2> HIDE DEF Oldest
  <2> QED
    BY <1>1, <1>6, <2>1, <2>2, <2>3 DEF Ids
<1>8. InReplies' = InReplies /\ Pipe' = Pipe /\ Now' = Now
  BY <1>1 DEF InReplies, Pipe, Now
<1>9. MotionShapes'
  <2>1. \A v \in Users :
         /\ DOMAIN user'[v] = {"at", "api", "id", "kind", "from", "stop", "result"}
         /\ user'[v].at \in Places /\ user'[v].id \in Nat /\ user'[v].stop \in Nat
         /\ user'[v].at # "out" => user'[v].api \in Apis /\ user'[v].kind \in Kinds
         /\ user'[v].at \in {"failed", "released"} => user'[v].api = "handle"
         /\ user'[v].at # "out" \/ user'[v].result = "ok" => user'[v].id \in Ids
    <3> TAKE v \in Users
    <3>1. CASE v = u
      BY <1>2, <1>4, <1>6, <1>7, <3>1 DEF Places, AwaitsReply, NoId
    <3>2. CASE v # u
      BY <1>0, <1>4, <3>2 DEF MotionShapes, Handle
    <3> QED
      BY <3>1, <3>2
  <2>2. moves' \in 0..MaxMoves /\ next' \in Nat
    BY <1>0, <1>1, <1>6, BoundsAssumption DEF MotionShapes
  <2> QED
    BY <1>0, <1>1, <1>4, <1>6, <2>1, <2>2 DEF MotionShapes, Handle
<1>10. OneProcess'
  BY <1>1, <1>2, <1>3, <1>4 DEF OneProcess, Loop
<1>11. RobotIsConsistent'
  BY <1>0, <1>1 DEF RobotIsConsistent
<1>12. IdsInOrder'
  <2>1. \A v \in Users : user'[v].at \notin {"out", "stopping", "draining", "drained"} => next' <= 2 * moves' + calls'
    BY <1>7
  <2>2. next' <= 1 + 2 * moves' + calls'
    <3>1. moves' \in Nat /\ calls' \in Nat /\ next' \in Nat
      BY <1>0, <1>1, <1>6, BoundsAssumption DEF MotionShapes
    <3>2. next' <= 2 * moves' + calls'
      BY <1>7
    <3> DEFINE a == moves'  b == calls'  c == next'
    <3>3. a \in Nat /\ b \in Nat /\ c \in Nat /\ c <= 2 * a + b
      BY <3>1, <3>2
    <3> HIDE DEF a, b, c
    <3>4. c <= 1 + 2 * a + b
      BY <3>3
    <3> QED
      BY <3>4 DEF a, b, c
  <2>3. \A i \in Ids : outcome'[i] # "none" => i < Oldest' /\ i # robot'.move
    BY <1>0, <1>1, <1>6 DEF IdsInOrder
  <2>4. Oldest' >= 1 /\ robot'.move < Oldest'
    BY <1>0, <1>1, <1>6 DEF IdsInOrder
  <2>5. \A i \in abandoned' : i < next'
    <3>1. \A i \in abandoned : i < next
      BY <1>0 DEF IdsInOrder
    <3>2. \A i \in abandoned : i \in Int
      BY <1>0 DEF MotionShapes, Ids
    <3> QED
      BY <1>1, <1>6, <3>1, <3>2
  <2> QED
    BY <1>6, <2>1, <2>2, <2>3, <2>4, <2>5 DEF IdsInOrder
<1>13. PipeIsRight'
  <2>1. \A m \in Pipe' : m.id < Oldest' /\ (m.status # "started" => m.id # robot'.move)
    BY <1>0, <1>1, <1>6, <1>8 DEF PipeIsRight
  <2>2. \A m \in Pipe' : m.status = "started" =>
         /\ m \in robot'.owed => m \notin InReplies' /\ m \notin received'
         /\ m \in InReplies' => m \notin received'
         /\ \A j, k \in 1..Len(replies') : replies'[j] = m /\ replies'[k] = m => j = k
    BY <1>0, <1>1, <1>8 DEF PipeIsRight
  <2> QED
    BY <2>1, <2>2 DEF PipeIsRight
<1>14. StateIsOwn'
  BY <1>3, <1>4 DEF StateIsOwn, AwaitsState
<1>15. Gone' /\ (\A i \in 1..Len(requests) : requests[i].what = "move" => requests[i].id \in abandoned')
  BY <1>0, <1>1, UsersAssumption DEF MotionIsOwned, Gone
<1>16. MotionIsOwned'
  <2>1. \A i \in 1..Len(requests') : requests'[i].what = "move" => requests'[i].id = next \/ requests'[i].id \in abandoned'
    BY <1>6, <1>15
  <2> QED
    BY <1>1, <1>4, <1>15, <2>1 DEF MotionIsOwned
<1>17. AnswersAreOwn'
  <2> SUFFICES /\ user'[u].id \in Ids /\ user'[u].id < next'
               /\ Now'.kind = "idle"
               /\ outcome'[user'[u].id] # "success" /\ user'[u].id \notin abandoned'
               /\ \A i \in 1..Len(requests') : requests'[i].id = user'[u].id => requests'[i].what = "move" /\ requests'[i].kind = user'[u].kind
               /\ \A m \in Pipe' : m.id = user'[u].id /\ m.status = "success" => outcome'[user'[u].id] = "success"
    BY <1>3, <1>4 DEF AnswersAreOwn
  <2>1. Now.kind = "idle"
    <3> DEFINE S == [mode: RobotModes, kind: {"idle", "motion", "torque"}]
    <3>1. states \in Seq(S) /\ seen \in 1..Len(states)
      BY <1>0 DEF MotionShapes
    <3> HIDE DEF S
    <3>2. Now \in S
      BY <3>1 DEF Now
    <3> QED
      BY <1>1, <3>2 DEF S, Running, GeneratorRunning, ControllerRunning
  <2>2. \A i \in Ids : outcome[i] # "none" => i < Oldest
    BY <1>0 DEF IdsInOrder
  <2>3. outcome[next] = "none" /\ next \notin abandoned
    <3>1. \A i \in abandoned : i < next
      BY <1>0 DEF IdsInOrder
    <3> QED
      BY <1>6, <1>7, <2>2, <3>1
  <2>4. \A m \in Pipe : m.id # next
    <3>1. \A m \in Pipe : m.id < Oldest /\ m.id \in Nat
      BY <1>0, FciPipe DEF PipeIsRight
    <3> QED
      BY <1>6, <1>7, <3>1
  <2>5. \A i \in 1..Len(requests') : requests'[i].id = next => requests'[i].what = "move" /\ requests'[i].kind = kind
    BY <1>6
  <2> QED
    BY <1>1, <1>4, <1>6, <1>7, <1>8, <2>1, <2>3, <2>4, <2>5
<1>18. OkMeansSuccess'
  BY <1>0, <1>1, <1>4 DEF OkMeansSuccess, Loop
<1> QED
  BY <1>9, <1>10, <1>11, <1>12, <1>13, <1>14, <1>16, <1>17, <1>18 DEF FciInv

\* A cancel with the connection up: its stop goes out, the control process waits for the answer.
LEMMA FciCancel ==
    ASSUME FciInv, OneAtATime, NEW u \in Users, Cancel(u), up
    PROVE  FciInv'
<1>0. /\ MotionShapes /\ OneProcess /\ RobotIsConsistent /\ IdsInOrder /\ PipeIsRight /\ StateIsOwn
      /\ MotionIsOwned /\ AnswersAreOwn /\ OkMeansSuccess
  BY DEF FciInv
<1>1. /\ user[u].at \in {"cancelling", "started", "running", "failed", "released"} /\ user[u].at # "out"
      /\ user' = [user EXCEPT ![u].at = "stopping", ![u].stop = next] /\ Request("stop", "idle")
      /\ UNCHANGED <<lock, seen, wanted, moves, calls, up, replies, received, robot, states, outcome, abandoned>>
  BY DEF Cancel, At, bounds, world
<1>2. \A v \in Users : v # u => user[v].at = "out"
  BY <1>0, <1>1, FciAlone
<1>3. /\ lock \in {u, NoUser}
      /\ ~Gone => lock = u /\ user[u].id = robot.move
      /\ Gone' = Gone
  BY <1>1, FciOwn DEF Gone
<1>4. /\ DOMAIN user' = Users /\ (\A v \in Users : v # u => user'[v] = user[v])
      /\ DOMAIN user'[u] = {"at", "api", "id", "kind", "from", "stop", "result"}
      /\ user'[u].at = "stopping" /\ user'[u].stop = next
      /\ user'[u].api = user[u].api /\ user'[u].kind = user[u].kind /\ user'[u].id = user[u].id
      /\ user'[u].result = user[u].result
  BY <1>0, <1>1 DEF MotionShapes
<1>6. /\ requests' \in Seq([what: {"move", "stop", "recover"}, id: Nat, kind: {"idle", "motion", "torque"}])
      /\ next' = next + 1 /\ next \in Nat /\ next >= Oldest /\ Oldest' = Oldest
      /\ \A i \in 1..Len(requests') :
           /\ requests'[i].id = Oldest' + i - 1 /\ (requests'[i].what = "move" => requests'[i].kind \in Kinds)
           /\ \/ i \in 1..Len(requests) /\ requests'[i] = requests[i] /\ requests[i].id < next
              \/ requests'[i].what = "stop" /\ requests'[i].id = next /\ requests'[i].kind = "idle"
  BY <1>1, FciAsks
<1>7. next' <= 1 + 2 * moves' + calls'
  <2>1. next <= 2 * moves + calls
    BY <1>0, <1>1 DEF IdsInOrder
  <2>2. moves \in Nat /\ calls \in Nat
    BY <1>0, BoundsAssumption DEF MotionShapes
  <2> QED
    BY <1>1, <1>6, <2>1, <2>2
<1>8. InReplies' = InReplies /\ Pipe' = Pipe /\ Now' = Now
  BY <1>1 DEF InReplies, Pipe, Now
<1>9. MotionShapes'
  <2>1. \A v \in Users :
         /\ DOMAIN user'[v] = {"at", "api", "id", "kind", "from", "stop", "result"}
         /\ user'[v].at \in Places /\ user'[v].id \in Nat /\ user'[v].stop \in Nat
         /\ user'[v].at # "out" => user'[v].api \in Apis /\ user'[v].kind \in Kinds
         /\ user'[v].at \in {"failed", "released"} => user'[v].api = "handle"
         /\ user'[v].at # "out" \/ user'[v].result = "ok" => user'[v].id \in Ids
    <3> TAKE v \in Users
    <3>1. CASE v = u
      BY <1>0, <1>1, <1>4, <1>6, <3>1 DEF MotionShapes, Places, AwaitsReply
    <3>2. CASE v # u
      BY <1>0, <1>4, <3>2 DEF MotionShapes, Handle
    <3> QED
      BY <3>1, <3>2
  <2>2. next' \in Nat
    BY <1>6
  <2> QED
    BY <1>0, <1>1, <1>4, <1>6, <2>1, <2>2 DEF MotionShapes, Handle
<1>10. OneProcess'
  <2>1. lock # NoUser => lock = u
    BY <1>3
  <2>2. wanted = user[u].kind /\ (Loop(u) => lock = u)
    BY <1>0, <1>1 DEF OneProcess
  <2> QED
    BY <1>1, <1>2, <1>4, <2>1, <2>2 DEF OneProcess, Loop
<1>11. RobotIsConsistent'
  BY <1>0, <1>1 DEF RobotIsConsistent
<1>12. IdsInOrder'
  <2>1. \A v \in Users : user'[v].at \in {"out", "stopping", "draining", "drained"}
    BY <1>2, <1>4
  <2>3. \A i \in Ids : outcome'[i] # "none" => i < Oldest' /\ i # robot'.move
    BY <1>0, <1>1, <1>6 DEF IdsInOrder
  <2>4. Oldest' >= 1 /\ robot'.move < Oldest'
    BY <1>0, <1>1, <1>6 DEF IdsInOrder
  <2>5. \A i \in abandoned' : i < next'
    <3>1. \A i \in abandoned : i < next
      BY <1>0 DEF IdsInOrder
    <3>2. \A i \in abandoned : i \in Int
      BY <1>0 DEF MotionShapes, Ids
    <3> QED
      BY <1>1, <1>6, <3>1, <3>2
  <2> QED
    BY <1>6, <1>7, <2>1, <2>3, <2>4, <2>5 DEF IdsInOrder
<1>13. PipeIsRight'
  <2>1. \A m \in Pipe' : m.id < Oldest' /\ (m.status # "started" => m.id # robot'.move)
    BY <1>0, <1>1, <1>6, <1>8 DEF PipeIsRight
  <2>2. \A m \in Pipe' : m.status = "started" =>
         /\ m \in robot'.owed => m \notin InReplies' /\ m \notin received'
         /\ m \in InReplies' => m \notin received'
         /\ \A j, k \in 1..Len(replies') : replies'[j] = m /\ replies'[k] = m => j = k
    BY <1>0, <1>1, <1>8 DEF PipeIsRight
  <2> QED
    BY <2>1, <2>2 DEF PipeIsRight
<1>14. StateIsOwn'
  BY <1>2, <1>4 DEF StateIsOwn, AwaitsState
<1>15. \A i \in 1..Len(requests) : requests[i].what = "move" => requests[i].id \in abandoned'
  BY <1>0, <1>1, <1>3, UsersAssumption DEF MotionIsOwned
<1>16. MotionIsOwned'
  <2>1. \A i \in 1..Len(requests') : requests'[i].what = "move" => requests'[i].id \in abandoned'
    BY <1>6, <1>15
  <2>2. ~Gone' => /\ lock' \in Users /\ user'[lock'].id = robot'.move /\ user'[lock'].at = "stopping"
                              /\ robot'.kind = user'[lock'].kind
    <3>1. ~Gone => robot.kind = user[lock].kind
      BY <1>0, <1>1 DEF MotionIsOwned
    <3> QED
      BY <1>1, <1>3, <1>4, <3>1
  <2> QED
    BY <2>1, <2>2 DEF MotionIsOwned, MayMove, InForce
<1>17. AnswersAreOwn'
  <2>1. /\ user[u].id \in Ids /\ user[u].id < next /\ user[u].id < Oldest /\ Started(user[u].id) \notin Pipe
        /\ \A i \in 1..Len(requests) : requests[i].id = user[u].id => requests[i].what = "move" /\ requests[i].kind = user[u].kind
        /\ \A m \in Pipe : m.id = user[u].id /\ m.status = "success" => outcome[user[u].id] = "success"
    BY <1>0, <1>1 DEF AnswersAreOwn
  <2>2. user[u].id \in Nat /\ Oldest \in Int
    BY <1>0 DEF MotionShapes, Oldest
  <2>3. \A m \in Pipe : m.id # next
    <3>1. \A m \in Pipe : m.id < Oldest /\ m.id \in Nat
      BY <1>0, FciPipe DEF PipeIsRight
    <3> QED
      BY <1>6, <2>2, <3>1
  <2>4. user'[u].id < next' /\ user'[u].stop < next'
    BY <1>4, <1>6, <2>1, <2>2
  <2>5. \A i \in 1..Len(requests') : requests'[i].id # user'[u].id \/ (requests'[i].what = "move" /\ requests'[i].kind = user'[u].kind)
    <3>1. user[u].id # next
      BY <1>6, <2>1, <2>2
    <3>2. ASSUME NEW i \in 1..Len(requests'), requests'[i].id = user[u].id
          PROVE  requests'[i].what = "move" /\ requests'[i].kind = user[u].kind
      <4>1. i \in 1..Len(requests) /\ requests'[i] = requests[i]
        BY <1>6, <3>1, <3>2
      <4> QED
        BY <2>1, <3>2, <4>1
    <3> QED
      BY <1>4, <3>2
  <2>6. ASSUME NEW i \in 1..Len(requests'), requests'[i].id = next PROVE requests'[i].what = "stop"
    <3>1. next \in Nat /\ (requests'[i].id < next \/ requests'[i].what = "stop")
      BY <1>6
    <3> QED
      BY <2>6, <3>1
  <2>7. \A v \in Users : user'[v].at # "out" => v = u
    BY <1>2, <1>4
  <2>8. UNCHANGED <<up, outcome, abandoned>> /\ Pipe' = Pipe /\ Oldest' = Oldest
    BY <1>1, <1>6, <1>8
  <2>9. user'[u].at = "stopping" /\ user'[u].stop = next /\ user'[u].id = user[u].id
    BY <1>4
  <2> QED
    BY <2>1, <2>3, <2>4, <2>5, <2>6, <2>7, <2>8, <2>9, <1>3 DEF AnswersAreOwn
<1>18. OkMeansSuccess'
  BY <1>0, <1>1, <1>4 DEF OkMeansSuccess, Loop
<1> QED
  BY <1>9, <1>10, <1>11, <1>12, <1>13, <1>14, <1>16, <1>17, <1>18 DEF FciInv

LEMMA FciCalls ==
    ASSUME FciInv, OneAtATime, NEW c \in Callers, Call(c)
    PROVE  FciInv'
<1>0. /\ MotionShapes /\ OneProcess /\ RobotIsConsistent /\ IdsInOrder /\ PipeIsRight /\ StateIsOwn
      /\ MotionIsOwned /\ AnswersAreOwn /\ OkMeansSuccess
  BY DEF FciInv
<1>1. /\ calls < MaxCalls /\ up /\ calls' = calls + 1
      /\ UNCHANGED <<lock, seen, wanted, user, moves, up, replies, received, robot, states, outcome, abandoned>> /\ Gone' = Gone
  BY DEF Call, world, Gone
<1>2. PICK what \in {"stop", "recover"} : Request(what, "idle")
  BY DEF Call
<1>6. /\ requests' \in Seq([what: {"move", "stop", "recover"}, id: Nat, kind: {"idle", "motion", "torque"}])
      /\ next' = next + 1 /\ next \in Nat /\ next >= Oldest /\ Oldest' = Oldest
      /\ \A i \in 1..Len(requests') :
           /\ requests'[i].id = Oldest' + i - 1 /\ (requests'[i].what = "move" => requests'[i].kind \in Kinds)
           /\ \/ i \in 1..Len(requests) /\ requests'[i] = requests[i] /\ requests[i].id < next
              \/ requests'[i].what = what /\ requests'[i].id = next /\ requests'[i].kind = "idle"
  BY <1>2, FciAsks
<1>7. /\ next' <= 1 + 2 * moves' + calls' /\ calls' \in 0..MaxCalls
      /\ \A u \in Users : user'[u].at \notin {"out", "stopping", "draining", "drained"} => next' <= 2 * moves' + calls'
  <2>1. /\ next <= 1 + 2 * moves + calls
        /\ \A u \in Users : user[u].at \notin {"out", "stopping", "draining", "drained"} => next <= 2 * moves + calls
    BY <1>0 DEF IdsInOrder
  <2>2. moves \in Nat /\ calls \in Nat /\ MaxCalls \in Nat
    BY <1>0, BoundsAssumption DEF MotionShapes
  <2> QED
    BY <1>1, <1>6, <2>1, <2>2
<1>8. InReplies' = InReplies /\ Pipe' = Pipe /\ Now' = Now
  BY <1>1 DEF InReplies, Pipe, Now
<1>9. MotionShapes'
  <2>1. MotionShapes
    BY <1>0
  <2>2. requests' \in Seq([what: {"move", "stop", "recover"}, id: Nat, kind: {"idle", "motion", "torque"}])
    BY <1>6
  <2>3. next' \in Nat /\ calls' \in 0..MaxCalls
    BY <1>6, <1>7
  <2>4. UNCHANGED <<lock, seen, user, moves, replies, received, robot, states, outcome, abandoned>>
    BY <1>1
  <2> QED
    BY <2>1, <2>2, <2>3, <2>4 DEF MotionShapes, Handle
<1>10. OneProcess'
  BY <1>0, <1>1 DEF OneProcess, Loop
<1>11. RobotIsConsistent'
  BY <1>0, <1>1 DEF RobotIsConsistent
<1>12. IdsInOrder'
  <2>5. \A i \in abandoned' : i < next'
    <3>1. \A i \in abandoned : i < next
      BY <1>0 DEF IdsInOrder
    <3>2. \A i \in abandoned : i \in Int
      BY <1>0 DEF MotionShapes, Ids
    <3> QED
      BY <1>1, <1>6, <3>1, <3>2
  <2> QED
    BY <1>0, <1>1, <1>6, <1>7, <2>5 DEF IdsInOrder
<1>13. PipeIsRight'
  <2>1. \A m \in Pipe' : m.id < Oldest' /\ (m.status # "started" => m.id # robot'.move)
    BY <1>0, <1>1, <1>6, <1>8 DEF PipeIsRight
  <2>2. \A m \in Pipe' : m.status = "started" =>
         /\ m \in robot'.owed => m \notin InReplies' /\ m \notin received'
         /\ m \in InReplies' => m \notin received'
         /\ \A j, k \in 1..Len(replies') : replies'[j] = m /\ replies'[k] = m => j = k
    BY <1>0, <1>1, <1>8 DEF PipeIsRight
  <2> QED
    BY <2>1, <2>2 DEF PipeIsRight
<1>14. StateIsOwn'
  BY <1>0, <1>1, <1>8 DEF StateIsOwn
<1>16. MotionIsOwned'
  BY <1>0, <1>1, <1>2, <1>6, <1>8 DEF MotionIsOwned
<1>17. AnswersAreOwn'
  <2>1. ASSUME NEW u \in Users, user[u].at # "out"
        PROVE  /\ user[u].id < next' /\ (user[u].at = "stopping" => user[u].stop < next')
               /\ \A i \in 1..Len(requests') : requests'[i].id = user[u].id => requests'[i].what = "move" /\ requests'[i].kind = user[u].kind
               /\ user[u].at = "stopping" => \A i \in 1..Len(requests') : requests'[i].id = user[u].stop => requests'[i].what = "stop"
    <3>1. user[u].id < next /\ (user[u].at = "stopping" => user[u].stop < next) /\ user[u].id \in Nat /\ user[u].stop \in Nat
      BY <1>0, <1>1, <2>1 DEF AnswersAreOwn, MotionShapes
    <3>2. /\ \A i \in 1..Len(requests) : requests[i].id = user[u].id => requests[i].what = "move" /\ requests[i].kind = user[u].kind
          /\ user[u].at = "stopping" => \A i \in 1..Len(requests) : requests[i].id = user[u].stop => requests[i].what = "stop"
      BY <1>0, <1>1, <2>1 DEF AnswersAreOwn
    <3>3. ASSUME NEW i \in 1..Len(requests')
          PROVE  /\ requests'[i].id = user[u].id => requests'[i].what = "move" /\ requests'[i].kind = user[u].kind
                 /\ user[u].at = "stopping" /\ requests'[i].id = user[u].stop => requests'[i].what = "stop"
      <4>1. CASE i \in 1..Len(requests) /\ requests'[i] = requests[i]
        BY <3>2, <4>1
      <4>2. CASE requests'[i].id = next
        BY <1>6, <3>1, <4>2
      <4> QED
        BY <1>6, <3>3, <4>1, <4>2
    <3>4. user[u].id < next' /\ (user[u].at = "stopping" => user[u].stop < next')
      BY <1>6, <3>1
    <3> QED
      BY <3>3, <3>4
  <2> QED
    BY <1>0, <1>1, <1>6, <1>8, <2>1 DEF AnswersAreOwn
<1>18. OkMeansSuccess'
  BY <1>0, <1>1 DEF OkMeansSuccess, Loop
<1> QED
  BY <1>9, <1>10, <1>11, <1>12, <1>13, <1>14, <1>16, <1>17, <1>18 DEF FciInv

\* A reader of somebody else's reply, a caller's own reply, or the end of the connection: the pipe only shrinks.
LEMMA FciReaders ==
    ASSUME FciInv, UNCHANGED <<lock, seen, wanted, user, moves, calls, next, requests, robot, states, outcome, abandoned>>,
           UNCHANGED <<replies, received>> \/ (Unread /\ received' \subseteq Inbox), up' => up
    PROVE  FciInv'
<1>0. /\ MotionShapes /\ OneProcess /\ RobotIsConsistent /\ IdsInOrder /\ PipeIsRight /\ StateIsOwn
      /\ MotionIsOwned /\ AnswersAreOwn /\ OkMeansSuccess
  BY DEF FciInv
<1>c. UNCHANGED <<lock, seen, wanted, user, moves, calls, next, requests, robot, states, outcome, abandoned>> /\ Gone' = Gone
  BY DEF Gone
<1>d. /\ replies' \in Seq(Messages) /\ received' \subseteq Messages /\ Pipe' \subseteq Pipe
      /\ \A m \in Pipe' : m.status = "started" =>
           /\ m \in robot'.owed => m \notin InReplies' /\ m \notin received'
           /\ m \in InReplies' => m \notin received'
           /\ \A j, k \in 1..Len(replies') : replies'[j] = m /\ replies'[k] = m => j = k
  <2>1. CASE UNCHANGED <<replies, received>>
    <3>1. InReplies' = InReplies /\ Pipe' = Pipe
      BY <1>c, <2>1 DEF InReplies, Pipe
    <3>2. replies \in Seq(Messages) /\ received \subseteq Messages
      BY <1>0 DEF MotionShapes
    <3> QED
      BY <1>0, <1>c, <2>1, <3>1, <3>2 DEF PipeIsRight
  <2>2. CASE Unread /\ received' \subseteq Inbox
    <3>1. /\ replies' \in Seq(Messages) /\ received' \subseteq Messages
          /\ InReplies' \subseteq InReplies /\ received' \subseteq received \cup InReplies
          /\ \A m : m.status = "started" =>
               /\ m \in InReplies' => m \notin received'
               /\ \A j, k \in 1..Len(replies') : replies'[j] = m /\ replies'[k] = m => j = k
      BY <1>0, <2>2, FciReading
    <3>2. Pipe' \subseteq Pipe
      BY <1>c, <3>1 DEF Pipe
    <3>3. \A m \in Pipe' : m.status = "started" /\ m \in robot'.owed => m \notin InReplies' /\ m \notin received'
      BY <1>0, <1>c, <3>1, <3>2 DEF PipeIsRight
    <3> QED
      BY <3>1, <3>2, <3>3
  <2> QED
    BY <2>1, <2>2
<1>1. MotionShapes'
  BY <1>0, <1>c, <1>d DEF MotionShapes, Handle
<1>2. OneProcess' /\ RobotIsConsistent' /\ OkMeansSuccess'
  BY <1>0, <1>c DEF OneProcess, RobotIsConsistent, OkMeansSuccess, Loop
<1>3. Oldest' = Oldest /\ Now' = Now
  BY <1>c DEF Oldest, Now
<1>4. IdsInOrder'
  BY <1>0, <1>c, <1>3 DEF IdsInOrder
<1>5. PipeIsRight'
  <2>1. \A m \in Pipe' : m.id < Oldest' /\ (m.status # "started" => m.id # robot'.move)
    BY <1>0, <1>c, <1>d, <1>3 DEF PipeIsRight
  <2> QED
    BY <1>d, <2>1 DEF PipeIsRight
<1>6. StateIsOwn'
  BY <1>0, <1>c, <1>3 DEF StateIsOwn
<1>7. MotionIsOwned'
  BY <1>0, <1>c, <1>3 DEF MotionIsOwned
<1>8. AnswersAreOwn'
  BY <1>0, <1>c, <1>d, <1>3 DEF AnswersAreOwn
<1> QED
  BY <1>1, <1>2, <1>4, <1>5, <1>6, <1>7, <1>8 DEF FciInv

LEMMA FciRefused ==
    ASSUME FciInv, NEW u \in Users, StartRefused(u)
    PROVE  FciInv'
<1>0. /\ MotionShapes /\ OneProcess /\ RobotIsConsistent /\ IdsInOrder /\ PipeIsRight /\ StateIsOwn
      /\ MotionIsOwned /\ AnswersAreOwn /\ OkMeansSuccess
  BY DEF FciInv
<1>1. /\ user[u].at = "out" /\ lock = NoUser
      /\ user' = [user EXCEPT ![u] = [NoProcess EXCEPT !.result = "error"]]
      /\ UNCHANGED <<lock, seen, wanted, moves, calls, up, next, requests, replies, received, robot, states, outcome, abandoned>> /\ Gone' = Gone
  BY DEF StartRefused, At, bounds, tcp, world, Gone
<1>2. /\ DOMAIN user' = Users /\ (\A v \in Users : v # u => user'[v] = user[v])
      /\ DOMAIN user'[u] = {"at", "api", "id", "kind", "from", "stop", "result"}
      /\ user'[u].at = "out" /\ user'[u].id = NoId /\ user'[u].stop = NoId /\ user'[u].result = "error"
  BY <1>0, <1>1 DEF MotionShapes, NoProcess
<1>3. InReplies' = InReplies /\ Pipe' = Pipe /\ Now' = Now /\ Oldest' = Oldest
  BY <1>1 DEF InReplies, Pipe, Now, Oldest
<1>4. MotionShapes'
  <2>1. \A v \in Users :
         /\ DOMAIN user'[v] = {"at", "api", "id", "kind", "from", "stop", "result"}
         /\ user'[v].at \in Places /\ user'[v].id \in Nat /\ user'[v].stop \in Nat
         /\ user'[v].at # "out" => user'[v].api \in Apis /\ user'[v].kind \in Kinds
         /\ user'[v].at \in {"failed", "released"} => user'[v].api = "handle"
         /\ user'[v].at # "out" \/ user'[v].result = "ok" => user'[v].id \in Ids
    <3> TAKE v \in Users
    <3>1. CASE v = u
      BY <1>2, <3>1 DEF Places, Between, NoId
    <3>2. CASE v # u
      BY <1>0, <1>2, <3>2 DEF MotionShapes, Handle
    <3> QED
      BY <3>1, <3>2
  <2> QED
    BY <1>0, <1>1, <1>2, <2>1 DEF MotionShapes, Handle
<1>5. OneProcess'
  BY <1>0, <1>1, <1>2 DEF OneProcess, Loop
<1>6. RobotIsConsistent' /\ OkMeansSuccess'
  BY <1>0, <1>1, <1>2 DEF RobotIsConsistent, OkMeansSuccess, Loop
<1>7. IdsInOrder'
  BY <1>0, <1>1, <1>2, <1>3 DEF IdsInOrder
<1>8. PipeIsRight'
  BY <1>0, <1>1, <1>3 DEF PipeIsRight
<1>9. StateIsOwn'
  BY <1>0, <1>1, <1>2, <1>3 DEF StateIsOwn, AwaitsState
<1>10. MotionIsOwned'
  BY <1>0, <1>1, <1>2, <1>3, UsersAssumption DEF MotionIsOwned
<1>11. AnswersAreOwn'
  BY <1>0, <1>1, <1>2, <1>3 DEF AnswersAreOwn
<1> QED
  BY <1>4, <1>5, <1>6, <1>7, <1>8, <1>9, <1>10, <1>11 DEF FciInv

\* The accepted state is replaced: by the receiver of a control process, from the state that is
\* accepted, or by read_once while there is none.
LEMMA FciAccepts ==
    ASSUME FciInv, OneAtATime, (\E u \in Users : Received(u)) \/ ReadOnce
    PROVE  FciInv' /\ seen' >= seen
<1>0. /\ MotionShapes /\ OneProcess /\ RobotIsConsistent /\ IdsInOrder /\ PipeIsRight /\ StateIsOwn
      /\ MotionIsOwned /\ AnswersAreOwn /\ OkMeansSuccess
  BY DEF FciInv
<1>1. up /\ UNCHANGED <<lock, wanted, moves, calls, up, next, requests, replies, received, robot, states, outcome, abandoned>> /\ Gone' = Gone
  BY DEF Received, ReadOnce, bounds, tcp, world, Gone
<1>2. InReplies' = InReplies /\ Pipe' = Pipe /\ Oldest' = Oldest /\ seen \in Nat \ {0} /\ seen <= Len(states)
      /\ Len(states) \in Nat
  BY <1>0, <1>1 DEF InReplies, Pipe, Oldest, MotionShapes
<1>3. RobotIsConsistent' /\ PipeIsRight'
  BY <1>0, <1>1, <1>2 DEF RobotIsConsistent, PipeIsRight
<1>4. CASE ReadOnce
  <2>1. (\A u \in Users : user[u].at = "out") /\ UNCHANGED user /\ seen' \in seen..Len(states)
    BY <1>4 DEF ReadOnce, At
  <2>2. seen' \in Nat \ {0} /\ seen' <= Len(states) /\ seen' >= seen
    BY <1>2, <2>1
  <2>3. MotionShapes'
    BY <1>0, <1>1, <2>1, <2>2 DEF MotionShapes, Handle
  <2>4. OneProcess' /\ OkMeansSuccess'
    BY <1>0, <1>1, <2>1 DEF OneProcess, OkMeansSuccess, Loop
  <2>5. IdsInOrder'
    BY <1>0, <1>1, <1>2, <2>1 DEF IdsInOrder
  <2>6. StateIsOwn' /\ AnswersAreOwn'
    BY <2>1 DEF StateIsOwn, AnswersAreOwn, AwaitsState
  <2>7. MotionIsOwned'
    BY <1>0, <1>1, <2>1 DEF MotionIsOwned, MayMove
  <2> QED
    BY <1>3, <2>2, <2>3, <2>4, <2>5, <2>6, <2>7 DEF FciInv
<1>5. ASSUME NEW u \in Users, Received(u) PROVE FciInv' /\ seen' >= seen
  <2>0. user[u].at \in AwaitsState /\ user[u].at # "out" /\ user[u].from = seen
    BY <1>0, <1>5 DEF Received, StateIsOwn, AwaitsState
  <2>1. PICK n \in 1..Len(states) :
           /\ Newest(u, n)
           /\ seen' = n
           /\ LET aborted == states[n].mode # "move" \/ states[n].kind # wanted
              IN  user' = [user EXCEPT
                      ![u].from = n,
                      ![u].at = CASE @ = "entering" -> "polling"
                                  [] @ = "reading"  -> IF aborted THEN "aborted" ELSE "running"
                                  [] @ = "ending"   -> "finishing"
                                  [] @ = "draining" -> IF Running(states[n].kind) THEN @ ELSE "drained"]
    BY <1>5 DEF Received
  <2>2. n >= seen /\ n >= robot.since /\ seen' = n
    BY <1>2, <2>0, <2>1 DEF Newest
  <2> DEFINE aborted == states[n].mode # "move" \/ states[n].kind # wanted
             p == CASE user[u].at = "entering" -> "polling"
                    [] user[u].at = "reading"  -> IF aborted THEN "aborted" ELSE "running"
                    [] user[u].at = "ending"   -> "finishing"
                    [] user[u].at = "draining" -> IF Running(states[n].kind) THEN "draining" ELSE "drained"
  <2>3. user' = [user EXCEPT ![u].from = n, ![u].at = p]
    BY <2>1
  <2>4. \/ user[u].at = "entering" /\ p = "polling"
        \/ user[u].at = "reading" /\ p = "aborted" /\ aborted
        \/ user[u].at = "reading" /\ p = "running" /\ ~aborted
        \/ user[u].at = "ending" /\ p = "finishing"
        \/ user[u].at = "draining" /\ p \in {"draining", "drained"}
    BY <2>0 DEF AwaitsState
  <2>5. ~aborted <=> states[n].mode = "move" /\ states[n].kind = wanted
    OBVIOUS
  <2> HIDE DEF p, aborted
  <2>6. UserGoes(u, p) /\ user'[u].from = n /\ user'[u].result = user[u].result
    BY <1>0, <2>3 DEF MotionShapes, UserGoes
  <2>7. \A v \in Users : v # u => user[v].at = "out" /\ user'[v] = user[v]
    BY <1>0, <2>0, <2>6, FciAlone DEF UserGoes
  <2>8. /\ wanted = user[u].kind /\ lock \in {u, NoUser}
        /\ ~Gone =>
             /\ lock = u /\ user[u].id = robot.move /\ user[u].at \in MayMove
             /\ user[u].at \in InForce => seen > robot.since
             /\ user[u].at \in {"polling", "entering"} => seen > robot.since \/ Now.kind = "idle"
             /\ user[u].at \in {"starting", "polling", "entering"} => ~robot.finish
    BY <1>1, <2>0, FciOwn
  <2>9. Now' = states[n]
    BY <1>1, <2>2 DEF Now
  <2>10. MotionShapes'
    <3>1. \A v \in Users :
           /\ DOMAIN user'[v] = {"at", "api", "id", "kind", "from", "stop", "result"}
           /\ user'[v].at \in Places /\ user'[v].id \in Nat /\ user'[v].stop \in Nat
           /\ user'[v].at # "out" => user'[v].api \in Apis /\ user'[v].kind \in Kinds
           /\ user'[v].at \in {"failed", "released"} => user'[v].api = "handle"
           /\ user'[v].at # "out" \/ user'[v].result = "ok" => user'[v].id \in Ids
      <4> TAKE v \in Users
      <4>1. CASE v = u
        <5>1. p \in Places /\ p \notin {"out", "failed", "released"}
          BY <2>4 DEF Places, Between, AwaitsReply, AwaitsState
        <5> QED
          BY <1>0, <2>0, <2>6, <4>1, <5>1 DEF MotionShapes, UserGoes
      <4>2. CASE v # u
        BY <1>0, <2>7, <4>2 DEF MotionShapes, Handle
      <4> QED
        BY <4>1, <4>2
    <3>2. seen' \in Nat \ {0} /\ seen' <= Len(states)
      BY <2>1, <2>2
    <3>3. DOMAIN user' = Users
      BY <2>6 DEF UserGoes
    <3> QED
      BY <1>0, <1>1, <3>1, <3>2, <3>3 DEF MotionShapes, Handle
  <2>11. OneProcess'
    <3>1. p # "out" /\ user'[u].at = p /\ user'[u].kind = user[u].kind /\ user'[u].api = user[u].api
      BY <2>4, <2>6 DEF UserGoes
    <3>2. Loop(u) => lock = u
      BY <1>0, <2>0 DEF OneProcess
    <3> QED
      BY <1>1, <2>7, <2>8, <3>1, <3>2 DEF OneProcess, Loop
  <2>12. IdsInOrder'
    <3>1. \A v \in Users : user'[v].at \notin {"out", "stopping", "draining", "drained"} => next <= 2 * moves + calls
      <4> TAKE v \in Users
      <4>1. CASE v = u
        BY <1>0, <2>4, <2>6, <4>1 DEF IdsInOrder, UserGoes
      <4>2. CASE v # u
        BY <2>7, <4>2
      <4> QED
        BY <4>1, <4>2
    <3> QED
      BY <1>0, <1>1, <1>2, <3>1 DEF IdsInOrder
  <2>13. StateIsOwn'
    BY <1>1, <2>2, <2>4, <2>5, <2>6, <2>7, <2>9 DEF StateIsOwn, UserGoes, AwaitsState
  <2>14. MotionIsOwned'
    <3>1. \A i \in 1..Len(requests) : requests[i].what = "move" => requests[i].id \in abandoned
      BY <1>0, <1>1, <2>0, <2>4, <2>8, UsersAssumption DEF MotionIsOwned
    <3>2. ASSUME ~Gone
          PROVE  /\ lock = u /\ user'[u].id = robot.move /\ p \in MayMove /\ robot.kind = user'[u].kind
                 /\ p \in InForce => n > robot.since
                 /\ p \in {"polling", "entering"} => (n > robot.since \/ Now'.kind = "idle") /\ ~robot.finish
                 /\ p # "starting"
      <4>1. robot.since \in 1..Len(states) /\ states[robot.since].kind = "idle" /\ robot.kind = user[u].kind /\ lock = u
        BY <1>0, <1>1, <2>8, <3>2 DEF RobotIsConsistent, MotionIsOwned, Gone
      <4>2. user[u].at \in {"entering", "reading", "ending"}
        BY <2>4, <2>8, <3>2 DEF MayMove
      <4>3. CASE user[u].at = "entering"
        <5>1. p = "polling" /\ ~robot.finish
          BY <2>4, <2>8, <3>2, <4>3
        <5>2. n > robot.since \/ states[n].kind = "idle"
          BY <2>2, <4>1
        <5> QED
          BY <2>6, <2>8, <2>9, <3>2, <4>1, <5>1, <5>2 DEF UserGoes, MayMove, InForce
      <4>4. CASE user[u].at \in {"reading", "ending"}
        <5>1. n > robot.since
          BY <1>2, <2>2, <2>8, <3>2, <4>1, <4>4 DEF InForce
        <5>2. states[n] = [mode |-> "move", kind |-> robot.kind]
          BY <1>0, <2>1, <3>2, <5>1 DEF RobotIsConsistent, Gone
        <5>3. ~aborted
          BY <2>5, <2>8, <4>1, <5>2
        <5>4. p \in {"running", "finishing"}
          BY <2>4, <4>4, <5>3
        <5> QED
          BY <2>6, <2>8, <3>2, <4>1, <5>1, <5>4 DEF UserGoes, MayMove
      <4> QED
        BY <4>2, <4>3, <4>4
    <3> QED
      BY <1>1, <2>2, <2>6, <3>1, <3>2 DEF MotionIsOwned, UserGoes
  <2>15. AnswersAreOwn'
    <3> SUFFICES /\ user'[u].id \in Ids /\ user'[u].id < next
                 /\ user'[u].at \notin {"starting", "stopping"}
                 /\ user'[u].id < Oldest /\ Started(user'[u].id) \notin Pipe
                 /\ user'[u].at \in {"starting", "polling", "entering"} => outcome[user'[u].id] # "success" /\ user'[u].id \notin abandoned
                 /\ \A i \in 1..Len(requests) : requests[i].id = user'[u].id => requests[i].what = "move" /\ requests[i].kind = user'[u].kind
                 /\ \A m \in Pipe : m.id = user'[u].id /\ m.status = "success" => outcome[user'[u].id] = "success"
      BY <1>1, <1>2, <2>7 DEF AnswersAreOwn
    <3>1. /\ user[u].id \in Ids /\ user[u].id < next /\ user[u].id < Oldest /\ Started(user[u].id) \notin Pipe
          /\ user[u].at = "entering" => outcome[user[u].id] # "success" /\ user[u].id \notin abandoned
          /\ \A i \in 1..Len(requests) : requests[i].id = user[u].id => requests[i].what = "move" /\ requests[i].kind = user[u].kind
          /\ \A m \in Pipe : m.id = user[u].id /\ m.status = "success" => outcome[user[u].id] = "success"
      BY <1>0, <1>1, <2>0, <2>4 DEF AnswersAreOwn
    <3>2. user'[u].at = p /\ user'[u].id = user[u].id /\ user'[u].kind = user[u].kind
      BY <2>6 DEF UserGoes
    <3> QED
      BY <2>4, <3>1, <3>2
  <2>16. OkMeansSuccess'
    BY <1>0, <1>1, <2>6, <2>7 DEF OkMeansSuccess, Loop, UserGoes
  <2> QED
    BY <1>3, <2>2, <2>10, <2>11, <2>12, <2>13, <2>14, <2>15, <2>16 DEF FciInv
<1> QED
  BY <1>4, <1>5

LEMMA FciShows ==
    ASSUME FciInv, RobotShows
    PROVE  FciInv'
<1>0. /\ MotionShapes /\ OneProcess /\ RobotIsConsistent /\ IdsInOrder /\ PipeIsRight /\ StateIsOwn
      /\ MotionIsOwned /\ AnswersAreOwn /\ OkMeansSuccess
  BY DEF FciInv
<1>1. /\ states' = Append(states, Truth)
      /\ UNCHANGED <<lock, seen, wanted, user, moves, calls, up, next, requests, replies, received, robot, outcome, abandoned>> /\ Gone' = Gone
  BY DEF RobotShows, client, bounds, tcp, Gone
<1> DEFINE S == [mode: RobotModes, kind: {"idle", "motion", "torque"}]
<1>2. Truth \in S /\ (robot.move # NoId => Truth = [mode |-> "move", kind |-> robot.kind])
  BY <1>0, KindsAssumption DEF RobotIsConsistent, MotionShapes, Truth
<1>3. states \in Seq(S) /\ seen \in 1..Len(states)
  BY <1>0 DEF MotionShapes
<1> HIDE DEF S
<1>4. /\ states' \in Seq(S) /\ Len(states') = Len(states) + 1 /\ Len(states) \in Nat
      /\ \A n \in 1..Len(states) : states'[n] = states[n]
      /\ states'[Len(states) + 1] = Truth
  BY <1>1, <1>2, <1>3
<1>5. InReplies' = InReplies /\ Pipe' = Pipe /\ Now' = Now /\ Oldest' = Oldest
  BY <1>1, <1>3, <1>4 DEF InReplies, Pipe, Now, Oldest
<1>6. MotionShapes'
  <2>1. seen' <= Len(states')
    BY <1>1, <1>3, <1>4
  <2> QED
    BY <1>0, <1>1, <1>4, <2>1 DEF MotionShapes, Handle, S
<1>7. OneProcess' /\ OkMeansSuccess' /\ StateIsOwn'
  BY <1>0, <1>1, <1>5 DEF OneProcess, OkMeansSuccess, StateIsOwn, Loop
<1>8. RobotIsConsistent'
  <2> SUFFICES ASSUME robot.move # NoId
               PROVE  /\ robot.since \in 1..Len(states') /\ states'[robot.since].kind = "idle"
                      /\ \A n \in 1..Len(states') : n > robot.since => states'[n] = [mode |-> "move", kind |-> robot.kind]
    BY <1>0, <1>1 DEF RobotIsConsistent
  <2>1. /\ robot.since \in 1..Len(states) /\ states[robot.since].kind = "idle"
        /\ \A n \in 1..Len(states) : n > robot.since => states[n] = [mode |-> "move", kind |-> robot.kind]
    BY <1>0 DEF RobotIsConsistent
  <2> QED
    BY <1>2, <1>4, <2>1
<1>9. IdsInOrder' /\ PipeIsRight'
  BY <1>0, <1>1, <1>5 DEF IdsInOrder, PipeIsRight
<1>10. MotionIsOwned' /\ AnswersAreOwn'
  BY <1>0, <1>1, <1>5 DEF MotionIsOwned, AnswersAreOwn
<1> QED
  BY <1>6, <1>7, <1>8, <1>9, <1>10 DEF FciInv

\* The robot sends one of the messages it owes.
LEMMA FciReplies ==
    ASSUME FciInv, RobotReplies
    PROVE  FciInv'
<1>0. /\ MotionShapes /\ OneProcess /\ RobotIsConsistent /\ IdsInOrder /\ PipeIsRight /\ StateIsOwn
      /\ MotionIsOwned /\ AnswersAreOwn /\ OkMeansSuccess
  BY DEF FciInv
<1>1. UNCHANGED <<lock, seen, wanted, user, moves, calls, up, next, requests, received, states, outcome, abandoned>>
  BY DEF RobotReplies, client, bounds
<1>2. PICK m \in robot.owed : replies' = Append(replies, m) /\ robot' = [robot EXCEPT !.owed = robot.owed \ {m}]
  BY DEF RobotReplies
<1>3. /\ replies \in Seq(Messages) /\ m \in Messages /\ DOMAIN robot = {"move", "mode", "kind", "finish", "owed", "since"}
  BY <1>0, <1>2 DEF MotionShapes
<1>4. /\ DOMAIN robot' = DOMAIN robot /\ robot'.move = robot.move /\ robot'.mode = robot.mode /\ robot'.kind = robot.kind
      /\ robot'.finish = robot.finish /\ robot'.since = robot.since /\ robot'.owed = robot.owed \ {m}
  BY <1>2, <1>3
<1>5. /\ replies' \in Seq(Messages) /\ Len(replies') = Len(replies) + 1 /\ Len(replies) \in Nat
      /\ \A j \in 1..Len(replies) : replies'[j] = replies[j]
      /\ replies'[Len(replies) + 1] = m
      /\ DOMAIN replies = 1..Len(replies) /\ DOMAIN replies' = 1..Len(replies')
  BY <1>2, <1>3
<1>6. InReplies' = InReplies \cup {m}
  BY <1>5 DEF InReplies
<1>7. Pipe' = Pipe /\ Oldest' = Oldest /\ Now' = Now /\ Gone' = Gone
  BY <1>1, <1>2, <1>4, <1>6 DEF Pipe, Oldest, Now, Gone
<1>8. MotionShapes'
  BY <1>0, <1>1, <1>4, <1>5 DEF MotionShapes, Handle
<1>9. OneProcess' /\ OkMeansSuccess' /\ StateIsOwn' /\ RobotIsConsistent' /\ IdsInOrder'
  BY <1>0, <1>1, <1>4, <1>7 DEF OneProcess, OkMeansSuccess, StateIsOwn, RobotIsConsistent, IdsInOrder, Loop
<1>10. PipeIsRight'
  <2>1. \A k \in Pipe' : k.id < Oldest' /\ (k.status # "started" => k.id # robot'.move)
    BY <1>0, <1>4, <1>7 DEF PipeIsRight
  <2>2. ASSUME NEW k \in Pipe', k.status = "started"
        PROVE  /\ k \in robot'.owed => k \notin InReplies' /\ k \notin received'
               /\ k \in InReplies' => k \notin received'
               /\ \A i, j \in 1..Len(replies') : replies'[i] = k /\ replies'[j] = k => i = j
    <3>1. /\ k \in robot.owed => k \notin InReplies /\ k \notin received
          /\ k \in InReplies => k \notin received
          /\ \A i, j \in 1..Len(replies) : replies[i] = k /\ replies[j] = k => i = j
      BY <1>0, <1>7, <2>2 DEF PipeIsRight
    <3>2. m = k => k \notin InReplies /\ k \notin received
      BY <1>2, <3>1
    <3>3. ASSUME NEW i \in 1..Len(replies'), NEW j \in 1..Len(replies'), replies'[i] = k, replies'[j] = k PROVE i = j
      <4>1. i \in 1..Len(replies) \/ i = Len(replies) + 1
        BY <1>5
      <4>2. j \in 1..Len(replies) \/ j = Len(replies) + 1
        BY <1>5
      <4>3. m = k => (\A l \in 1..Len(replies) : replies[l] # k)
        BY <1>5, <3>2 DEF InReplies
      <4> QED
        BY <1>5, <3>1, <3>3, <4>1, <4>2, <4>3
    <3> QED
      BY <1>1, <1>4, <1>6, <3>1, <3>2, <3>3
  <2> QED
    BY <2>1, <2>2 DEF PipeIsRight
<1>11. MotionIsOwned' /\ AnswersAreOwn'
  BY <1>0, <1>1, <1>4, <1>7 DEF MotionIsOwned, AnswersAreOwn
<1> QED
  BY <1>8, <1>9, <1>10, <1>11 DEF FciInv

\* The motion ends on the robot: its last command was flagged, or a reflex.
LEMMA FciMotionEnds ==
    ASSUME FciInv, OneAtATime, RobotFinishes \/ RobotReflexes
    PROVE  FciInv'
<1>0. /\ MotionShapes /\ OneProcess /\ RobotIsConsistent /\ IdsInOrder /\ PipeIsRight /\ StateIsOwn
      /\ MotionIsOwned /\ AnswersAreOwn /\ OkMeansSuccess
  BY DEF FciInv
<1>1. robot.owed = {} /\ UNCHANGED <<lock, seen, wanted, user, moves, calls, up, next, requests, replies, received, states, abandoned>>
  BY DEF RobotFinishes, RobotReflexes, client, bounds, tcp
<1>2. DOMAIN robot = {"move", "mode", "kind", "finish", "owed", "since"} /\ robot.move \in Nat /\ Oldest \in Int
  BY <1>0 DEF MotionShapes, Oldest
<1>3. InReplies' = InReplies /\ Now' = Now /\ Oldest' = Oldest
  BY <1>1 DEF InReplies, Now, Oldest
<1>4. CASE robot.move = NoId
  <2>1. robot' = [robot EXCEPT !.mode = "reflex"] /\ UNCHANGED outcome
    BY <1>0, <1>4 DEF RobotFinishes, RobotReflexes, RobotIsConsistent
  <2>2. /\ DOMAIN robot' = DOMAIN robot /\ robot'.move = robot.move /\ robot'.mode = "reflex" /\ robot'.kind = robot.kind
        /\ robot'.finish = robot.finish /\ robot'.since = robot.since /\ robot'.owed = robot.owed
        /\ Gone' = Gone
    BY <1>1, <1>2, <2>1 DEF Gone
  <2>3. Pipe' = Pipe
    BY <1>1, <1>3, <2>2 DEF Pipe
  <2>4. MotionShapes'
    BY <1>0, <1>1, <2>1, <2>2 DEF MotionShapes, Handle, RobotModes
  <2>5. OneProcess' /\ OkMeansSuccess' /\ StateIsOwn' /\ RobotIsConsistent' /\ IdsInOrder' /\ PipeIsRight'
    BY <1>0, <1>1, <1>3, <1>4, <2>1, <2>2, <2>3
       DEF OneProcess, OkMeansSuccess, StateIsOwn, RobotIsConsistent, IdsInOrder, PipeIsRight, Loop
  <2>6. MotionIsOwned' /\ AnswersAreOwn'
    BY <1>0, <1>1, <1>3, <2>1, <2>2, <2>3 DEF MotionIsOwned, AnswersAreOwn
  <2> QED
    BY <2>4, <2>5, <2>6 DEF FciInv
<1>5. CASE robot.move # NoId
  <2> DEFINE status == IF RobotFinishes THEN "success" ELSE "reflex"
             mode == IF RobotFinishes THEN "idle" ELSE "reflex"
             m == Message(robot.move, status)
  <2>1. robot' = Ended(mode, {m}) /\ outcome' = [outcome EXCEPT ![robot.move] = status] /\ (status = "success" => robot.finish)
    BY <1>5 DEF RobotFinishes, RobotReflexes
  <2>2. status \in {"success", "reflex"} /\ mode \in {"idle", "reflex"}
    OBVIOUS
  <2> HIDE DEF status, mode
  <2>3. m \in Messages /\ m.id = robot.move /\ m.status = status
    BY <1>2, <1>5, <2>2 DEF Message, Messages, Statuses, Ends, NoId
  <2> HIDE DEF m
  <2>4. /\ DOMAIN robot' = DOMAIN robot /\ robot'.move = NoId /\ robot'.mode = mode /\ robot'.kind = "idle"
        /\ robot'.finish = FALSE /\ robot'.owed = {m}
    BY <1>2, <2>1 DEF Ended
  <2>5. Pipe' = Pipe \cup {m}
    BY <1>1, <1>3, <2>4 DEF Pipe
  <2>6. DOMAIN outcome' = Ids /\ (\A i \in Ids : outcome'[i] = IF i = robot.move THEN status ELSE outcome[i])
    BY <1>0, <2>1 DEF MotionShapes
  <2>7. \A i \in Ids : outcome[i] # "none" => i < Oldest /\ i # robot.move
    BY <1>0 DEF IdsInOrder
  <2>8. robot.move < Oldest /\ Oldest >= 1
    BY <1>0 DEF IdsInOrder
  <2>9. MotionShapes'
    BY <1>0, <1>1, <2>2, <2>3, <2>4, <2>6 DEF MotionShapes, Handle, RobotModes, NoId
  <2>10. OneProcess' /\ StateIsOwn'
    BY <1>0, <1>1, <1>3 DEF OneProcess, StateIsOwn, Loop
  <2>11. RobotIsConsistent'
    BY <2>2, <2>4 DEF RobotIsConsistent
  <2>12. IdsInOrder'
    <3>1. \A i \in Ids : outcome'[i] # "none" => i < Oldest' /\ i # robot'.move
      BY <1>3, <1>5, <2>4, <2>6, <2>7, <2>8 DEF Ids, NoId
    <3>2. Oldest' >= 1 /\ robot'.move < Oldest'
      BY <1>2, <1>3, <2>4, <2>8 DEF NoId
    <3> QED
      BY <1>0, <1>1, <1>3, <3>1, <3>2 DEF IdsInOrder
  <2>13. PipeIsRight'
    <3>1. \A k \in Pipe : k.id < Oldest /\ k.id \in Nat \ {0}
      BY <1>0, FciPipe DEF PipeIsRight
    <3>2. \A k \in Pipe' : k.id < Oldest' /\ (k.status # "started" => k.id # robot'.move)
      BY <1>2, <1>3, <1>5, <2>3, <2>4, <2>5, <2>8, <3>1 DEF NoId
    <3>3. \A k \in Pipe' : k.status = "started" => k \in Pipe /\ k \notin robot'.owed
      BY <2>2, <2>3, <2>4, <2>5
    <3>4. \A k \in Pipe : k.status = "started" =>
            /\ k \in InReplies => k \notin received
            /\ \A i, j \in 1..Len(replies) : replies[i] = k /\ replies[j] = k => i = j
      BY <1>0 DEF PipeIsRight
    <3> QED
      BY <1>1, <1>3, <3>2, <3>3, <3>4 DEF PipeIsRight
  <2>14. MotionIsOwned'
    BY <1>0, <1>1, <1>3, <2>4 DEF MotionIsOwned, Gone
  <2>15. AnswersAreOwn'
    <3> SUFFICES ASSUME up, NEW u \in Users, user[u].at # "out"
                 PROVE  /\ user[u].id \in Ids /\ user[u].id < next
                        /\ user[u].at # "starting" => user[u].id < Oldest /\ Started(user[u].id) \notin Pipe'
                        /\ user[u].at = "starting" => Now.kind = "idle"
                        /\ user[u].at \in {"starting", "polling", "entering"} => outcome'[user[u].id] # "success" /\ user[u].id \notin abandoned
                        /\ \A i \in 1..Len(requests) : requests[i].id = user[u].id => requests[i].what = "move" /\ requests[i].kind = user[u].kind
                        /\ \A k \in Pipe' : k.id = user[u].id /\ k.status = "success" => outcome'[user[u].id] = "success"
                        /\ user[u].at = "stopping" =>
                             /\ user[u].stop < next
                             /\ \A i \in 1..Len(requests) : requests[i].id = user[u].stop => requests[i].what = "stop"
      BY <1>1, <1>3, <2>4 DEF AnswersAreOwn, Gone
    <3>1. /\ user[u].id \in Ids /\ user[u].id < next
          /\ user[u].at # "starting" => user[u].id < Oldest /\ Started(user[u].id) \notin Pipe
          /\ user[u].at = "starting" => Now.kind = "idle"
          /\ user[u].at \in {"starting", "polling", "entering"} => outcome[user[u].id] # "success" /\ user[u].id \notin abandoned
          /\ \A i \in 1..Len(requests) : requests[i].id = user[u].id => requests[i].what = "move" /\ requests[i].kind = user[u].kind
          /\ \A k \in Pipe : k.id = user[u].id /\ k.status = "success" => outcome[user[u].id] = "success"
          /\ user[u].at = "stopping" =>
               /\ user[u].stop < next
               /\ \A i \in 1..Len(requests) : requests[i].id = user[u].stop => requests[i].what = "stop"
      BY <1>0 DEF AnswersAreOwn
    <3>2. user[u].id = robot.move /\ user[u].at \in {"starting", "polling", "entering"} => ~robot.finish
      BY <1>5, <3>1, FciOwn DEF Gone
    <3>3. Started(user[u].id) # m
      BY <2>2, <2>3 DEF Started
    <3>4. outcome'[user[u].id] = IF user[u].id = robot.move THEN status ELSE outcome[user[u].id]
      BY <2>6, <3>1
    <3>5. user[u].at \in {"starting", "polling", "entering"} => outcome'[user[u].id] # "success"
      BY <2>1, <3>1, <3>2, <3>4
    <3>6. \A k \in Pipe : k.id = user[u].id /\ k.status = "success" => user[u].id # robot.move
      BY <1>0 DEF PipeIsRight
    <3>7. \A k \in Pipe' : k.id = user[u].id /\ k.status = "success" => outcome'[user[u].id] = "success"
      BY <2>3, <2>5, <3>1, <3>4, <3>6
    <3> QED
      BY <2>5, <3>1, <3>3, <3>5, <3>7
  <2>16. OkMeansSuccess'
    <3>1. \A u \in Users : Loop(u) /\ user[u].result = "ok" => user[u].id \in Ids /\ user[u].id # robot.move /\ outcome[user[u].id] = "success"
      <4>1. \A u \in Users : Loop(u) /\ user[u].result = "ok" => user[u].id \in Ids /\ outcome[user[u].id] = "success"
        BY <1>0 DEF MotionShapes, OkMeansSuccess
      <4> QED
        BY <2>7, <4>1
    <3> QED
      BY <1>1, <2>6, <3>1 DEF OkMeansSuccess, Loop
  <2> QED
    BY <2>9, <2>10, <2>11, <2>12, <2>13, <2>14, <2>15, <2>16 DEF FciInv
<1> QED
  BY <1>4, <1>5

\* The oldest request leaves the queue: its id is Oldest, and the others move up.
LEMMA FciHead ==
    ASSUME FciInv, requests # <<>>, requests' = Tail(requests), next' = next
    PROVE  /\ Head(requests).id = Oldest /\ Head(requests).what \in {"move", "stop", "recover"}
           /\ Head(requests).what = "move" => Head(requests).kind \in Kinds
           /\ Head(requests) = requests[1] /\ 1 \in 1..Len(requests)
           /\ requests' \in Seq([what: {"move", "stop", "recover"}, id: Nat, kind: {"idle", "motion", "torque"}])
           /\ Oldest' = Oldest + 1 /\ Oldest \in Nat \ {0} /\ Oldest < next
           /\ \A i \in 1..Len(requests') :
                /\ requests'[i].id = Oldest' + i - 1 /\ (requests'[i].what = "move" => requests'[i].kind \in Kinds)
                /\ \E k \in 1..Len(requests) : requests'[i] = requests[k]
<1> DEFINE R == [what: {"move", "stop", "recover"}, id: Nat, kind: {"idle", "motion", "torque"}]
<1>1. requests \in Seq(R) /\ next \in Nat /\ Len(requests) \in Nat
  BY DEF FciInv, MotionShapes
<1> HIDE DEF R
<1>2. Head(requests) \in R
  BY <1>1
<1>3. Head(requests).what \in {"move", "stop", "recover"}
  BY <1>2 DEF R
<1>4. /\ requests' \in Seq(R) /\ Len(requests) >= 1 /\ Len(requests') = Len(requests) - 1
      /\ Head(requests) = requests[1] /\ \A i \in 1..Len(requests') : requests'[i] = requests[i + 1]
  BY <1>1
<1>5. Oldest' = Oldest + 1 /\ Oldest \in Int /\ Oldest < next
  BY <1>1, <1>4 DEF Oldest
<1>6. /\ Oldest >= 1
      /\ \A i \in 1..Len(requests) : requests[i].id = Oldest + i - 1 /\ (requests[i].what = "move" => requests[i].kind \in Kinds)
  BY DEF FciInv, IdsInOrder
<1>7. 1 \in 1..Len(requests)
  BY <1>1, <1>4
<1>8. Head(requests).id = Oldest /\ (Head(requests).what = "move" => Head(requests).kind \in Kinds)
  BY <1>4, <1>5, <1>6, <1>7
<1>9. ASSUME NEW i \in 1..Len(requests')
      PROVE  /\ requests'[i].id = Oldest' + i - 1 /\ (requests'[i].what = "move" => requests'[i].kind \in Kinds)
             /\ \E k \in 1..Len(requests) : requests'[i] = requests[k]
  <2>1. i + 1 \in 1..Len(requests) /\ requests'[i] = requests[i + 1] /\ i \in Nat
    BY <1>1, <1>4, <1>9
  <2>2. requests[i + 1].id = Oldest + (i + 1) - 1 /\ (requests[i + 1].what = "move" => requests[i + 1].kind \in Kinds)
    BY <1>6, <2>1
  <2> QED
    BY <1>5, <2>1, <2>2
<1> QED
  BY <1>3, <1>4, <1>5, <1>6, <1>7, <1>8, <1>9 DEF R

\* What every request does that the robot takes.
LEMMA FciTaken ==
    ASSUME FciInv, RobotTakes
    PROVE  /\ robot.owed = {} /\ requests # <<>> /\ requests' = Tail(requests)
           /\ UNCHANGED <<lock, seen, wanted, user, moves, calls, up, next, replies, received, states, abandoned>>
           /\ InReplies' = InReplies /\ Now' = Now /\ Pipe = InReplies \cup received /\ states[Len(states)] = Truth
           /\ DOMAIN robot = {"move", "mode", "kind", "finish", "owed", "since"} /\ robot.move \in Nat
           /\ Len(states) \in 1..Len(states)
           /\ \A m \in Pipe : m.id < Oldest /\ m.id \in Nat \ {0}
           /\ \A k \in Pipe : k.status = "started" =>
                /\ k \in InReplies => k \notin received
                /\ \A i, j \in 1..Len(replies) : replies[i] = k /\ replies[j] = k => i = j
           /\ robot.move < Oldest
<1>1. MotionShapes /\ PipeIsRight /\ IdsInOrder
  BY DEF FciInv
<1>2. /\ robot.owed = {} /\ requests # <<>> /\ requests' = Tail(requests) /\ states[Len(states)] = Truth
      /\ UNCHANGED <<lock, seen, wanted, user, moves, calls, up, next, replies, received, states, abandoned>>
  BY DEF RobotTakes, Shown, client, bounds
<1>3. InReplies' = InReplies /\ Now' = Now /\ Pipe = InReplies \cup received
  BY <1>2 DEF InReplies, Now, Pipe
<1>4. Len(states) \in 1..Len(states)
  BY <1>1 DEF MotionShapes
<1>5. \A m \in Pipe : m.id < Oldest /\ m.id \in Nat \ {0}
  BY <1>1, FciPipe DEF PipeIsRight
<1>6. \A k \in Pipe : k.status = "started" =>
                /\ k \in InReplies => k \notin received
                /\ \A i, j \in 1..Len(replies) : replies[i] = k /\ replies[j] = k => i = j
  BY <1>1 DEF PipeIsRight
<1> QED
  BY <1>1, <1>2, <1>3, <1>4, <1>5, <1>6 DEF MotionShapes, IdsInOrder

\* A request that is answered and leaves the motion as it is.
LEMMA FciAnswers ==
    ASSUME FciInv, OneAtATime, RobotTakes, NEW status \in {"success", "rejected"}, NEW mode \in RobotModes,
           robot' = [robot EXCEPT !.owed = {Message(Head(requests).id, status)}, !.mode = mode],
           mode = robot.mode \/ (robot.move = NoId /\ mode = "idle"),
           Head(requests).what = "stop" => robot.move = NoId,
           Head(requests).what = "move" => status = "rejected",
           UNCHANGED outcome \/ outcome' = [outcome EXCEPT ![Head(requests).id] = "rejected"]
    PROVE  FciInv'
<1>0. /\ MotionShapes /\ OneProcess /\ RobotIsConsistent /\ IdsInOrder /\ PipeIsRight /\ StateIsOwn
      /\ MotionIsOwned /\ AnswersAreOwn /\ OkMeansSuccess
  BY DEF FciInv
<1>1. /\ robot.owed = {} /\ requests # <<>> /\ requests' = Tail(requests)
      /\ UNCHANGED <<lock, seen, wanted, user, moves, calls, up, next, replies, received, states, abandoned>>
      /\ InReplies' = InReplies /\ Now' = Now /\ Pipe = InReplies \cup received
      /\ DOMAIN robot = {"move", "mode", "kind", "finish", "owed", "since"} /\ robot.move \in Nat
      /\ \A m \in Pipe : m.id < Oldest /\ m.id \in Nat \ {0}
      /\ \A k \in Pipe : k.status = "started" =>
           /\ k \in InReplies => k \notin received
           /\ \A i, j \in 1..Len(replies) : replies[i] = k /\ replies[j] = k => i = j
      /\ robot.move < Oldest
  BY FciTaken
<1>2. /\ Head(requests).id = Oldest /\ Head(requests) = requests[1] /\ 1 \in 1..Len(requests)
      /\ requests' \in Seq([what: {"move", "stop", "recover"}, id: Nat, kind: {"idle", "motion", "torque"}])
      /\ Oldest' = Oldest + 1 /\ Oldest \in Nat \ {0} /\ Oldest < next
      /\ \A i \in 1..Len(requests') :
           /\ requests'[i].id = Oldest' + i - 1 /\ (requests'[i].what = "move" => requests'[i].kind \in Kinds)
           /\ \E k \in 1..Len(requests) : requests'[i] = requests[k]
  BY <1>1, FciHead
<1> DEFINE m == Message(Head(requests).id, status)
<1>3. m \in Messages /\ m.id = Oldest /\ m.status = status
  BY <1>2 DEF Message, Messages, Statuses, Ends
<1> HIDE DEF m
<1>4. /\ DOMAIN robot' = DOMAIN robot /\ robot'.move = robot.move /\ robot'.mode = mode /\ robot'.kind = robot.kind
      /\ robot'.finish = robot.finish /\ robot'.since = robot.since /\ robot'.owed = {m}
      /\ Gone' = Gone
  BY <1>1 DEF m, Gone
<1>5. Pipe' = Pipe \cup {m}
  BY <1>1, <1>4 DEF Pipe
<1>6. DOMAIN outcome' = Ids /\ (\A i \in Ids : outcome'[i] = outcome[i] \/ (i = Oldest /\ outcome'[i] = "rejected"))
  BY <1>0, <1>2 DEF MotionShapes
<1>7. \A i \in Ids : outcome[i] # "none" => i < Oldest /\ i # robot.move
  BY <1>0 DEF IdsInOrder
<1>8. MotionShapes'
  BY <1>0, <1>1, <1>2, <1>3, <1>4, <1>6 DEF MotionShapes, Handle
<1>9. OneProcess' /\ StateIsOwn'
  BY <1>0, <1>1 DEF OneProcess, StateIsOwn, Loop
<1>10. RobotIsConsistent'
  BY <1>0, <1>1, <1>4 DEF RobotIsConsistent
<1>11. IdsInOrder'
  <2>1. \A i \in Ids : outcome'[i] # "none" => i < Oldest' /\ i # robot'.move
    BY <1>1, <1>2, <1>4, <1>6, <1>7 DEF Ids
  <2>2. Oldest' >= 1 /\ robot'.move < Oldest'
    BY <1>1, <1>2, <1>4
  <2> QED
    BY <1>0, <1>1, <1>2, <2>1, <2>2 DEF IdsInOrder
<1>12. PipeIsRight'
  <2>1. \A k \in Pipe' : k.id < Oldest' /\ (k.status # "started" => k.id # robot'.move)
    <3>1. \A k \in Pipe : k.status # "started" => k.id # robot.move
      BY <1>0 DEF PipeIsRight
    <3> QED
      BY <1>1, <1>2, <1>3, <1>4, <1>5, <3>1
  <2>2. \A k \in Pipe' : k.status = "started" => k \in Pipe /\ k \notin robot'.owed
    BY <1>3, <1>4, <1>5
  <2> QED
    BY <1>1, <2>1, <2>2 DEF PipeIsRight
<1>13. MotionIsOwned'
  <2> SUFFICES ASSUME up PROVE MotionIsOwned'
    BY <1>1 DEF MotionIsOwned
  <2>1. \A i \in 1..Len(requests') : requests'[i].what = "move" =>
           \/ requests'[i].id \in abandoned'
           \/ lock \in Users /\ user[lock].at = "starting" /\ user[lock].id = requests'[i].id
    <3>1. \A k \in 1..Len(requests) : requests[k].what = "move" =>
             \/ requests[k].id \in abandoned
             \/ lock \in Users /\ user[lock].at = "starting" /\ user[lock].id = requests[k].id
      BY <1>0 DEF MotionIsOwned
    <3>2. \A i \in 1..Len(requests') : \E k \in 1..Len(requests) : requests'[i] = requests[k]
      BY <1>2
    <3>3. abandoned' = abandoned
      BY <1>1
    <3> QED
      BY <3>1, <3>2, <3>3
  <2> QED
    BY <1>0, <1>1, <1>4, <2>1 DEF MotionIsOwned
<1>14. AnswersAreOwn'
  <2> SUFFICES ASSUME up, NEW u \in Users, user[u].at # "out"
               PROVE  /\ user[u].id \in Ids /\ user[u].id < next
                      /\ user[u].at # "starting" => user[u].id < Oldest' /\ Started(user[u].id) \notin Pipe'
                      /\ user[u].at = "starting" => Now.kind = "idle"
                      /\ user[u].at \in {"starting", "polling", "entering"} => outcome'[user[u].id] # "success" /\ user[u].id \notin abandoned
                      /\ \A i \in 1..Len(requests') : requests'[i].id = user[u].id => requests'[i].what = "move" /\ requests'[i].kind = user[u].kind
                      /\ \A k \in Pipe' : k.id = user[u].id /\ k.status = "success" => outcome'[user[u].id] = "success"
                      /\ user[u].at = "stopping" =>
                           /\ user[u].stop < next
                           /\ \A i \in 1..Len(requests') : requests'[i].id = user[u].stop => requests'[i].what = "stop"
                           /\ \A k \in Pipe' : k.id = user[u].stop => Gone
    BY <1>1, <1>4 DEF AnswersAreOwn
  <2>1. /\ user[u].id \in Ids /\ user[u].id < next
        /\ user[u].at # "starting" => user[u].id < Oldest /\ Started(user[u].id) \notin Pipe
        /\ user[u].at = "starting" => Now.kind = "idle"
        /\ user[u].at \in {"starting", "polling", "entering"} => outcome[user[u].id] # "success" /\ user[u].id \notin abandoned
        /\ \A i \in 1..Len(requests) : requests[i].id = user[u].id => requests[i].what = "move" /\ requests[i].kind = user[u].kind
        /\ \A k \in Pipe : k.id = user[u].id /\ k.status = "success" => outcome[user[u].id] = "success"
        /\ user[u].at = "stopping" =>
             /\ user[u].stop < next
             /\ \A i \in 1..Len(requests) : requests[i].id = user[u].stop => requests[i].what = "stop"
             /\ \A k \in Pipe : k.id = user[u].stop => Gone
    BY <1>0 DEF AnswersAreOwn
  <2>2. Started(user[u].id) # m /\ (user[u].id \in Nat)
    BY <1>0, <1>3 DEF Started, MotionShapes
  <2>3. user[u].at # "starting" => user[u].id < Oldest'
    BY <1>2, <2>1, <2>2
  <2>4. outcome'[user[u].id] = outcome[user[u].id] \/ (user[u].id = Oldest /\ outcome'[user[u].id] = "rejected")
    BY <1>6, <2>1
  <2>5. m.id = user[u].id => status = "rejected"
    BY <1>2, <1>3, <2>1
  <2>6. \A k \in Pipe' : k.id = user[u].id /\ k.status = "success" => outcome'[user[u].id] = "success"
    <3>1. ASSUME NEW k \in Pipe, k.id = user[u].id, k.status = "success" PROVE outcome'[user[u].id] = "success"
      <4>1. k.id < Oldest /\ outcome[user[u].id] = "success"
        BY <1>1, <2>1, <3>1
      <4>2. user[u].id # Oldest
        BY <1>2, <2>2, <3>1, <4>1
      <4> QED
        BY <2>4, <4>1, <4>2
    <3> QED
      BY <1>3, <1>5, <2>5, <3>1
  <2>7. user[u].at = "stopping" /\ m.id = user[u].stop => Gone
    <3> SUFFICES ASSUME user[u].at = "stopping", m.id = user[u].stop PROVE Gone
      OBVIOUS
    <3>1. /\ requests[1].id = Oldest /\ 1 \in 1..Len(requests)
          /\ \A i \in 1..Len(requests) : requests[i].id = user[u].stop => requests[i].what = "stop"
      BY <1>2, <2>1
    <3>2. requests[1].what = "stop"
      BY <1>3, <3>1
    <3>3. Head(requests).what = "stop"
      BY <1>2, <3>2
    <3>4. robot.move = NoId
      BY <3>3
    <3> QED
      BY <3>4 DEF Gone
  <2>8. /\ \A i \in 1..Len(requests') : requests'[i].id = user[u].id => requests'[i].what = "move" /\ requests'[i].kind = user[u].kind
        /\ user[u].at = "stopping" => \A i \in 1..Len(requests') : requests'[i].id = user[u].stop => requests'[i].what = "stop"
    <3>1. ASSUME NEW i \in 1..Len(requests')
          PROVE  /\ requests'[i].id = user[u].id => requests'[i].what = "move" /\ requests'[i].kind = user[u].kind
                 /\ user[u].at = "stopping" /\ requests'[i].id = user[u].stop => requests'[i].what = "stop"
      <4>1. PICK k \in 1..Len(requests) : requests'[i] = requests[k]
        BY <1>2, <3>1
      <4> QED
        BY <2>1, <4>1
    <3> QED
      BY <3>1
  <2> QED
    BY <1>4, <1>5, <2>1, <2>2, <2>3, <2>4, <2>6, <2>7, <2>8
<1>15. OkMeansSuccess'
  <2>1. \A u \in Users : Loop(u) /\ user[u].result = "ok" => user[u].id \in Ids /\ user[u].id # Oldest /\ outcome[user[u].id] = "success"
    <3>1. \A u \in Users : Loop(u) /\ user[u].result = "ok" => user[u].id \in Ids /\ outcome[user[u].id] = "success"
      BY <1>0 DEF MotionShapes, OkMeansSuccess
    <3> QED
      BY <1>2, <1>7, <3>1
  <2> QED
    BY <1>1, <1>6, <2>1 DEF OkMeansSuccess, Loop
<1> QED
  BY <1>8, <1>9, <1>10, <1>11, <1>12, <1>13, <1>14, <1>15 DEF FciInv

\* The robot takes a Move it accepts: the motion is that of the user who waits for the answer.
LEMMA FciMoves ==
    ASSUME FciInv, OneAtATime, RobotTakes, robot.move = NoId, Head(requests).what = "move",
           robot' = [move |-> Head(requests).id, mode |-> "move", kind |-> Head(requests).kind, finish |-> FALSE,
                     owed |-> {Message(Head(requests).id, "started")}, since |-> Len(states)],
           UNCHANGED outcome
    PROVE  FciInv'
<1>0. /\ MotionShapes /\ OneProcess /\ RobotIsConsistent /\ IdsInOrder /\ PipeIsRight /\ StateIsOwn
      /\ MotionIsOwned /\ AnswersAreOwn /\ OkMeansSuccess
  BY DEF FciInv
<1>1. /\ robot.owed = {} /\ requests # <<>> /\ requests' = Tail(requests)
      /\ UNCHANGED <<lock, seen, wanted, user, moves, calls, up, next, replies, received, states, abandoned>>
      /\ InReplies' = InReplies /\ Now' = Now /\ Pipe = InReplies \cup received /\ states[Len(states)] = Truth
      /\ Len(states) \in 1..Len(states)
      /\ \A m \in Pipe : m.id < Oldest /\ m.id \in Nat \ {0}
      /\ \A k \in Pipe : k.status = "started" =>
           /\ k \in InReplies => k \notin received
           /\ \A i, j \in 1..Len(replies) : replies[i] = k /\ replies[j] = k => i = j
  BY FciTaken
<1>2. /\ Head(requests).id = Oldest /\ Head(requests).kind \in Kinds
      /\ Head(requests) = requests[1] /\ 1 \in 1..Len(requests)
      /\ requests' \in Seq([what: {"move", "stop", "recover"}, id: Nat, kind: {"idle", "motion", "torque"}])
      /\ Oldest' = Oldest + 1 /\ Oldest \in Nat \ {0} /\ Oldest < next
      /\ \A i \in 1..Len(requests') :
           /\ requests'[i].id = Oldest' + i - 1 /\ (requests'[i].what = "move" => requests'[i].kind \in Kinds)
           /\ \E k \in 1..Len(requests) : requests'[i] = requests[k]
  BY <1>1, FciHead
<1> DEFINE m == Message(Head(requests).id, "started")
<1>3. m \in Messages /\ m.id = Oldest /\ m.status = "started"
  BY <1>2 DEF Message, Messages, Statuses
<1> HIDE DEF m
<1>4. /\ DOMAIN robot' = {"move", "mode", "kind", "finish", "owed", "since"} /\ robot'.move = Oldest /\ robot'.mode = "move"
      /\ robot'.kind = Head(requests).kind /\ robot'.finish = FALSE /\ robot'.since = Len(states) /\ robot'.owed = {m}
  BY <1>2 DEF m
<1>5. Pipe' = Pipe \cup {m}
  BY <1>1, <1>4 DEF Pipe
<1>6. \A i \in Ids : outcome[i] # "none" => i < Oldest /\ i # robot.move
  BY <1>0 DEF IdsInOrder
<1>7. Oldest # NoId /\ robot.kind = "idle"
  BY <1>0, <1>2 DEF NoId, RobotIsConsistent
<1>8. MotionShapes'
  BY <1>0, <1>1, <1>2, <1>3, <1>4 DEF MotionShapes, Handle, RobotModes
<1>9. OneProcess' /\ StateIsOwn' /\ OkMeansSuccess'
  BY <1>0, <1>1 DEF OneProcess, StateIsOwn, OkMeansSuccess, Loop
<1>10. RobotIsConsistent'
  <2>1. states[Len(states)].kind = "idle"
    BY <1>1, <1>7 DEF Truth
  <2>2. \A n \in 1..Len(states) : ~(n > Len(states))
    BY <1>1
  <2> QED
    BY <1>1, <1>2, <1>4, <1>7, <2>1, <2>2 DEF RobotIsConsistent
<1>11. IdsInOrder'
  <2>1. \A i \in Ids : outcome'[i] # "none" => i < Oldest' /\ i # robot'.move
    BY <1>2, <1>4, <1>6 DEF Ids
  <2>2. Oldest' >= 1 /\ robot'.move < Oldest'
    BY <1>2, <1>4
  <2> QED
    BY <1>0, <1>1, <1>2, <2>1, <2>2 DEF IdsInOrder
<1>12. PipeIsRight'
  <2>1. \A k \in Pipe' : k.id < Oldest' /\ (k.status # "started" => k.id # robot'.move)
    BY <1>1, <1>2, <1>3, <1>4, <1>5
  <2>2. m \notin Pipe
    BY <1>1, <1>2, <1>3
  <2>3. \A k \in Pipe' : k.status = "started" =>
         /\ k \in robot'.owed => k \notin InReplies' /\ k \notin received'
         /\ k \in InReplies' => k \notin received'
         /\ \A i, j \in 1..Len(replies') : replies'[i] = k /\ replies'[j] = k => i = j
    <3>1. m \notin InReplies /\ m \notin received
      BY <1>1, <2>2
    <3>2. ASSUME NEW i \in 1..Len(replies), replies[i] = m PROVE FALSE
      <4>1. DOMAIN replies = 1..Len(replies)
        BY <1>0 DEF MotionShapes
      <4> QED
        BY <3>1, <3>2, <4>1 DEF InReplies
    <3>3. ASSUME NEW k \in Pipe', k.status = "started"
          PROVE  /\ k \in robot'.owed => k \notin InReplies' /\ k \notin received'
                 /\ k \in InReplies' => k \notin received'
                 /\ \A i, j \in 1..Len(replies') : replies'[i] = k /\ replies'[j] = k => i = j
      <4>1. CASE k = m
        BY <1>1, <3>1, <3>2, <4>1
      <4>2. CASE k # m
        <5>1. k \in Pipe /\ k \notin robot'.owed
          BY <1>4, <1>5, <3>3, <4>2
        <5> QED
          BY <1>1, <3>3, <5>1
      <4> QED
        BY <4>1, <4>2
    <3> QED
      BY <3>3
  <2> QED
    BY <2>1, <2>3 DEF PipeIsRight
<1>13. up /\ Oldest \notin abandoned =>
          lock \in Users /\ user[lock].at = "starting" /\ user[lock].id = Oldest /\ user[lock].kind = Head(requests).kind
  <2> SUFFICES ASSUME up, Oldest \notin abandoned
               PROVE  lock \in Users /\ user[lock].at = "starting" /\ user[lock].id = Oldest /\ user[lock].kind = Head(requests).kind
    OBVIOUS
  <2>1. lock \in Users /\ user[lock].at = "starting" /\ user[lock].id = Oldest
    BY <1>0, <1>2 DEF MotionIsOwned
  <2>2. requests[1].id = user[lock].id => requests[1].kind = user[lock].kind
    BY <1>0, <1>2, <2>1 DEF AnswersAreOwn
  <2> QED
    BY <1>2, <2>1, <2>2
<1>14. MotionIsOwned'
  <2> SUFFICES ASSUME up PROVE MotionIsOwned'
    BY <1>1 DEF MotionIsOwned
  <2>1. \A i \in 1..Len(requests') : requests'[i].what = "move" =>
           \/ requests'[i].id \in abandoned'
           \/ lock \in Users /\ user[lock].at = "starting" /\ user[lock].id = requests'[i].id
    <3>1. \A k \in 1..Len(requests) : requests[k].what = "move" =>
             \/ requests[k].id \in abandoned
             \/ lock \in Users /\ user[lock].at = "starting" /\ user[lock].id = requests[k].id
      BY <1>0 DEF MotionIsOwned
    <3> QED
      BY <1>1, <1>2, <3>1
  <2> QED
    BY <1>1, <1>4, <1>13, <2>1 DEF MotionIsOwned, MayMove, InForce, Gone
<1>15. AnswersAreOwn'
  <2> SUFFICES ASSUME up, NEW u \in Users, user[u].at # "out"
               PROVE  /\ user[u].id \in Ids /\ user[u].id < next
                      /\ user[u].at # "starting" => user[u].id < Oldest' /\ Started(user[u].id) \notin Pipe'
                      /\ user[u].at = "starting" => Now.kind = "idle"
                      /\ user[u].at \in {"starting", "polling", "entering"} => outcome[user[u].id] # "success" /\ user[u].id \notin abandoned
                      /\ \A i \in 1..Len(requests') : requests'[i].id = user[u].id => requests'[i].what = "move" /\ requests'[i].kind = user[u].kind
                      /\ \A k \in Pipe' : k.id = user[u].id /\ k.status = "success" => outcome[user[u].id] = "success"
                      /\ user[u].at = "stopping" =>
                           /\ user[u].stop < next
                           /\ \A i \in 1..Len(requests') : requests'[i].id = user[u].stop => requests'[i].what = "stop"
                           /\ Gone'
    BY <1>1 DEF AnswersAreOwn
  <2>1. user[u].at # "starting" => Oldest \in abandoned
    BY <1>0, <1>13, FciAlone
  <2>2. /\ user[u].id \in Ids /\ user[u].id < next
        /\ user[u].at # "starting" => user[u].id < Oldest /\ Started(user[u].id) \notin Pipe
        /\ user[u].at = "starting" => Now.kind = "idle"
        /\ user[u].at \in {"starting", "polling", "entering"} => outcome[user[u].id] # "success" /\ user[u].id \notin abandoned
        /\ \A i \in 1..Len(requests) : requests[i].id = user[u].id => requests[i].what = "move" /\ requests[i].kind = user[u].kind
        /\ \A k \in Pipe : k.id = user[u].id /\ k.status = "success" => outcome[user[u].id] = "success"
        /\ user[u].at = "stopping" =>
             /\ user[u].stop < next
             /\ \A i \in 1..Len(requests) : requests[i].id = user[u].stop => requests[i].what = "stop"
    BY <1>0 DEF AnswersAreOwn
  <2>3. ASSUME NEW i \in 1..Len(requests')
        PROVE  /\ requests'[i].id = user[u].id => requests'[i].what = "move" /\ requests'[i].kind = user[u].kind
               /\ user[u].at = "stopping" /\ requests'[i].id = user[u].stop => requests'[i].what = "stop"
    <3>1. PICK k \in 1..Len(requests) : requests'[i] = requests[k]
      BY <1>2, <2>3
    <3> QED
      BY <2>2, <3>1
  <2>4. user[u].at # "starting" => user[u].id < Oldest' /\ user[u].id # Oldest
    <3>1. user[u].id \in Nat
      BY <1>0 DEF MotionShapes
    <3> QED
      BY <1>2, <2>2, <3>1
  <2>5. user[u].id # Oldest => Started(user[u].id) # m
    BY <1>3 DEF Started
  <2>6. user[u].at # "starting" => Gone'
    BY <1>1, <1>4, <2>1 DEF Gone
  <2> QED
    BY <1>3, <1>5, <2>2, <2>3, <2>4, <2>5, <2>6
<1> QED
  BY <1>8, <1>9, <1>10, <1>11, <1>12, <1>14, <1>15 DEF FciInv

\* The robot takes a stop while a motion runs.
LEMMA FciStops ==
    ASSUME FciInv, OneAtATime, RobotTakes, robot.move # NoId, Head(requests).what = "stop",
           robot' = Ended("idle", {Message(Head(requests).id, "success"), Message(robot.move, "preempted")}),
           outcome' = [outcome EXCEPT ![robot.move] = "preempted"]
    PROVE  FciInv'
<1>0. /\ MotionShapes /\ OneProcess /\ RobotIsConsistent /\ IdsInOrder /\ PipeIsRight /\ StateIsOwn
      /\ MotionIsOwned /\ AnswersAreOwn /\ OkMeansSuccess
  BY DEF FciInv
<1>1. /\ robot.owed = {} /\ requests # <<>> /\ requests' = Tail(requests)
      /\ UNCHANGED <<lock, seen, wanted, user, moves, calls, up, next, replies, received, states, abandoned>>
      /\ InReplies' = InReplies /\ Now' = Now /\ Pipe = InReplies \cup received
      /\ DOMAIN robot = {"move", "mode", "kind", "finish", "owed", "since"} /\ robot.move \in Nat
      /\ \A m \in Pipe : m.id < Oldest /\ m.id \in Nat \ {0}
      /\ \A k \in Pipe : k.status = "started" =>
           /\ k \in InReplies => k \notin received
           /\ \A i, j \in 1..Len(replies) : replies[i] = k /\ replies[j] = k => i = j
      /\ robot.move < Oldest
  BY FciTaken
<1>2. /\ Head(requests).id = Oldest /\ Head(requests) = requests[1] /\ 1 \in 1..Len(requests)
      /\ requests' \in Seq([what: {"move", "stop", "recover"}, id: Nat, kind: {"idle", "motion", "torque"}])
      /\ Oldest' = Oldest + 1 /\ Oldest \in Nat \ {0} /\ Oldest < next
      /\ \A i \in 1..Len(requests') :
           /\ requests'[i].id = Oldest' + i - 1 /\ (requests'[i].what = "move" => requests'[i].kind \in Kinds)
           /\ \E k \in 1..Len(requests) : requests'[i] = requests[k]
  BY <1>1, FciHead
<1> DEFINE m == Message(Head(requests).id, "success")
           e == Message(robot.move, "preempted")
<1>3. /\ m \in Messages /\ m.id = Oldest /\ m.status = "success"
      /\ e \in Messages /\ e.id = robot.move /\ e.status = "preempted"
  BY <1>1, <1>2 DEF Message, Messages, Statuses, Ends, NoId
<1> HIDE DEF m, e
<1>4. /\ DOMAIN robot' = DOMAIN robot /\ robot'.move = NoId /\ robot'.mode = "idle" /\ robot'.kind = "idle"
      /\ robot'.finish = FALSE /\ robot'.owed = {m, e}
  BY <1>1 DEF m, e, Ended
<1>5. Pipe' = Pipe \cup {m, e}
  BY <1>1, <1>4 DEF Pipe
<1>6. DOMAIN outcome' = Ids /\ (\A i \in Ids : outcome'[i] = IF i = robot.move THEN "preempted" ELSE outcome[i])
  BY <1>0 DEF MotionShapes
<1>7. \A i \in Ids : outcome[i] # "none" => i < Oldest /\ i # robot.move
  BY <1>0 DEF IdsInOrder
<1>7a. /\ UNCHANGED <<lock, seen, wanted, user, moves, calls, up, next, replies, received, states, abandoned>> /\ Now' = Now
       /\ DOMAIN robot' = {"move", "mode", "kind", "finish", "owed", "since"}
       /\ robot'.owed \subseteq Messages /\ robot'.move = 0 /\ robot'.mode \in RobotModes
  BY <1>1, <1>3, <1>4 DEF RobotModes, NoId
<1>8. MotionShapes'
  <2>1. MotionShapes
    BY <1>0
  <2>2. requests' \in Seq([what: {"move", "stop", "recover"}, id: Nat, kind: {"idle", "motion", "torque"}])
    BY <1>2
  <2>3. DOMAIN outcome' = Ids
    BY <1>6
  <2>4. robot'.owed \subseteq Messages /\ robot'.move \in Nat /\ robot'.mode \in RobotModes
    BY <1>7a
  <2>5. DOMAIN robot' = {"move", "mode", "kind", "finish", "owed", "since"}
    BY <1>7a
  <2>6. UNCHANGED <<lock, seen, wanted, user, moves, calls, up, next, replies, received, states, abandoned>>
    BY <1>1
  <2> QED
    BY <2>1, <2>2, <2>3, <2>4, <2>5, <2>6 DEF MotionShapes, Handle
<1>9. OneProcess' /\ StateIsOwn'
  BY <1>0, <1>1 DEF OneProcess, StateIsOwn, Loop
<1>10. RobotIsConsistent'
  BY <1>4 DEF RobotIsConsistent
<1>11. IdsInOrder'
  <2>1. \A i \in Ids : outcome'[i] # "none" => i < Oldest' /\ i # robot'.move
    BY <1>1, <1>2, <1>4, <1>6, <1>7 DEF Ids, NoId
  <2>2. Oldest' >= 1 /\ robot'.move < Oldest'
    BY <1>2, <1>4 DEF NoId
  <2> QED
    BY <1>0, <1>1, <1>2, <2>1, <2>2 DEF IdsInOrder
<1>12. PipeIsRight'
  <2>1. \A k \in Pipe' : k.id < Oldest' /\ (k.status # "started" => k.id # robot'.move)
    BY <1>1, <1>2, <1>3, <1>4, <1>5 DEF NoId
  <2>2. \A k \in Pipe' : k.status = "started" => k \in Pipe /\ k \notin robot'.owed
    BY <1>3, <1>4, <1>5
  <2>3. \A k \in Pipe : k.status = "started" =>
           /\ k \in InReplies' => k \notin received'
           /\ \A i, j \in 1..Len(replies') : replies'[i] = k /\ replies'[j] = k => i = j
    BY <1>1
  <2> QED
    BY <2>1, <2>2, <2>3 DEF PipeIsRight
<1>13. MotionIsOwned'
  <2> SUFFICES ASSUME up PROVE MotionIsOwned'
    BY <1>1 DEF MotionIsOwned
  <2>1. \A i \in 1..Len(requests') : requests'[i].what = "move" =>
           \/ requests'[i].id \in abandoned'
           \/ lock \in Users /\ user[lock].at = "starting" /\ user[lock].id = requests'[i].id
    <3>1. \A k \in 1..Len(requests) : requests[k].what = "move" =>
             \/ requests[k].id \in abandoned
             \/ lock \in Users /\ user[lock].at = "starting" /\ user[lock].id = requests[k].id
      BY <1>0 DEF MotionIsOwned
    <3> QED
      BY <1>1, <1>2, <3>1
  <2> QED
    BY <1>0, <1>1, <1>4, <2>1 DEF MotionIsOwned, Gone
<1>14. AnswersAreOwn'
  <2> SUFFICES ASSUME up, NEW u \in Users, user[u].at # "out"
               PROVE  /\ user[u].id \in Ids /\ user[u].id < next
                      /\ user[u].at # "starting" => user[u].id < Oldest' /\ Started(user[u].id) \notin Pipe'
                      /\ user[u].at = "starting" => Now.kind = "idle"
                      /\ user[u].at \in {"starting", "polling", "entering"} => outcome'[user[u].id] # "success" /\ user[u].id \notin abandoned
                      /\ \A i \in 1..Len(requests') : requests'[i].id = user[u].id => requests'[i].what = "move" /\ requests'[i].kind = user[u].kind
                      /\ \A k \in Pipe' : k.id = user[u].id /\ k.status = "success" => outcome'[user[u].id] = "success"
                      /\ user[u].at = "stopping" =>
                           /\ user[u].stop < next
                           /\ \A i \in 1..Len(requests') : requests'[i].id = user[u].stop => requests'[i].what = "stop"
    BY <1>7a DEF AnswersAreOwn, NoId, Gone
  <2>1. /\ user[u].id \in Ids /\ user[u].id < next
        /\ user[u].at # "starting" => user[u].id < Oldest /\ Started(user[u].id) \notin Pipe
        /\ user[u].at = "starting" => Now.kind = "idle"
        /\ user[u].at \in {"starting", "polling", "entering"} => outcome[user[u].id] # "success" /\ user[u].id \notin abandoned
        /\ \A i \in 1..Len(requests) : requests[i].id = user[u].id => requests[i].what = "move" /\ requests[i].kind = user[u].kind
        /\ \A k \in Pipe : k.id = user[u].id /\ k.status = "success" => outcome[user[u].id] = "success"
        /\ user[u].at = "stopping" =>
             /\ user[u].stop < next
             /\ \A i \in 1..Len(requests) : requests[i].id = user[u].stop => requests[i].what = "stop"
    BY <1>0 DEF AnswersAreOwn
  <2>2. Started(user[u].id) # m /\ Started(user[u].id) # e /\ (user[u].id \in Nat)
    BY <1>0, <1>3 DEF Started, MotionShapes
  <2>3. user[u].at # "starting" => user[u].id < Oldest'
    BY <1>2, <2>1, <2>2
  <2>5. outcome'[user[u].id] = IF user[u].id = robot.move THEN "preempted" ELSE outcome[user[u].id]
    BY <1>6, <2>1
  <2>6. \A k \in Pipe' : k.id = user[u].id /\ k.status = "success" => outcome'[user[u].id] = "success"
    <3>1. \A k \in Pipe : k.id = user[u].id /\ k.status = "success" => user[u].id # robot.move
      BY <1>0 DEF PipeIsRight
    <3>2. m.id # user[u].id
      BY <1>2, <1>3, <2>1
    <3> QED
      BY <1>3, <1>5, <2>1, <2>5, <3>1, <3>2
  <2>8. /\ \A i \in 1..Len(requests') : requests'[i].id = user[u].id => requests'[i].what = "move" /\ requests'[i].kind = user[u].kind
        /\ user[u].at = "stopping" => \A i \in 1..Len(requests') : requests'[i].id = user[u].stop => requests'[i].what = "stop"
    <3>1. ASSUME NEW i \in 1..Len(requests')
          PROVE  /\ requests'[i].id = user[u].id => requests'[i].what = "move" /\ requests'[i].kind = user[u].kind
                 /\ user[u].at = "stopping" /\ requests'[i].id = user[u].stop => requests'[i].what = "stop"
      <4>1. PICK k \in 1..Len(requests) : requests'[i] = requests[k]
        BY <1>2, <3>1
      <4> QED
        BY <2>1, <4>1
    <3> QED
      BY <3>1
  <2> QED
    BY <1>5, <2>1, <2>2, <2>3, <2>5, <2>6, <2>8
<1>15. OkMeansSuccess'
  <2>1. \A u \in Users : Loop(u) /\ user[u].result = "ok" => user[u].id \in Ids /\ user[u].id # robot.move /\ outcome[user[u].id] = "success"
    <3>1. \A u \in Users : Loop(u) /\ user[u].result = "ok" => user[u].id \in Ids /\ outcome[user[u].id] = "success"
      BY <1>0 DEF MotionShapes, OkMeansSuccess
    <3> QED
      BY <1>7, <3>1
  <2> QED
    BY <1>1, <1>6, <2>1 DEF OkMeansSuccess, Loop
<1> QED
  BY <1>8, <1>9, <1>10, <1>11, <1>12, <1>13, <1>14, <1>15 DEF FciInv

LEMMA FciTakes ==
    ASSUME FciInv, OneAtATime, RobotTakes
    PROVE  FciInv'
<1> DEFINE r == Head(requests)
<1>1. /\ requests # <<>> /\ requests' = Tail(requests) /\ next' = next
      /\ DOMAIN robot = {"move", "mode", "kind", "finish", "owed", "since"} /\ robot.mode \in RobotModes
      /\ "idle" \in RobotModes
  BY FciTaken DEF FciInv, MotionShapes, RobotModes
<1>2. r.what \in {"move", "stop", "recover"}
  BY <1>1, FciHead
<1>3. \/ r.what = "move" /\ TakesMove(r)
      \/ r.what = "stop" /\ TakesStop(r)
      \/ r.what = "recover" /\ TakesRecovery(r)
  BY <1>2 DEF RobotTakes
<1> HIDE DEF r
<1>4. \A x : [robot EXCEPT !.owed = x] = [robot EXCEPT !.owed = x, !.mode = robot.mode]
  BY <1>1
<1>5. CASE r.what = "move" /\ TakesMove(r)
  <2>1. CASE robot.move = NoId /\ robot' = [move |-> r.id, mode |-> "move", kind |-> r.kind, finish |-> FALSE,
                    owed |-> {Message(r.id, "started")}, since |-> Len(states)] /\ UNCHANGED outcome
    BY <1>5, <2>1, FciMoves DEF r
  <2>2. CASE robot' = [robot EXCEPT !.owed = {Message(r.id, "rejected")}] /\ outcome' = [outcome EXCEPT ![r.id] = "rejected"]
    <3>1. robot' = [robot EXCEPT !.owed = {Message(r.id, "rejected")}, !.mode = robot.mode]
      BY <1>4, <2>2
    <3> QED
      BY <1>1, <1>5, <2>2, <3>1, FciAnswers DEF r
  <2> QED
    BY <1>5, <2>1, <2>2 DEF TakesMove
<1>6. CASE r.what = "stop" /\ TakesStop(r)
  <2>1. CASE robot.move # NoId /\ robot' = Ended("idle", {Message(r.id, "success"), Message(robot.move, "preempted")})
             /\ outcome' = [outcome EXCEPT ![robot.move] = "preempted"]
    BY <1>6, <2>1, FciStops DEF r
  <2>2. CASE robot.move = NoId /\ robot' = [robot EXCEPT !.owed = {Message(r.id, IF robot.mode = "idle" THEN "success" ELSE "rejected")}]
             /\ UNCHANGED outcome
    <3> DEFINE status == IF robot.mode = "idle" THEN "success" ELSE "rejected"
    <3>1. robot' = [robot EXCEPT !.owed = {Message(r.id, status)}, !.mode = robot.mode]
      BY <1>4, <2>2
    <3>2. status \in {"success", "rejected"}
      OBVIOUS
    <3> HIDE DEF status
    <3> QED
      BY <1>1, <1>6, <2>2, <3>1, <3>2, FciAnswers DEF r
  <2> QED
    BY <1>6, <2>1, <2>2 DEF TakesStop
<1>7. CASE r.what = "recover" /\ TakesRecovery(r)
  <2>1. CASE robot.move # NoId
    <3>1. robot' = [robot EXCEPT !.owed = {Message(r.id, "rejected")}, !.mode = robot.mode] /\ UNCHANGED outcome
      BY <1>4, <1>7, <2>1 DEF TakesRecovery
    <3> QED
      BY <1>1, <1>7, <3>1, FciAnswers DEF r
  <2>2. CASE robot.move = NoId
    <3>1. robot' = [robot EXCEPT !.owed = {Message(r.id, "success")}, !.mode = "idle"] /\ UNCHANGED outcome
      BY <1>7, <2>2 DEF TakesRecovery
    <3> QED
      BY <1>1, <1>7, <2>2, <3>1, FciAnswers DEF r
  <2> QED
    BY <2>1, <2>2
<1> QED
  BY <1>3, <1>5, <1>6, <1>7

LEMMA FciStays == FciInv /\ UNCHANGED vars => FciInv'
<1> SUFFICES ASSUME FciInv, UNCHANGED vars PROVE FciInv'
  OBVIOUS
<1>1. UNCHANGED <<lock, seen, wanted, user, moves, calls, up, next, requests, replies, received, robot, states, outcome, abandoned>>
  BY DEF vars, client, bounds, tcp, world
<1> QED
  BY <1>1, FciReaders

LEMMA FciSteps == FciInv /\ OneAtATime /\ [Next]_vars => FciInv' /\ seen' >= seen
<1> SUFFICES ASSUME FciInv, OneAtATime, [Next]_vars PROVE FciInv' /\ seen' >= seen
  OBVIOUS
<1>0. seen \in Nat
  BY DEF FciInv, MotionShapes
<1>1. \A i : Claim(i) => Unread /\ received' \subseteq Inbox
  BY DEF Claim
<1>2. CASE UNCHANGED vars
  <2>1. seen' = seen
    BY <1>2 DEF vars, client
  <2> QED
    BY <1>0, <1>2, <2>1, FciStays
<1>3. ASSUME NEW u \in Users, Progress(u) \/ Choice(u) \/ Cancel(u) \/ PollReply(u) \/ Garbled(u) \/ StateTimesOut(u)
      PROVE  FciInv' /\ seen' >= seen
  <2>1. seen' = seen
    BY <1>3 DEF Progress, Choice, StartReplied, StartDone, PollState, AbortReplied, Finishing, FinishReplied, StopReplied,
       Drained, Broken, Start, StartRefused, Cycle, CallbackFails, Finish, Cancel, PollReply, Garbled, StateTimesOut, client
  <2>2. CASE StateTimesOut(u)
    <3>1. UNCHANGED <<lock, seen, wanted, user, moves, calls, next, requests, robot, states, outcome, abandoned, replies, received>> /\ (up' => up)
      BY <2>2 DEF StateTimesOut, client, bounds, tcp, world
    <3> QED
      BY <1>0, <2>1, <3>1, FciReaders
  <2>3. CASE Cancel(u)
    BY <1>0, <2>1, <2>3, FciCancel, FciEnds
  <2>4. CASE Progress(u) \/ PollReply(u)
    BY <1>0, <2>1, <2>4, FciStarts, FciRuns, FciEnds DEF Progress
  <2>5. CASE Choice(u)
    BY <1>0, <2>1, <2>5, FciStart, FciRefused, FciRuns DEF Choice
  <2> QED
    BY <1>0, <1>3, <2>1, <2>2, <2>3, <2>4, <2>5, FciGarbled
<1>4. ASSUME NEW c \in Callers, Call(c) \/ CallReplied(c) \/ CallGarbled(c) PROVE FciInv' /\ seen' >= seen
  <2>1. seen' = seen
    BY <1>4 DEF Call, CallReplied, CallGarbled
  <2>2. CASE Call(c)
    BY <1>0, <2>1, <2>2, FciCalls
  <2>3. CASE CallReplied(c) \/ CallGarbled(c)
    <3>1. UNCHANGED <<lock, seen, wanted, user, moves, calls, next, requests, robot, states, outcome, abandoned>> /\ (up' => up)
          /\ (UNCHANGED <<replies, received>> \/ (Unread /\ received' \subseteq Inbox))
      BY <1>1, <2>3 DEF CallReplied, Unusable, CallGarbled, bounds, world
    <3> QED
      BY <1>0, <2>1, <3>1, FciReaders
  <2> QED
    BY <1>4, <2>2, <2>3
<1>5. CASE Reads
  <2>1. PICK i : ReadsOn(i)
    BY <1>5 DEF Reads
  <2>2. UNCHANGED <<lock, seen, wanted, user, moves, calls, next, requests, robot, states, outcome, abandoned>> /\ (up' => up)
        /\ Unread /\ received' \subseteq Inbox
    BY <2>1 DEF ReadsOn, client, bounds, world
  <2> QED
    BY <1>0, <2>2, FciReaders
<1>6. CASE ReadOnce \/ \E u \in Users : Received(u)
  BY <1>6, FciAccepts
<1>7. CASE Robot
  <2>1. seen' = seen
    BY <1>7 DEF Robot, RobotTakes, RobotReplies, RobotFinishes, RobotReflexes, RobotShows, client
  <2> QED
    BY <1>0, <1>7, <2>1, FciTakes, FciReplies, FciMotionEnds, FciShows DEF Robot
<1>8. CASE ConnectionLost
  <2>1. UNCHANGED <<lock, seen, wanted, user, moves, calls, next, requests, robot, states, outcome, abandoned, replies, received>> /\ (up' => up)
    BY <1>8 DEF ConnectionLost, client, bounds, tcp, world
  <2> QED
    BY <1>0, <2>1, FciReaders
<1> QED
  BY <1>2, <1>3, <1>4, <1>5, <1>6, <1>7, <1>8 DEF Next

LEMMA FciHolds == FciInv => MotionIsSettled
<1> SUFFICES ASSUME FciInv PROVE OkMeansSuccess /\ NoOrphanMotion
  BY DEF MotionIsSettled
<1>1. OkMeansSuccess
  BY DEF FciInv
<1>2. NoOrphanMotion
  BY UsersAssumption DEF FciInv, MotionIsOwned, NoOrphanMotion, Gone
<1> QED
  BY <1>1, <1>2

-----------------------------------------------------------------------------
(* A configuration and the start of a loop. *)

\* The fields of a loop's options.
OptionFields ==
    {"stiffness", "damping", "springs", "dampers", "ikDamping", "nullspace", "iterations", "ikTolerance",
     "rotationWeight", "leash", "leashRotation", "leashJoint", "torque", "cutoff", "posture",
     "feedforward", "gain", "gainCutoff", "cap", "barrier", "margin", "tolerance", "quiet", "backend",
     "priority", "cpu", "kind", "limits", "rotationLimits", "deviation", "angularDeviation"}

\* What a loop's options are by default, but for its gains' values.
LEMMA DefaultsAre ==
    ASSUME NEW kind \in {"cartesian", "joint"}
    PROVE  LET o == DefaultOptions(kind)
           IN  /\ DOMAIN o = OptionFields
               /\ o.kind = kind /\ o.backend = "impedance" /\ o.posture = NotSet
               /\ o.torque = 11 /\ o.tolerance = 1 /\ o.quiet = 250
               /\ o.iterations = 3 /\ o.ikTolerance = 1 /\ o.rotationWeight = 10
               /\ o.leash = 25 /\ o.leashRotation = 150 /\ o.leashJoint = 100
               /\ o.rotationLimits = 500 /\ o.angularDeviation = 500
               /\ kind = "joint" => o.stiffness = 0 /\ o.damping = 0 /\ o.springs = 50 /\ o.dampers = 15
<1> DEFINE g == PresetGains(kind)
           i1 == g ++ DefaultIk
           i2 == i1 ++ DefaultLeash
           i3 == [torque |-> 11, cutoff |-> 100, posture |-> NotSet, feedforward |-> FALSE, gain |-> OneWhole,
                  gainCutoff |-> 1000, cap |-> 70, barrier |-> 85, margin |-> 50]
           im == DefaultImpedance(kind)
           c1 == DefaultSettle ++ [backend |-> "impedance", priority |-> NotSet, cpu |-> NotSet]
           ks == IF kind = "cartesian" THEN CartesianDefaults ELSE JointDefaults
           o == DefaultOptions(kind)
<1>1. /\ DOMAIN g = {"stiffness", "damping", "springs", "dampers"}
      /\ kind = "joint" => g.stiffness = 0 /\ g.damping = 0 /\ g.springs = 50 /\ g.dampers = 15
  <2>1. CASE kind = "joint"
    BY <2>1 DEF PresetGains
  <2>2. CASE kind = "cartesian"
    <3> DEFINE s == ScaledCartesian(CartesianPreset)
               r == [springs |-> 4, dampers |-> 2]
    <3>1. DOMAIN s = {"stiffness", "damping"} /\ DOMAIN r = {"springs", "dampers"}
      BY DEF ScaledCartesian
    <3>2. g = s ++ r
      BY <2>2 DEF PresetGains
    <3> HIDE DEF s, r
    <3>3. DOMAIN g = {"stiffness", "damping", "springs", "dampers"}
      BY <3>1, <3>2 DEF ++
    <3> QED
      BY <3>3, <2>2
  <2> QED
    BY <2>1, <2>2
<1>2. /\ DOMAIN DefaultIk = {"ikDamping", "nullspace", "iterations", "ikTolerance", "rotationWeight"}
      /\ DefaultIk.iterations = 3 /\ DefaultIk.ikTolerance = 1 /\ DefaultIk.rotationWeight = 10
  BY DEF DefaultIk
<1>3. /\ DOMAIN DefaultLeash = {"leash", "leashRotation", "leashJoint"}
      /\ DefaultLeash.leash = 25 /\ DefaultLeash.leashRotation = 150 /\ DefaultLeash.leashJoint = 100
  BY DEF DefaultLeash
<1>4. /\ DOMAIN i3 = {"torque", "cutoff", "posture", "feedforward", "gain", "gainCutoff", "cap", "barrier", "margin"}
      /\ i3.torque = 11 /\ i3.posture = NotSet
  OBVIOUS
<1>5. /\ DOMAIN ks = {"kind", "limits", "rotationLimits", "deviation", "angularDeviation"}
      /\ ks.kind = kind /\ ks.rotationLimits = 500 /\ ks.angularDeviation = 500
  BY DEF CartesianDefaults, JointDefaults
<1>6. /\ DOMAIN c1 = {"tolerance", "quiet", "backend", "priority", "cpu"}
      /\ c1.tolerance = 1 /\ c1.quiet = 250 /\ c1.backend = "impedance"
  <2> DEFINE d == [backend |-> "impedance", priority |-> NotSet, cpu |-> NotSet]
  <2>1. DOMAIN DefaultSettle = {"tolerance", "quiet"} /\ DefaultSettle.tolerance = 1 /\ DefaultSettle.quiet = 250
    BY DEF DefaultSettle
  <2>2. DOMAIN d = {"backend", "priority", "cpu"} /\ d.backend = "impedance"
    OBVIOUS
  <2> HIDE DEF d
  <2> QED
    BY <2>1, <2>2 DEF ++
<1> DEFINE cs == im ++ c1
<1>7. im = i2 ++ i3 /\ o = cs ++ ks
  BY DEF DefaultImpedance, DefaultOptions, DefaultCommon
<1> HIDE DEF g, i3, c1, ks, im, o, cs
<1>8. /\ DOMAIN i1 = DOMAIN g \cup DOMAIN DefaultIk
      /\ \A x \in DOMAIN g : i1[x] = g[x]
      /\ i1.iterations = 3 /\ i1.ikTolerance = 1 /\ i1.rotationWeight = 10
  BY <1>1, <1>2 DEF ++
<1> HIDE DEF i1
<1>9. /\ DOMAIN i2 = DOMAIN i1 \cup DOMAIN DefaultLeash
      /\ \A x \in DOMAIN i1 : i2[x] = i1[x]
      /\ i2.leash = 25 /\ i2.leashRotation = 150 /\ i2.leashJoint = 100
  BY <1>1, <1>2, <1>3, <1>8 DEF ++
<1> HIDE DEF i2
<1>10. /\ DOMAIN im = DOMAIN i2 \cup DOMAIN i3
       /\ \A x \in DOMAIN i2 : im[x] = i2[x]
       /\ im.torque = 11 /\ im.posture = NotSet
  BY <1>1, <1>2, <1>3, <1>4, <1>7, <1>8, <1>9 DEF ++
<1>11. /\ DOMAIN cs = DOMAIN im \cup DOMAIN c1
       /\ \A x \in DOMAIN im : cs[x] = im[x]
       /\ cs.tolerance = 1 /\ cs.quiet = 250 /\ cs.backend = "impedance"
  BY <1>1, <1>2, <1>3, <1>4, <1>6, <1>8, <1>9, <1>10 DEF ++, cs
<1>12. /\ DOMAIN o = DOMAIN cs \cup DOMAIN ks
       /\ \A x \in DOMAIN cs : o[x] = cs[x]
       /\ o.kind = kind /\ o.rotationLimits = 500 /\ o.angularDeviation = 500
  BY <1>1, <1>2, <1>3, <1>4, <1>5, <1>6, <1>7, <1>8, <1>9, <1>10, <1>11 DEF ++
<1>15. DOMAIN o = OptionFields
  BY <1>1, <1>2, <1>3, <1>4, <1>5, <1>6, <1>8, <1>9, <1>10, <1>11, <1>12 DEF OptionFields
<1>16. o.kind = kind /\ o.backend = "impedance" /\ o.tolerance = 1 /\ o.quiet = 250 /\ o.rotationLimits = 500 /\ o.angularDeviation = 500
  BY <1>6, <1>11, <1>12
<1>17. \A x \in DOMAIN g : o[x] = g[x]
  BY <1>8, <1>9, <1>10, <1>11, <1>12
<1>18. o.iterations = 3 /\ o.ikTolerance = 1 /\ o.rotationWeight = 10
  BY <1>2, <1>8, <1>9, <1>10, <1>11, <1>12
<1>19. o.leash = 25 /\ o.leashRotation = 150 /\ o.leashJoint = 100
  BY <1>3, <1>9, <1>10, <1>11, <1>12
<1>20. o.posture = NotSet /\ o.torque = 11
  BY <1>4, <1>10, <1>11, <1>12
<1>21. kind = "joint" => o.stiffness = 0 /\ o.damping = 0 /\ o.springs = 50 /\ o.dampers = 15
  BY <1>1, <1>17
<1> QED
  BY <1>15, <1>16, <1>18, <1>19, <1>20, <1>21 DEF o

LEMMA EnvelopesAre ==
    ASSUME NEW o, NEW c, DOMAIN o = OptionFields
    PROVE  LET e == Envelopes(o, c)
           IN  /\ DOMAIN e = OptionFields
               /\ \A f \in OptionFields \ {"springs", "dampers", "cap", "barrier", "margin", "cutoff",
                        "feedforward", "gain", "gainCutoff", "ikDamping", "nullspace"} : e[f] = o[f]
               /\ e.springs = IF c.springs = NotSet THEN o.springs ELSE c.springs
               /\ e.dampers = IF c.dampers = NotSet THEN o.dampers ELSE c.dampers
               /\ e.cap = c.cap /\ e.barrier = c.barrier /\ e.margin = c.margin /\ e.cutoff = c.cutoff
               /\ e.feedforward = c.feedforward /\ e.gain = c.gain /\ e.gainCutoff = c.gainCutoff
               /\ e.ikDamping = c.ikDamping /\ e.nullspace = c.nullspace
<1> {"springs", "dampers", "cap", "barrier", "margin", "cutoff",
     "feedforward", "gain", "gainCutoff", "ikDamping", "nullspace"} \subseteq DOMAIN o
  BY DEF OptionFields
<1> QED
  BY DEF Envelopes

\* The options of the node's Cartesian sessions, and what its tuning starts from.
LEMMA CartesianOptionsAre ==
    ASSUME NEW c
    PROVE  LET o == CartesianOptions(c)
               e == CartesianImpedance(c)
           IN  /\ DOMAIN o = OptionFields /\ DOMAIN e = OptionFields
               /\ o.kind = "cartesian" /\ o.backend = "impedance" /\ o.posture = NotSet
               /\ o.stiffness = e.stiffness /\ o.springs = e.springs /\ o.dampers = e.dampers /\ o.ikDamping = e.ikDamping
               /\ o.nullspace = e.nullspace /\ o.feedforward = e.feedforward /\ o.gain = e.gain /\ o.gainCutoff = e.gainCutoff
               /\ o.damping = DampingOf(o.stiffness)
               /\ o.limits = c.budget /\ o.rotationLimits = c.rotationBudget
               /\ o.cap = c.cap /\ o.barrier = c.barrier /\ o.margin = c.margin
               /\ o.priority = c.priority /\ o.cpu = c.cpu
<1> DEFINE d == DefaultOptions("cartesian")
           s == Scaled(d, c)
           l == [s EXCEPT !.leash = c.leash, !.leashRotation = c.leashRotation]
           e == CartesianImpedance(c)
           o == CartesianOptions(c)
<1>1. DOMAIN d = OptionFields /\ d.kind = "cartesian" /\ d.backend = "impedance" /\ d.posture = NotSet
  BY DefaultsAre
<1>2. e = Envelopes(l, c)
  BY DEF CartesianImpedance
<1>3. o = [e EXCEPT !.limits = c.budget, !.rotationLimits = c.rotationBudget, !.deviation = c.deviation,
                    !.angularDeviation = c.angularDeviation, !.priority = c.priority, !.cpu = c.cpu]
  BY DEF CartesianOptions
<1>4. s = ScaledCartesian(c.stiffness) ++ d
  BY DEF Scaled
<1> HIDE DEF d, s, e, o
<1> DEFINE q == ScaledCartesian(c.stiffness)
<1>5. DOMAIN q = {"stiffness", "damping"} /\ q.stiffness = c.stiffness /\ q.damping = DampingOf(c.stiffness)
  BY DEF ScaledCartesian
<1> HIDE DEF q
<1>6. /\ DOMAIN s = OptionFields
      /\ s.kind = "cartesian" /\ s.backend = "impedance" /\ s.posture = NotSet
      /\ s.damping = DampingOf(s.stiffness)
  <2>1. s = q ++ d
    BY <1>4 DEF q
  <2>2. /\ DOMAIN s = DOMAIN q \cup DOMAIN d
        /\ s.stiffness = q.stiffness /\ s.damping = q.damping
        /\ s.kind = d.kind /\ s.backend = d.backend /\ s.posture = d.posture
    BY <2>1, <1>5, <1>1 DEF ++, OptionFields
  <2> QED
    BY <2>2, <1>1, <1>5 DEF OptionFields
<1>7. /\ DOMAIN l = OptionFields
      /\ l.kind = "cartesian" /\ l.backend = "impedance" /\ l.posture = NotSet
      /\ l.damping = DampingOf(l.stiffness)
  BY <1>6 DEF OptionFields
<1> HIDE DEF l
<1>8. /\ DOMAIN e = OptionFields
      /\ e.kind = "cartesian" /\ e.backend = "impedance" /\ e.posture = NotSet
      /\ e.damping = DampingOf(e.stiffness)
      /\ e.cap = c.cap /\ e.barrier = c.barrier /\ e.margin = c.margin
  BY <1>2, <1>7, EnvelopesAre DEF OptionFields
<1>9. /\ DOMAIN o = OptionFields
      /\ \A f \in OptionFields \ {"limits", "rotationLimits", "deviation", "angularDeviation", "priority", "cpu"} :
            o[f] = e[f]
      /\ o.limits = c.budget /\ o.rotationLimits = c.rotationBudget
      /\ o.priority = c.priority /\ o.cpu = c.cpu
  BY <1>3, <1>8 DEF OptionFields
<1> QED
  BY <1>8, <1>9 DEF OptionFields, o, e

\* The options of its joint sessions and homes.
LEMMA JointOptionsAre ==
    ASSUME NEW c, NEW limits, NEW travel
    PROVE  LET o == JointOptions(c, limits, travel)
           IN  /\ DOMAIN o = OptionFields
               /\ o.kind = "joint" /\ o.backend = "impedance" /\ o.posture = NotSet
               /\ o.torque = 11 /\ o.tolerance = 1 /\ o.quiet = 250
               /\ o.iterations = 3 /\ o.ikTolerance = 1 /\ o.rotationWeight = 10
               /\ o.leash = 25 /\ o.leashRotation = 150 /\ o.leashJoint = 100
               /\ o.stiffness = 0 /\ o.damping = 0
               /\ o.springs = IF c.springs = NotSet THEN 50 ELSE c.springs
               /\ o.dampers = IF c.dampers = NotSet THEN 15 ELSE c.dampers
               /\ o.cap = c.cap /\ o.barrier = c.barrier /\ o.margin = c.margin /\ o.cutoff = c.cutoff
               /\ o.gain = c.gain /\ o.gainCutoff = c.gainCutoff
               /\ o.ikDamping = c.ikDamping /\ o.nullspace = c.nullspace
               /\ o.limits = limits /\ o.priority = c.priority /\ o.cpu = c.cpu
               /\ o.deviation = IF travel = 0 THEN c.jointDeviation
                                ELSE Larger(c.jointDeviation, travel + HomeMargin)
<1> DEFINE d == DefaultOptions("joint")
           e == Envelopes(d, c)
           o == JointOptions(c, limits, travel)
<1>1. /\ DOMAIN d = OptionFields
      /\ d.kind = "joint" /\ d.backend = "impedance" /\ d.posture = NotSet
      /\ d.torque = 11 /\ d.tolerance = 1 /\ d.quiet = 250
      /\ d.iterations = 3 /\ d.ikTolerance = 1 /\ d.rotationWeight = 10
      /\ d.leash = 25 /\ d.leashRotation = 150 /\ d.leashJoint = 100
      /\ d.stiffness = 0 /\ d.damping = 0 /\ d.springs = 50 /\ d.dampers = 15
  BY DefaultsAre
<1>2. o = [e EXCEPT !.limits = limits, !.priority = c.priority, !.cpu = c.cpu,
              !.deviation = IF travel = 0 THEN c.jointDeviation
                            ELSE Larger(c.jointDeviation, travel + HomeMargin)]
  BY DEF JointOptions
<1> HIDE DEF d, o
<1>3. /\ DOMAIN e = OptionFields
      /\ \A f \in OptionFields \ {"springs", "dampers", "cap", "barrier", "margin", "cutoff",
                        "feedforward", "gain", "gainCutoff", "ikDamping", "nullspace"} : e[f] = d[f]
      /\ e.springs = IF c.springs = NotSet THEN 50 ELSE c.springs
      /\ e.dampers = IF c.dampers = NotSet THEN 15 ELSE c.dampers
      /\ e.cap = c.cap /\ e.barrier = c.barrier /\ e.margin = c.margin /\ e.cutoff = c.cutoff
      /\ e.gain = c.gain /\ e.gainCutoff = c.gainCutoff
      /\ e.ikDamping = c.ikDamping /\ e.nullspace = c.nullspace
  BY <1>1, EnvelopesAre
<1> HIDE DEF e
<1>4. /\ DOMAIN o = OptionFields
      /\ \A f \in OptionFields \ {"limits", "deviation", "priority", "cpu"} : o[f] = e[f]
      /\ o.limits = limits /\ o.priority = c.priority /\ o.cpu = c.cpu
      /\ o.deviation = IF travel = 0 THEN c.jointDeviation
                       ELSE Larger(c.jointDeviation, travel + HomeMargin)
  BY <1>2, <1>3 DEF OptionFields
<1> QED
  BY <1>1, <1>3, <1>4 DEF OptionFields, o

\* What is asked has the options, and whether realtime is enforced besides.
LEMMA AskedAre ==
    ASSUME NEW o, NEW enforce, DOMAIN o = OptionFields, NEW a, a = o ++ [enforce |-> enforce]
    PROVE  \A f \in OptionFields : a[f] = o[f]
  BY DEF ++

Made(o, c) ==
    \E enforce \in BOOLEAN, travel \in {0, 2000} :
      \/ o = CartesianOptions(c) ++ [enforce |-> enforce]
      \/ o = JointOptions(c, c.budgetFraction, travel) ++ [enforce |-> enforce]

LEMMA CartesianIsValid ==
    ASSUME NEW c, ValidArm(c), NEW o, \A f \in OptionFields : o[f] = CartesianOptions(c)[f]
    PROVE  ValidOptions(o) /\ ValidPosture(o)
<1> DEFINE q == CartesianOptions(c)
<1>1. ValidOptions(q)
  BY DEF ValidArm, LibraryAgrees
<1>2. q.posture = NotSet
  BY CartesianOptionsAre
<1> HIDE DEF q
<1>3. \A f \in OptionFields : o[f] = q[f]
  BY DEF q
<1>4. /\ o.stiffness = q.stiffness /\ o.damping = q.damping /\ o.springs = q.springs /\ o.dampers = q.dampers
      /\ o.ikDamping = q.ikDamping /\ o.nullspace = q.nullspace /\ o.iterations = q.iterations
      /\ o.ikTolerance = q.ikTolerance /\ o.rotationWeight = q.rotationWeight
      /\ o.leash = q.leash /\ o.leashRotation = q.leashRotation /\ o.leashJoint = q.leashJoint
      /\ o.torque = q.torque /\ o.cutoff = q.cutoff /\ o.posture = q.posture /\ o.gain = q.gain
      /\ o.gainCutoff = q.gainCutoff /\ o.cap = q.cap /\ o.barrier = q.barrier /\ o.margin = q.margin
      /\ o.tolerance = q.tolerance /\ o.quiet = q.quiet /\ o.backend = q.backend /\ o.priority = q.priority
      /\ o.cpu = q.cpu /\ o.kind = q.kind /\ o.limits = q.limits /\ o.rotationLimits = q.rotationLimits
      /\ o.deviation = q.deviation /\ o.angularDeviation = q.angularDeviation
  BY <1>3 DEF OptionFields
<1>5. ValidIk(q) => ValidIk(o)
  BY <1>4 DEF ValidIk
<1>6. ValidGains(q) => ValidGains(o)
  BY <1>4 DEF ValidGains
<1>7. ValidImpedance(q) => ValidImpedance(o)
  BY <1>4, <1>5, <1>6 DEF ValidImpedance
<1>8. ValidCommon(q) => ValidCommon(o)
  BY <1>4, <1>7 DEF ValidCommon
<1>9. ValidOptions(o)
  BY <1>1, <1>4, <1>8 DEF ValidOptions, ValidCartesian, ValidJoint
<1> QED
  BY <1>2, <1>4, <1>9 DEF ValidPosture

LEMMA ArmsAreChecked ==
    ASSUME NEW c, ValidArm(c)
    PROVE  /\ \A f \in Positives : IsPositive(c[f])
           /\ \A f \in {"springs", "dampers"} : c[f] = NotSet \/ NotNegative(c[f])
           /\ IsWithin(c.gain, 0, OneWhole) /\ c.gainCutoff >= MinFeedforwardCutoff
           /\ NotNegative(c.nullspace) /\ IsWithin(c.budgetFraction, 1, OneWhole)
           /\ NotNegative(c.lead) /\ LeadExceeds(c.lead, c.leash)
           /\ NotNegative(c.leadRotation) /\ LeadExceeds(c.leadRotation, c.leashRotation)
           /\ ValidOptions(CartesianOptions(c))
<1>1. \A f \in Positives : IsPositive(c[f])
  BY DEF ValidArm
<1>2. \A f \in {"springs", "dampers"} : c[f] = NotSet \/ NotNegative(c[f])
  BY DEF ValidArm
<1>3. IsWithin(c.gain, 0, OneWhole) /\ c.gainCutoff >= MinFeedforwardCutoff
  BY DEF ValidArm
<1>4. NotNegative(c.nullspace) /\ IsWithin(c.budgetFraction, 1, OneWhole)
  BY DEF ValidArm
<1>5. NotNegative(c.lead) /\ LeadExceeds(c.lead, c.leash)
  BY DEF ValidArm
<1>6. NotNegative(c.leadRotation) /\ LeadExceeds(c.leadRotation, c.leashRotation)
  BY DEF ValidArm
<1>7. ValidOptions(CartesianOptions(c))
  BY DEF ValidArm, LibraryAgrees
<1> QED
  BY <1>1, <1>2, <1>3, <1>4, <1>5, <1>6, <1>7

\* What the node's check of its Cartesian options says is enough for its joint ones.
LEMMA JointIsValid ==
    ASSUME NEW c, ValidArm(c), c.budgetFraction \in Int, NEW travel \in {0, 2000},
           NEW o, \A f \in OptionFields : o[f] = JointOptions(c, c.budgetFraction, travel)[f]
    PROVE  ValidOptions(o) /\ ValidPosture(o)
<1> DEFINE q == CartesianOptions(c)
           j == JointOptions(c, c.budgetFraction, travel)
<1>1. ValidImpedance(q) /\ ValidCommon(q)
  <2>1. ValidOptions(q)
    BY ArmsAreChecked
  <2>2. q.backend = "impedance"
    BY CartesianOptionsAre
  <2> HIDE DEF q
  <2>3. ValidCommon(q)
    BY <2>1 DEF ValidOptions
  <2> QED
    BY <2>2, <2>3 DEF ValidCommon
<1>2. /\ q.cap = c.cap /\ q.barrier = c.barrier /\ q.margin = c.margin
      /\ q.priority = c.priority /\ q.cpu = c.cpu
  BY CartesianOptionsAre
<1>3. /\ j.kind = "joint" /\ j.backend = "impedance" /\ j.posture = NotSet
      /\ j.torque = 11 /\ j.tolerance = 1 /\ j.quiet = 250
      /\ j.iterations = 3 /\ j.ikTolerance = 1 /\ j.rotationWeight = 10
      /\ j.leash = 25 /\ j.leashRotation = 150 /\ j.leashJoint = 100
      /\ j.stiffness = 0 /\ j.damping = 0
      /\ j.springs = IF c.springs = NotSet THEN 50 ELSE c.springs
      /\ j.dampers = IF c.dampers = NotSet THEN 15 ELSE c.dampers
      /\ j.cap = c.cap /\ j.barrier = c.barrier /\ j.margin = c.margin /\ j.cutoff = c.cutoff
      /\ j.gain = c.gain /\ j.gainCutoff = c.gainCutoff
      /\ j.ikDamping = c.ikDamping /\ j.nullspace = c.nullspace
      /\ j.limits = c.budgetFraction /\ j.priority = c.priority /\ j.cpu = c.cpu
      /\ j.deviation = IF travel = 0 THEN c.jointDeviation
                       ELSE Larger(c.jointDeviation, travel + HomeMargin)
  BY JointOptionsAre
<1> HIDE DEF q, j
<1>4. \A f \in OptionFields : o[f] = j[f]
  BY DEF j
<1>5. /\ o.stiffness = j.stiffness /\ o.damping = j.damping /\ o.springs = j.springs /\ o.dampers = j.dampers
      /\ o.ikDamping = j.ikDamping /\ o.nullspace = j.nullspace /\ o.iterations = j.iterations
      /\ o.ikTolerance = j.ikTolerance /\ o.rotationWeight = j.rotationWeight
      /\ o.leash = j.leash /\ o.leashRotation = j.leashRotation /\ o.leashJoint = j.leashJoint
      /\ o.torque = j.torque /\ o.cutoff = j.cutoff /\ o.posture = j.posture /\ o.gain = j.gain
      /\ o.gainCutoff = j.gainCutoff /\ o.cap = j.cap /\ o.barrier = j.barrier /\ o.margin = j.margin
      /\ o.tolerance = j.tolerance /\ o.quiet = j.quiet /\ o.backend = j.backend /\ o.priority = j.priority
      /\ o.cpu = j.cpu /\ o.kind = j.kind /\ o.limits = j.limits /\ o.deviation = j.deviation
  BY <1>4 DEF OptionFields
<1>6. /\ \A f \in Positives : IsPositive(c[f])
      /\ \A f \in {"springs", "dampers"} : c[f] = NotSet \/ NotNegative(c[f])
      /\ IsWithin(c.gain, 0, OneWhole) /\ c.gainCutoff >= MinFeedforwardCutoff
      /\ NotNegative(c.nullspace) /\ IsWithin(c.budgetFraction, 1, OneWhole)
  BY ArmsAreChecked
<1>7. /\ IsPositive(c.cutoff) /\ IsPositive(c.gainCutoff) /\ IsPositive(c.ikDamping)
      /\ IsPositive(c.jointDeviation)
  BY <1>6 DEF Positives
<1>8. ValidGains(o)
  <2>1. NotNegative(0) /\ NotNegative(50) /\ NotNegative(15)
    BY DEF NotNegative, IsFinite, NotANumber, Endless
  <2>2. /\ o.stiffness = 0 /\ o.damping = 0
        /\ o.springs = 50 \/ NotNegative(o.springs)
        /\ o.dampers = 15 \/ NotNegative(o.dampers)
    BY <1>3, <1>5, <1>6
  <2> QED
    BY <2>1, <2>2 DEF ValidGains
<1>9. ValidIk(o)
  <2>1. o.iterations = 3 /\ o.ikTolerance = 1 /\ o.rotationWeight = 10 /\ o.ikDamping = c.ikDamping /\ o.nullspace = c.nullspace
    BY <1>3, <1>5
  <2>2. NotNegative(1) /\ IsWithin(10, 0, OneWhole)
    BY DEF NotNegative, IsWithin, IsFinite, NotANumber, Endless, OneWhole
  <2> QED
    BY <1>6, <1>7, <2>1, <2>2 DEF ValidIk
<1>10. ValidImpedance(o)
  <2>1. IsPositive(11) /\ 11 =< RatedTorque /\ IsPositive(25) /\ IsPositive(150) /\ IsPositive(100)
    BY DEF IsPositive, IsFinite, NotANumber, Endless, RatedTorque
  <2>2. /\ o.torque = 11 /\ o.leash = 25 /\ o.leashRotation = 150 /\ o.leashJoint = 100 /\ o.posture = NotSet
        /\ o.cutoff = c.cutoff /\ o.gain = c.gain /\ o.gainCutoff = c.gainCutoff
        /\ o.cap = q.cap /\ o.barrier = q.barrier /\ o.margin = q.margin
    BY <1>2, <1>3, <1>5
  <2>3. IsWithin(q.cap, 1, OneWhole) /\ IsWithin(q.barrier, q.cap, OneWhole) /\ IsWithin(q.margin, LeastMargin, MostMargin)
    BY <1>1 DEF ValidImpedance
  <2> QED
    BY <1>6, <1>7, <1>8, <1>9, <2>1, <2>2, <2>3 DEF ValidImpedance
<1>11. IsPositive(o.deviation)
  <2>1. o.deviation = c.jointDeviation \/ o.deviation = 2100
    BY <1>3, <1>5 DEF Larger, HomeMargin
  <2>2. IsPositive(2100)
    BY DEF IsPositive, IsFinite, NotANumber, Endless
  <2> QED
    BY <1>7, <2>1, <2>2
<1>12. ValidCommon(o)
  <2>1. IsPositive(1)
    BY DEF IsPositive, IsFinite, NotANumber, Endless
  <2>2. o.tolerance = 1 /\ o.quiet = 250 /\ o.priority = q.priority /\ o.cpu = q.cpu
    BY <1>2, <1>3, <1>5
  <2>3. (q.priority = NotSet \/ q.priority \in 1..99) /\ (q.cpu = NotSet \/ q.cpu < CpuSetSize)
    BY <1>1 DEF ValidCommon
  <2> QED
    BY <1>10, <1>11, <2>1, <2>2, <2>3 DEF ValidCommon
<1>13. IsPositive(o.limits)
  <2>1. o.limits = c.budgetFraction /\ 1 <= c.budgetFraction /\ c.budgetFraction <= OneWhole
    BY <1>3, <1>5, <1>6 DEF IsWithin
  <2>2. c.budgetFraction # NotANumber
    BY <1>6 DEF IsWithin
  <2>3. c.budgetFraction # Endless /\ c.budgetFraction > 0
    BY <2>1 DEF OneWhole, Endless
  <2> QED
    BY <2>1, <2>2, <2>3 DEF IsPositive, IsFinite
<1> QED
  BY <1>3, <1>5, <1>12, <1>13 DEF ValidOptions, ValidJoint, ValidPosture

LEMMA MadeIsValid ==
    ASSUME NEW c, ValidArm(c), c.budgetFraction \in Int, NEW o, Made(o, c)
    PROVE  ValidOptions(o) /\ ValidPosture(o)
<1> PICK enforce \in BOOLEAN, travel \in {0, 2000} :
      \/ o = CartesianOptions(c) ++ [enforce |-> enforce]
      \/ o = JointOptions(c, c.budgetFraction, travel) ++ [enforce |-> enforce]
  BY DEF Made
<1>1. CASE o = CartesianOptions(c) ++ [enforce |-> enforce]
  <2>1. DOMAIN CartesianOptions(c) = OptionFields
    BY CartesianOptionsAre
  <2>2. \A f \in OptionFields : o[f] = CartesianOptions(c)[f]
    BY <1>1, <2>1, AskedAre
  <2> QED
    BY <2>2, CartesianIsValid
<1>2. CASE o = JointOptions(c, c.budgetFraction, travel) ++ [enforce |-> enforce]
  <2>1. DOMAIN JointOptions(c, c.budgetFraction, travel) = OptionFields
    BY JointOptionsAre
  <2>2. \A f \in OptionFields : o[f] = JointOptions(c, c.budgetFraction, travel)[f]
    BY <1>2, <2>1, AskedAre
  <2> QED
    BY <2>2, JointIsValid
<1> QED
  BY <1>1, <1>2

\* A Cartesian session of the node can be tuned, from what the configuration says.
LEMMA MadeIsTunable ==
    ASSUME NEW c, NEW o, Made(o, c), o.kind = "cartesian"
    PROVE  o.backend = "impedance" /\ Tunable(o) /\ TuningOf(o) = ConfigTuning(c)
<1> DEFINE q == CartesianOptions(c)
           e == CartesianImpedance(c)
<1>2. /\ DOMAIN q = OptionFields /\ DOMAIN e = OptionFields
      /\ q.kind = "cartesian" /\ q.backend = "impedance"
      /\ q.stiffness = e.stiffness /\ q.springs = e.springs /\ q.dampers = e.dampers /\ q.ikDamping = e.ikDamping
      /\ q.nullspace = e.nullspace /\ q.feedforward = e.feedforward /\ q.gain = e.gain /\ q.gainCutoff = e.gainCutoff
      /\ q.damping = DampingOf(q.stiffness)
      /\ q.limits = c.budget /\ q.rotationLimits = c.rotationBudget
  <2>1. DOMAIN q = OptionFields /\ DOMAIN e = OptionFields
    BY CartesianOptionsAre
  <2>2. q.kind = "cartesian" /\ q.backend = "impedance"
    BY CartesianOptionsAre
  <2>3. q.stiffness = e.stiffness /\ q.springs = e.springs /\ q.dampers = e.dampers
    BY CartesianOptionsAre
  <2>4. q.ikDamping = e.ikDamping /\ q.nullspace = e.nullspace /\ q.feedforward = e.feedforward
    BY CartesianOptionsAre
  <2>5. q.gain = e.gain /\ q.gainCutoff = e.gainCutoff
    BY CartesianOptionsAre
  <2>6. q.damping = DampingOf(q.stiffness)
    BY CartesianOptionsAre
  <2>7. q.limits = c.budget /\ q.rotationLimits = c.rotationBudget
    BY CartesianOptionsAre
  <2> HIDE DEF q, e
  <2> QED
    BY <2>1, <2>2, <2>3, <2>4, <2>5, <2>6, <2>7
<1> PICK enforce \in BOOLEAN, travel \in {0, 2000} :
      \/ o = CartesianOptions(c) ++ [enforce |-> enforce]
      \/ o = JointOptions(c, c.budgetFraction, travel) ++ [enforce |-> enforce]
  BY DEF Made
<1>1. o = q ++ [enforce |-> enforce]
  <2> SUFFICES ASSUME o = JointOptions(c, c.budgetFraction, travel) ++ [enforce |-> enforce] PROVE FALSE
    OBVIOUS
  <2> DEFINE j == JointOptions(c, c.budgetFraction, travel)
  <2>1. DOMAIN j = OptionFields /\ j.kind = "joint"
    BY JointOptionsAre
  <2>2. o = j ++ [enforce |-> enforce]
    OBVIOUS
  <2> HIDE DEF j
  <2>3. \A f \in OptionFields : o[f] = j[f]
    BY <2>1, <2>2, AskedAre
  <2> QED
    BY <2>1, <2>3 DEF OptionFields
<1>3. ConfigTuning(c) = TuningOf([e EXCEPT !.limits = c.budget, !.rotationLimits = c.rotationBudget])
  BY DEF ConfigTuning
<1> HIDE DEF q, e
<1>4. \A f \in OptionFields : o[f] = q[f]
  BY <1>1, <1>2, AskedAre
<1>5. /\ o.stiffness = e.stiffness /\ o.springs = e.springs /\ o.dampers = e.dampers
      /\ o.ikDamping = e.ikDamping /\ o.nullspace = e.nullspace /\ o.feedforward = e.feedforward
      /\ o.gain = e.gain /\ o.gainCutoff = e.gainCutoff /\ o.backend = "impedance"
      /\ o.damping = DampingOf(o.stiffness) /\ o.limits = c.budget /\ o.rotationLimits = c.rotationBudget
  BY <1>2, <1>4 DEF OptionFields
<1>6. TuningOf(o) = ConfigTuning(c)
  <2> DEFINE b == [e EXCEPT !.limits = c.budget, !.rotationLimits = c.rotationBudget]
  <2>1. /\ b.stiffness = e.stiffness /\ b.springs = e.springs /\ b.dampers = e.dampers
        /\ b.ikDamping = e.ikDamping /\ b.nullspace = e.nullspace /\ b.feedforward = e.feedforward
        /\ b.gain = e.gain /\ b.gainCutoff = e.gainCutoff
        /\ b.limits = c.budget /\ b.rotationLimits = c.rotationBudget
    BY <1>2 DEF OptionFields
  <2> HIDE DEF b
  <2> QED
    BY <1>3, <1>5, <2>1 DEF TuningOf, b
<1>7. GainsOf(TuningOf(o)) = GainsAsked(o)
  <2> DEFINE t == TuningOf(o)
             s == ScaledCartesian(t.stiffness)
             r == [springs |-> t.springs, dampers |-> t.dampers]
             a == GainsAsked(o)
  <2>1. t.stiffness = o.stiffness /\ t.springs = o.springs /\ t.dampers = o.dampers
    BY DEF TuningOf
  <2> HIDE DEF t
  <2>2. DOMAIN s = {"stiffness", "damping"} /\ s.stiffness = o.stiffness /\ s.damping = o.damping
    BY <1>5, <2>1 DEF ScaledCartesian
  <2>3. DOMAIN r = {"springs", "dampers"} /\ r.springs = o.springs /\ r.dampers = o.dampers
    BY <2>1
  <2>4. a = [f \in {"stiffness", "damping", "springs", "dampers"} |-> o[f]]
    BY DEF GainsAsked
  <2>5. GainsOf(t) = s ++ r
    BY DEF GainsOf
  <2> HIDE DEF s, r, a
  <2>6. s ++ r = [f \in {"stiffness", "damping", "springs", "dampers"} |-> o[f]]
    <3>1. DOMAIN s \cup DOMAIN r = {"stiffness", "damping", "springs", "dampers"}
      BY <2>2, <2>3
    <3>2. \A f \in {"stiffness", "damping", "springs", "dampers"} :
            (IF f \in DOMAIN s THEN s[f] ELSE r[f]) = o[f]
      BY <2>2, <2>3
    <3> QED
      BY <3>1, <3>2 DEF ++
  <2> QED
    BY <2>4, <2>5, <2>6 DEF a, t
<1> QED
  BY <1>5, <1>6, <1>7 DEF Tunable

\* Until a thread is spawned there is none, and it cycles only with the gains that were asked.
StartInv ==
    /\ DOMAIN starting = {"at", "returned"} /\ DOMAIN slot = {"seeded", "tunes"}
    /\ starting.at \in {"writing", "checking", "model", "spawn", "waiting", "returned"}
    /\ loopThread \in {"none", "scheduling", "unscheduled", "body", "cycling", "ending", "gone"}
    /\ starting.at # "returned" => starting.returned = "none"
    /\ starting.at = "returned" => starting.returned \in {"handle", "invalid", "failed"}
    /\ starting.at \in {"writing", "checking", "model", "spawn"} => loopThread = "none" /\ law = NoLaw
    /\ starting.at \in {"model", "spawn", "waiting"} \/ starting.returned = "handle" \/ loopThread # "none"
         => ValidOptions(asking) /\ ValidPosture(asking)
    /\ loopThread \in {"none", "scheduling", "unscheduled", "body"} => law = NoLaw
    /\ starting.at = "waiting" => loopThread # "none"
    /\ starting.returned = "handle" => law # NoLaw /\ loopThread \in {"cycling", "ending", "gone"}
    /\ starting.returned \in {"invalid", "failed"} => loopThread \in {"none", "gone"} /\ law = NoLaw
    /\ law # NoLaw => law = GainsAsked(asking)
    /\ /\ starting.at \in {"spawn", "waiting"} \/ starting.returned = "handle"
       /\ asking.backend = "impedance" /\ Tunable(asking)
       => slot.seeded = TRUE

LEMMA StartBegins == ASSUME NEW options, StartInit(options) PROVE StartInv
  BY DEF StartInit, StartInv, Unstarted

LEMMA StartSteps == StartInv /\ StartNext => StartInv'
<1> SUFFICES ASSUME StartInv, StartNext PROVE StartInv'
  OBVIOUS
<1> USE DEF StartInv
<1>1. CASE Check
  <2>1. /\ UNCHANGED <<asking, loopThread, slot, law>> /\ loopThread = "none" /\ law = NoLaw
        /\ starting.at = "checking"
    BY <1>1 DEF Check
  <2>2. CASE ValidOptions(asking) /\ ValidPosture(asking)
    <3>1. CASE asking.backend = "impedance"
      <4>1. starting' = [starting EXCEPT !.at = "model"]
        BY <1>1, <2>2, <3>1 DEF Check
      <4>2. /\ DOMAIN starting' = {"at", "returned"} /\ starting'.at = "model" /\ starting'.returned = "none"
        BY <2>1, <4>1
      <4> QED
        BY <2>1, <2>2, <4>2
    <3>2. CASE asking.backend # "impedance"
      <4>1. starting' = [starting EXCEPT !.at = "spawn"]
        BY <1>1, <2>2, <3>2 DEF Check
      <4>2. /\ DOMAIN starting' = {"at", "returned"} /\ starting'.at = "spawn" /\ starting'.returned = "none"
        BY <2>1, <4>1
      <4> QED
        BY <2>1, <2>2, <3>2, <4>2
    <3> QED
      BY <3>1, <3>2
  <2>3. CASE ~(ValidOptions(asking) /\ ValidPosture(asking))
    <3>1. starting' = [at |-> "returned", returned |-> "invalid"]
      BY <1>1, <2>3, Zenon DEF Check
    <3>2. /\ DOMAIN starting' = {"at", "returned"} /\ starting'.at = "returned" /\ starting'.returned = "invalid"
      BY <3>1
    <3> QED
      BY <2>1, <3>2
  <2> QED
    BY <2>2, <2>3
<1>2. CASE LoadLoopModel
  <2>1. /\ UNCHANGED <<asking, loopThread, law>> /\ loopThread = "none" /\ law = NoLaw
        /\ starting.at = "model"
    BY <1>2 DEF LoadLoopModel
  <2>2. CASE starting' = [at |-> "returned", returned |-> "failed"] /\ UNCHANGED slot
    <3>1. /\ DOMAIN starting' = {"at", "returned"} /\ starting'.at = "returned" /\ starting'.returned = "failed"
      BY <2>2
    <3> QED
      BY <2>1, <2>2, <3>1
  <2>3. CASE /\ starting' = [starting EXCEPT !.at = "spawn"]
             /\ slot' = [slot EXCEPT !.seeded = Tunable(asking)]
    <3>1. /\ DOMAIN starting' = {"at", "returned"} /\ starting'.at = "spawn" /\ starting'.returned = "none"
      BY <2>1, <2>3
    <3>2. DOMAIN slot' = DOMAIN slot /\ (Tunable(asking) => slot'.seeded = TRUE)
      BY <2>3 DEF Tunable
    <3> QED
      BY <2>1, <3>1, <3>2
  <2> QED
    BY <1>2, <2>2, <2>3 DEF LoadLoopModel
<1>3. CASE SpawnLoop
  <2>1. /\ UNCHANGED <<asking, slot, law>> /\ loopThread = "none" /\ law = NoLaw
        /\ starting.at = "spawn"
    BY <1>3 DEF SpawnLoop
  <2>2. CASE starting' = [at |-> "returned", returned |-> "failed"] /\ UNCHANGED loopThread
    <3>1. /\ DOMAIN starting' = {"at", "returned"} /\ starting'.at = "returned" /\ starting'.returned = "failed"
      BY <2>2
    <3> QED
      BY <2>1, <2>2, <3>1
  <2>3. CASE starting' = [starting EXCEPT !.at = "waiting"] /\ loopThread' = "scheduling"
    <3>1. /\ DOMAIN starting' = {"at", "returned"} /\ starting'.at = "waiting" /\ starting'.returned = "none"
      BY <2>1, <2>3
    <3> QED
      BY <2>1, <2>3, <3>1
  <2> QED
    BY <1>3, <2>2, <2>3 DEF SpawnLoop
<1>4. CASE FirstCycle
  BY <1>4 DEF FirstCycle
<1>5. CASE BodyEnds
  BY <1>5 DEF BodyEnds
<1>6. CASE ThreadGoes
  BY <1>6 DEF ThreadGoes
<1>7. CASE StartReturns
  <2>1. /\ UNCHANGED <<asking, loopThread, slot, law>> /\ starting.at = "waiting"
        /\ law # NoLaw \/ loopThread = "gone"
        /\ starting' = [at |-> "returned", returned |-> IF law # NoLaw THEN "handle" ELSE "failed"]
    BY <1>7 DEF StartReturns, Joins
  <2>2. /\ DOMAIN starting' = {"at", "returned"} /\ starting'.at = "returned"
        /\ starting'.returned = IF law # NoLaw THEN "handle" ELSE "failed"
    BY <2>1
  <2> QED
    BY <2>1, <2>2
<1>8. CASE RetuneIk
  <2>1. /\ UNCHANGED <<asking, starting, loopThread>> /\ starting.returned = "handle" /\ starting.at = "returned"
        /\ Tunable(asking) /\ slot' = [slot EXCEPT !.tunes = @ + 1]
        /\ law' = GainsOf(TuningOf(asking))
    BY <1>8 DEF RetuneIk
  <2>2. law' = GainsAsked(asking)
    BY <2>1 DEF Tunable
  <2>3. law' = law
    BY <2>1, <2>2
  <2>4. DOMAIN slot' = DOMAIN slot /\ slot'.seeded = slot.seeded
    BY <2>1
  <2> QED
    BY <2>1, <2>3, <2>4
<1>9. CASE \E raised, pinned \in BOOLEAN : ScheduleLoop(raised, pinned)
  BY <1>9 DEF ScheduleLoop
<1> QED
  BY <1>1, <1>2, <1>3, <1>4, <1>5, <1>6, <1>7, <1>8, <1>9 DEF StartNext

LEMMA StartHolds ==
    ASSUME StartInv
    PROVE  StartIsWhole /\ TuneKeepsTheRest /\ PostureIsReachable
<1>1. StartIsWhole
  BY DEF StartInv, StartIsWhole
<1>2. TuneKeepsTheRest
  BY DEF StartInv, TuneKeepsTheRest
<1>3. PostureIsReachable
  <2> SUFFICES ASSUME loopThread # "none", asking.backend = "impedance", asking.posture # NotSet
               PROVE  TakesJoints(asking, asking.posture)
    BY DEF PostureIsReachable
  <2>1. ValidOptions(asking) /\ ValidPosture(asking)
    BY DEF StartInv
  <2>2. KeepsFromLimits(asking.posture, InsetOf(asking))
    BY <2>1 DEF ValidPosture
  <2>3. IsFinite(asking.posture)
    BY <2>1 DEF ValidOptions, ValidCommon, ValidImpedance
  <2> QED
    BY <2>2, <2>3 DEF TakesJoints
<1> QED
  BY <1>1, <1>2, <1>3

Numbers == {"lead", "leash", "leadRotation", "leashRotation", "budgetFraction"}

\* What was accepted is what sessions are made of.
ConfigInv ==
    /\ StartInv
    /\ edits \in 0..MaxEdits /\ verdict \in {"none", "accepted", "refused"}
    /\ Numbers \cup {"scouting"} \subseteq DOMAIN conf
    /\ \A f \in Numbers : conf[f] \in Int
    /\ conf.scouting \in {"unset", "on", "off"}
    /\ verdict = "accepted" => ValidConfig(conf)
    /\ starter = "node" /\ starting.at # "writing" => verdict = "accepted" /\ Made(asking, conf)
    /\ starter = "node" => starting.returned # "invalid"

LEMMA DefaultConfigIs ==
    /\ Numbers \cup {"scouting"} \subseteq DOMAIN DefaultConfig
    /\ \A f \in Numbers : DefaultConfig[f] \in Int
    /\ DefaultConfig.scouting = "unset"
<1> QED
  BY DEF DefaultConfig, Numbers

LEMMA ConfigBegins == ConfigInit => ConfigInv
<1> SUFFICES ASSUME ConfigInit PROVE ConfigInv
  OBVIOUS
<1>1. StartInv
  BY StartBegins DEF ConfigInit
<1>2. conf = DefaultConfig /\ edits = 0 /\ verdict = "none"
  BY DEF ConfigInit
<1>3. starting = Unstarted
  BY DEF ConfigInit, StartInit
<1>4. starting.at = "writing" /\ starting.returned = "none"
  BY <1>3 DEF Unstarted
<1> QED
  BY <1>1, <1>2, <1>4, DefaultConfigIs, ConfigAssumption DEF ConfigInv

LEMMA AlternativesAre ==
    /\ \A f \in Numbers : Alternatives(f) \subseteq Int
    /\ Alternatives("scouting") = {"on", "off"}
<1>1. Odd \subseteq Int
  BY DEF Odd, NotANumber, Endless
<1>2. ASSUME NEW f \in Numbers PROVE Alternatives(f) \subseteq Int
  <2>1. CASE f \in {"leash", "lead"}
    <3>1. Alternatives(f) = Odd \cup {24, 51}
      BY <2>1 DEF Alternatives
    <3> QED
      BY <1>1, <3>1
  <2>2. CASE f = "budgetFraction"
    <3>1. Alternatives(f) = Odd \cup {80, OneWhole, OneWhole + 1}
      BY <2>2 DEF Alternatives
    <3>2. OneWhole \in Int
      BY DEF OneWhole
    <3> QED
      BY <1>1, <3>1, <3>2
  <2>3. CASE f = "leadRotation"
    <3>1. Alternatives(f) = Odd \cup {1}
      BY <2>3 DEF Alternatives
    <3> QED
      BY <1>1, <3>1
  <2>4. CASE f = "leashRotation"
    <3>1. Alternatives(f) = Odd \cup {1}
      BY <2>4 DEF Alternatives
    <3> QED
      BY <1>1, <3>1
  <2> QED
    BY <2>1, <2>2, <2>3, <2>4 DEF Numbers
<1>3. Alternatives("scouting") = {"on", "off"}
  BY DEF Alternatives
<1> QED
  BY <1>2, <1>3

LEMMA ConfigSteps == ConfigInv /\ [ConfigNext]_configVars => ConfigInv'
<1> SUFFICES ASSUME ConfigInv, [ConfigNext]_configVars PROVE ConfigInv'
  OBVIOUS
<1>1. CASE WriteConfig
  <2>1. PICK f \in DOMAIN conf : \E x \in Alternatives(f) : conf' = [conf EXCEPT ![f] = x]
    BY <1>1 DEF WriteConfig
  <2>2. PICK x \in Alternatives(f) : conf' = [conf EXCEPT ![f] = x]
    BY <2>1
  <2>3. /\ UNCHANGED <<startVars, starter, verdict>> /\ starter = "node" /\ verdict = "none"
        /\ edits' = edits + 1 /\ edits < MaxEdits
    BY <1>1 DEF WriteConfig, MayEdit
  <2>4. DOMAIN conf' = DOMAIN conf /\ \A g \in DOMAIN conf : conf'[g] = IF g = f THEN x ELSE conf[g]
    BY <2>2
  <2>5. \A g \in Numbers : conf'[g] \in Int
    BY <2>2, <2>4, AlternativesAre DEF ConfigInv
  <2>6. conf'.scouting \in {"unset", "on", "off"}
    <3>1. "scouting" \in DOMAIN conf /\ conf.scouting \in {"unset", "on", "off"}
      BY DEF ConfigInv
    <3> QED
      BY <2>2, <2>4, <3>1, AlternativesAre
  <2>7. UNCHANGED <<asking, starting, loopThread, slot, law>>
    BY <2>3 DEF startVars
  <2>8. StartInv'
    BY <2>7 DEF ConfigInv, StartInv
  <2>9. edits' \in 0..MaxEdits
    BY <2>3, ConfigAssumption DEF ConfigInv
  <2> QED
    BY <2>3, <2>4, <2>5, <2>6, <2>7, <2>8, <2>9 DEF ConfigInv
<1>2. CASE LoadConfig
  <2>1. /\ UNCHANGED <<asking, starting, loopThread, slot, law, starter, conf, edits>>
        /\ verdict = "none"
        /\ verdict' = IF ValidConfig(conf) THEN "accepted" ELSE "refused"
    BY <1>2 DEF LoadConfig, startVars
  <2>2. StartInv'
    BY <2>1 DEF ConfigInv, StartInv
  <2>3. verdict' \in {"accepted", "refused"} /\ (verdict' = "accepted" => ValidConfig(conf'))
    BY <2>1
  <2> QED
    BY <2>1, <2>2, <2>3 DEF ConfigInv
<1>3. CASE NodeAsks
  <2>1. /\ UNCHANGED <<loopThread, slot, law, starter, conf, edits, verdict>>
        /\ verdict = "accepted" /\ starting.at = "writing"
        /\ starting' = [starting EXCEPT !.at = "checking"]
    BY <1>3 DEF NodeAsks
  <2>2. Made(asking', conf)
    <3> DEFINE C(enforce) == CartesianOptions(conf) ++ [enforce |-> enforce]
               J(enforce, travel) ==
                 JointOptions(conf, conf.budgetFraction, travel) ++ [enforce |-> enforce]
    <3>1. \E enforce \in BOOLEAN, travel \in {0, 2000} : asking' \in {C(enforce), J(enforce, travel)}
      BY <1>3 DEF NodeAsks
    <3>2. Made(asking', conf) <=> \E enforce \in BOOLEAN, travel \in {0, 2000} :
                                    asking' = C(enforce) \/ asking' = J(enforce, travel)
      BY DEF Made
    <3> HIDE DEF C, J
    <3> QED
      BY <3>1, <3>2
  <2>3. DOMAIN starting' = {"at", "returned"} /\ starting'.at = "checking" /\ starting'.returned = "none"
    BY <2>1 DEF ConfigInv, StartInv
  <2>4. StartInv'
    BY <2>1, <2>3 DEF ConfigInv, StartInv
  <2> QED
    BY <2>1, <2>2, <2>3, <2>4 DEF ConfigInv
<1>4. CASE SetsImpedance \/ SetsOption
  <2>1. /\ UNCHANGED <<starting, loopThread, slot, law, starter, conf, verdict>>
        /\ starter # "node" /\ starting.at = "writing" /\ edits' = edits + 1 /\ edits < MaxEdits
    BY <1>4 DEF SetsImpedance, SetsOption, Sets, MayEdit
  <2>2. StartInv'
    BY <2>1 DEF ConfigInv, StartInv
  <2>3. edits' \in 0..MaxEdits
    BY <2>1, ConfigAssumption DEF ConfigInv
  <2> QED
    BY <2>1, <2>2, <2>3 DEF ConfigInv
<1>5. CASE ProgramAsks
  <2>1. /\ UNCHANGED <<asking, loopThread, slot, law, starter, conf, edits, verdict>>
        /\ starter # "node" /\ starting.at = "writing"
        /\ starting' = [starting EXCEPT !.at = "checking"]
    BY <1>5 DEF ProgramAsks
  <2>2. DOMAIN starting' = {"at", "returned"} /\ starting'.at = "checking" /\ starting'.returned = "none"
    BY <2>1 DEF ConfigInv, StartInv
  <2>3. StartInv'
    BY <2>1, <2>2 DEF ConfigInv, StartInv
  <2> QED
    BY <2>1, <2>2, <2>3 DEF ConfigInv
<1>6. CASE StartNext /\ UNCHANGED <<starter, conf, edits, verdict>>
  <2>1. StartInv'
    BY <1>6, StartSteps DEF ConfigInv
  <2>2. asking' = asking
    BY <1>6 DEF StartNext, Check, LoadLoopModel, SpawnLoop, FirstCycle, BodyEnds, ThreadGoes, StartReturns,
       RetuneIk, ScheduleLoop
  <2>3. starting.at # "writing" \/ starting' = starting
    BY <1>6 DEF StartNext, Check, LoadLoopModel, SpawnLoop, FirstCycle, BodyEnds, ThreadGoes, StartReturns,
       RetuneIk, ScheduleLoop
  <2>4. starter = "node" => starting'.returned # "invalid"
    <3> SUFFICES ASSUME starter = "node" PROVE starting'.returned # "invalid"
      OBVIOUS
    <3>1. CASE Check
      <4>1. verdict = "accepted" /\ Made(asking, conf) /\ starting.returned = "none" /\ starting.at = "checking"
        BY <3>1 DEF Check, ConfigInv, StartInv
      <4>2. ValidArm(conf) /\ conf.budgetFraction \in Int
        BY <4>1 DEF ConfigInv, ValidConfig, Numbers
      <4>3. ValidOptions(asking) /\ ValidPosture(asking)
        BY <4>1, <4>2, MadeIsValid
      <4>4. starting' = [starting EXCEPT !.at = IF asking.backend = "impedance" THEN "model" ELSE "spawn"]
        BY <3>1, <4>3, Zenon DEF Check
      <4>5. starting'.returned = starting.returned
        BY <4>4 DEF ConfigInv, StartInv
      <4> QED
        BY <4>1, <4>5
    <3>2. CASE LoadLoopModel \/ SpawnLoop \/ StartReturns
      BY <3>2 DEF LoadLoopModel, SpawnLoop, StartReturns, ConfigInv, StartInv
    <3>3. CASE ~(Check \/ LoadLoopModel \/ SpawnLoop \/ StartReturns)
      <4>1. starting' = starting
        BY <1>6, <3>3 DEF StartNext, FirstCycle, BodyEnds, ThreadGoes, RetuneIk, ScheduleLoop
      <4> QED
        BY <4>1 DEF ConfigInv
    <3> QED
      BY <3>1, <3>2, <3>3
  <2>5. starter' = "node" /\ starting'.at # "writing" => verdict' = "accepted" /\ Made(asking', conf')
    BY <1>6, <2>2, <2>3 DEF ConfigInv
  <2>6. verdict' = "accepted" => ValidConfig(conf')
    BY <1>6 DEF ConfigInv
  <2> QED
    BY <1>6, <2>1, <2>4, <2>5, <2>6 DEF ConfigInv
<1>7. CASE UNCHANGED configVars
  <2>1. UNCHANGED <<asking, starting, loopThread, slot, law, starter, conf, edits, verdict>>
    BY <1>7 DEF configVars, startVars
  <2>2. StartInv'
    BY <2>1 DEF ConfigInv, StartInv
  <2> QED
    BY <2>1, <2>2 DEF ConfigInv
<1> QED
  BY <1>1, <1>2, <1>3, <1>4, <1>5, <1>6, <1>7 DEF ConfigNext

LEMMA ConfigHolds == ConfigInv => ConfigSafety
<1> SUFFICES ASSUME ConfigInv PROVE ConfigSafety
  OBVIOUS
<1>1. AcceptedStarts
  BY DEF ConfigInv, AcceptedStarts
<1>2. GateMatchesLoop
  <2> SUFFICES ASSUME NEW x \in {19, 20, 34, 35, 49, 50, 499, 500, 501}, GatePassesJoints(conf, x)
               PROVE  TakesJoints(JointOptions(conf, conf.budgetFraction, 0), x)
    BY DEF GateMatchesLoop
  <2> DEFINE o == JointOptions(conf, conf.budgetFraction, 0)
  <2>1. o.backend = "impedance" /\ o.margin = conf.margin
    BY JointOptionsAre
  <2> HIDE DEF o
  <2>2. InsetOf(o) = GateInset(conf)
    BY <2>1 DEF InsetOf, GateInset
  <2>3. IsFinite(x)
    BY DEF IsFinite, NotANumber, Endless
  <2>4. KeepsFromLimits(x, InsetOf(o))
    BY <2>2 DEF GatePassesJoints
  <2>5. TakesJoints(o, x)
    BY <2>3, <2>4 DEF TakesJoints
  <2> QED
    BY <2>5 DEF o
<1>3. LeadBeyondLeash
  <2> SUFFICES ASSUME verdict = "accepted"
               PROVE  /\ GatePassesLead(conf.lead, conf.leash + 1)
                      /\ GatePassesLead(conf.leadRotation, conf.leashRotation + 1)
    BY DEF LeadBeyondLeash
  <2>1. LeadExceeds(conf.lead, conf.leash) /\ LeadExceeds(conf.leadRotation, conf.leashRotation)
    BY ArmsAreChecked DEF ConfigInv, ValidConfig
  <2>2. conf.lead \in Int /\ conf.leash \in Int /\ conf.leadRotation \in Int /\ conf.leashRotation \in Int
    BY DEF ConfigInv, Numbers
  <2> QED
    BY <2>1, <2>2 DEF LeadExceeds, GatePassesLead
<1>4. FreshIsClean
  <2> SUFFICES ASSUME starter = "node", asking.kind = "cartesian", starting.returned = "handle"
               PROVE  slot.seeded /\ TuningOf(asking) = ConfigTuning(conf)
    BY DEF FreshIsClean
  <2>1. starting.at = "returned"
    BY DEF ConfigInv, StartInv
  <2>2. Made(asking, conf)
    BY <2>1 DEF ConfigInv
  <2>3. asking.backend = "impedance" /\ Tunable(asking) /\ TuningOf(asking) = ConfigTuning(conf)
    BY <2>2, MadeIsTunable
  <2>4. slot.seeded = TRUE
    BY <2>3 DEF ConfigInv, StartInv
  <2> QED
    BY <2>3, <2>4
<1>5. CanBeMet
  <2> SUFFICES ASSUME conf.scouting # "off" PROVE Listens(conf) \/ conf.connect \/ Scouts(conf)
    BY DEF CanBeMet
  <2>1. CASE conf.scouting = "on"
    BY <2>1 DEF Scouts
  <2>2. CASE conf.scouting = "unset"
    BY <2>2 DEF Scouts
  <2> QED
    BY <2>1, <2>2 DEF ConfigInv
<1>6. StartIsWhole /\ TuneKeepsTheRest /\ PostureIsReachable
  BY StartHolds DEF ConfigInv
<1> QED
  BY <1>1, <1>2, <1>3, <1>4, <1>5, <1>6 DEF ConfigSafety

-----------------------------------------------------------------------------
(* The types of the motion's state: what its invariant leaves open. *)

\* A record is the function of its fields.
IsRecord(r) == r = [f \in DOMAIN r |-> r[f]]

LEMMA FieldsAreReplaced ==
    ASSUME NEW r, NEW f, NEW v
    PROVE  IsRecord([r EXCEPT ![f] = v])
  BY DEF IsRecord

\* What the robot owes, and its mode, do not touch a motion's end.
LEMMA RobotFields ==
    ASSUME DOMAIN robot = {"move", "mode", "kind", "finish", "owed", "since"}, NEW mode, NEW messages
    PROVE  /\ LET e == [robot EXCEPT !.owed = messages]
              IN  IsRecord(e) /\ e.finish = robot.finish /\ e.since = robot.since
           /\ LET e == [robot EXCEPT !.mode = mode]
              IN  IsRecord(e) /\ e.finish = robot.finish /\ e.since = robot.since
           /\ LET e == [robot EXCEPT !.owed = messages, !.mode = mode]
              IN  IsRecord(e) /\ e.finish = robot.finish /\ e.since = robot.since
           /\ LET e == Ended(mode, messages)
              IN  IsRecord(e) /\ e.finish = FALSE /\ e.since = robot.since
<1>1. /\ IsRecord([robot EXCEPT !.owed = messages]) /\ IsRecord([robot EXCEPT !.mode = mode])
      /\ IsRecord([robot EXCEPT !.owed = messages, !.mode = mode])
  BY FieldsAreReplaced
<1>2. IsRecord(Ended(mode, messages))
  BY FieldsAreReplaced, Zenon DEF Ended
<1>3. Ended(mode, messages).finish = FALSE /\ Ended(mode, messages).since = robot.since
  BY DEF Ended
<1> QED
  BY <1>1, <1>2, <1>3

\* What the motion's invariant does not say of its state's shape.
MotionRest ==
    /\ wanted \in {"idle"} \cup Kinds
    /\ user \in [Users -> Processes]
    /\ caller \in [Callers -> {NoId} \cup Ids]
    /\ troubles \in 0..MaxTroubles
    /\ up \in BOOLEAN
    /\ requests \in Seq([what : {"move", "stop", "recover"}, id : Nat, kind : {"idle"} \cup Kinds])
    /\ robot.finish \in BOOLEAN /\ robot.since \in Nat /\ IsRecord(robot)
    /\ states \in Seq(RobotStates)
    /\ outcome \in [Ids -> Ends \cup {"none"}]

LEMMA SeqOfTyped ==
    ASSUME NEW S, NEW T, NEW s \in Seq(T), \A i \in 1..Len(s) : s[i] \in S
    PROVE  s \in Seq(S)
  OBVIOUS

LEMMA RestBegins == Init => MotionRest
<1> SUFFICES ASSUME Init PROVE MotionRest
  OBVIOUS
<1>1. NoProcess \in Processes
  BY SMT DEF NoProcess, Processes, Places, Between, NoId
<1>2. Idle \in RobotStates
  BY SMT DEF Idle, RobotStates, RobotModes
<1>3. /\ user \in [Users -> Processes] /\ states \in Seq(RobotStates)
      /\ caller \in [Callers -> {NoId} \cup Ids] /\ outcome \in [Ids -> Ends \cup {"none"}]
  BY <1>1, <1>2 DEF Init
<1>4. IsRecord(robot)
  BY DEF Init, IsRecord
<1> QED
  BY <1>3, <1>4, BoundsAssumption DEF Init, MotionRest

\* A process whose fields change is one.
LEMMA StillProcesses ==
    ASSUME MotionRest, NEW u \in Users, NEW p \in Processes
    PROVE  [user EXCEPT ![u] = p] \in [Users -> Processes]
  BY DEF MotionRest

LEMMA ProcessGoes ==
    ASSUME MotionRest, NEW u \in Users, NEW place \in Places, NEW n \in Nat \ {0},
           NEW i \in {NoId} \cup Ids, NEW result \in {"none", "ok", "error"}
    PROVE  /\ [user EXCEPT ![u].at = place] \in [Users -> Processes]
           /\ [user EXCEPT ![u].at = place, ![u].from = n] \in [Users -> Processes]
           /\ [user EXCEPT ![u].from = n, ![u].at = place] \in [Users -> Processes]
           /\ [user EXCEPT ![u].at = place, ![u].stop = i] \in [Users -> Processes]
           /\ [user EXCEPT ![u].at = place, ![u].result = result] \in [Users -> Processes]
<1>1. user \in [Users -> Processes] /\ user[u] \in Processes
  BY DEF MotionRest
<1> DEFINE p1 == [user[u] EXCEPT !.at = place]
           p2 == [user[u] EXCEPT !.at = place, !.from = n]
           p3 == [user[u] EXCEPT !.at = place, !.stop = i]
           p4 == [user[u] EXCEPT !.at = place, !.result = result]
<1>2. p1 \in Processes /\ p2 \in Processes /\ p3 \in Processes /\ p4 \in Processes
  BY <1>1 DEF Processes
<1>3. /\ [user EXCEPT ![u].at = place] = [user EXCEPT ![u] = p1]
      /\ [user EXCEPT ![u].at = place, ![u].from = n] = [user EXCEPT ![u] = p2]
      /\ [user EXCEPT ![u].from = n, ![u].at = place] = [user EXCEPT ![u] = p2]
      /\ [user EXCEPT ![u].at = place, ![u].stop = i] = [user EXCEPT ![u] = p3]
      /\ [user EXCEPT ![u].at = place, ![u].result = result] = [user EXCEPT ![u] = p4]
  BY <1>1 DEF Processes
<1> HIDE DEF p1, p2, p3, p4
<1> QED
  BY <1>1, <1>2, <1>3

LEMMA ProcessMoves ==
    ASSUME MotionRest, seen \in Nat \ {0}, NEW u \in Users
    PROVE  /\ \A place \in Places : Goes(u, place) \/ Receives(u, place) => user' \in [Users -> Processes]
           /\ \A result \in {"ok", "error"} : Returns(u, result) => user' \in [Users -> Processes]
           /\ Fails(u) \/ FinishFails(u) => user' \in [Users -> Processes]
<1>0. NoId \in {NoId} \cup Ids /\ "none" \in {"none", "ok", "error"}
  OBVIOUS
<1>1. ASSUME NEW place \in Places, Goes(u, place) \/ Receives(u, place) PROVE user' \in [Users -> Processes]
  <2>1. /\ [user EXCEPT ![u].at = place] \in [Users -> Processes]
        /\ [user EXCEPT ![u].at = place, ![u].from = seen] \in [Users -> Processes]
    BY <1>0, ProcessGoes
  <2>2. CASE Goes(u, place)
    BY <2>1, <2>2, Zenon DEF Goes
  <2>3. CASE Receives(u, place)
    BY <2>1, <2>3, Zenon DEF Receives
  <2> QED
    BY <1>1, <2>2, <2>3
<1>2. ASSUME NEW result \in {"ok", "error"}, Returns(u, result) PROVE user' \in [Users -> Processes]
  <2>1. "out" \in Places /\ result \in {"none", "ok", "error"}
    BY DEF Places, Between
  <2> QED
    BY <1>0, <1>2, <2>1, ProcessGoes DEF Returns
<1>3. {"cancelling", "failed", "released"} \subseteq Places
  BY DEF Places, Between
<1>4. Fails(u) \/ FinishFails(u) => user' \in [Users -> Processes]
  BY <1>1, <1>3 DEF Fails, FinishFails
<1> QED
  BY <1>1, <1>2, <1>4

\* A step of a user's thread, what it does to its process and to the mode that was asked for.
LEMMA UsersRest ==
    ASSUME MotionRest, user' \in [Users -> Processes], wanted' \in {"idle"} \cup Kinds,
           requests' = requests, caller' = caller, troubles' = troubles \/ troubles' \in 0..MaxTroubles, up' \in BOOLEAN,
           robot'.finish \in BOOLEAN, robot'.since \in Nat,
           IsRecord(robot'), states' = states, outcome' = outcome
    PROVE  MotionRest'
  BY DEF MotionRest

LEMMA RequestIs ==
    ASSUME MotionRest, next \in Nat, NEW what \in {"move", "stop", "recover"}, NEW kind \in {"idle"} \cup Kinds,
           Request(what, kind)
    PROVE  requests' \in Seq([what : {"move", "stop", "recover"}, id : Nat, kind : {"idle"} \cup Kinds])
<1>1. [what |-> what, id |-> next, kind |-> kind] \in [what : {"move", "stop", "recover"}, id : Nat, kind : {"idle"} \cup Kinds]
  OBVIOUS
<1> QED
  BY <1>1 DEF Request, MotionRest

\* What a user's thread does keeps the shapes.
LEMMA UserStepsRest ==
    ASSUME MotionRest, FciInv, NEW u \in Users,
           Progress(u) \/ Choice(u) \/ Cancel(u) \/ PollReply(u) \/ Received(u) \/ Garbled(u) \/ StateTimesOut(u)
    PROVE  MotionRest'
<1>0. /\ seen \in Nat \ {0} /\ next \in Nat \ {0} /\ moves \in 0..MaxMoves /\ calls \in 0..MaxCalls
      /\ user[u].at # "out" => user[u].id \in Ids
      /\ (user[u].at \notin {"out", "stopping", "draining", "drained"} => next <= 2 * moves + calls)
  <2>1. /\ seen \in Nat \ {0} /\ next \in Nat /\ moves \in 0..MaxMoves /\ calls \in 0..MaxCalls
        /\ user[u].at # "out" => user[u].id \in Ids
    BY Zenon DEF FciInv, MotionShapes
  <2>2. /\ Oldest >= 1 /\ (user[u].at \notin {"out", "stopping", "draining", "drained"} => next <= 2 * moves + calls)
    BY Zenon DEF FciInv, IdsInOrder
  <2>3. next # 0
    BY <2>1, <2>2 DEF Oldest, FciInv, MotionShapes
  <2> QED
    BY <2>1, <2>2, <2>3
<1>1. Places = {"starting", "aborted", "claiming", "stopping", "entering", "reading", "ending", "draining", "out",
                "polling", "started", "running", "finishing", "failed", "released", "cancelling", "drained"}
  BY DEF Places, AwaitsReply, AwaitsState, Between
<1>2. wanted \in {"idle"} \cup Kinds /\ up \in BOOLEAN /\ robot.finish \in BOOLEAN /\ robot.since \in Nat /\ "idle" \in {"idle"} \cup Kinds
      /\ IsRecord(robot)
  BY DEF MotionRest
<1>3. CASE StartReplied(u)
  BY <1>0, <1>1, <1>2, <1>3, ProcessMoves, UsersRest DEF StartReplied, world, bounds
<1>4. CASE StartDone(u) \/ PollState(u) \/ Cycle(u) \/ CallbackFails(u)
  <2>1. user' \in [Users -> Processes]
    BY <1>0, <1>1, <1>4, ProcessMoves DEF StartDone, PollState, Cycle, CallbackFails
  <2> QED
    BY <1>2, <1>4, <2>1, UsersRest DEF StartDone, PollState, Cycle, CallbackFails, world, bounds, tcp
<1>5. CASE PollReply(u) \/ AbortReplied(u) \/ StopReplied(u) \/ Broken(u)
  <2>1. user' \in [Users -> Processes]
    BY <1>0, <1>1, <1>5, ProcessMoves DEF PollReply, AbortReplied, StopReplied, Broken, Errs
  <2> QED
    BY <1>2, <1>5, <2>1, UsersRest DEF PollReply, AbortReplied, StopReplied, Broken, world, bounds, tcp
<1>6. CASE Finishing(u)
  <2>1. user' \in [Users -> Processes]
    BY <1>0, <1>1, <1>6, ProcessMoves DEF Finishing
  <2>2. robot'.finish \in BOOLEAN /\ robot'.since \in Nat /\ IsRecord(robot')
    <3>1. DOMAIN robot = {"move", "mode", "kind", "finish", "owed", "since"}
      BY Zenon DEF FciInv, MotionShapes
    <3>2. robot' = robot \/ robot' = [robot EXCEPT !.finish = robot.move # NoId]
      BY <1>6 DEF Finishing
    <3>3. ASSUME robot' = [robot EXCEPT !.finish = robot.move # NoId] PROVE robot'.finish \in BOOLEAN /\ robot'.since = robot.since /\ IsRecord(robot')
      <4>1. robot'.finish = (robot.move # NoId) /\ robot'.since = robot.since
        BY <3>1, <3>3
      <4>2. IsRecord(robot')
        BY <3>3, FieldsAreReplaced
      <4> QED
        BY <4>1, <4>2, Zenon
    <3> QED
      BY <1>2, <3>2, <3>3
  <2> QED
    BY <1>2, <1>6, <2>1, <2>2, UsersRest DEF Finishing, bounds, tcp
<1>7. CASE FinishReplied(u) \/ Finish(u) \/ Drained(u)
  <2>1. user' \in [Users -> Processes]
    BY <1>0, <1>1, <1>7, ProcessMoves DEF FinishReplied, Finish, Drained
  <2> QED
    BY <1>2, <1>7, <2>1, UsersRest DEF FinishReplied, Finish, Drained, world, bounds, tcp
<1>8. CASE Start(u)
  <2>1. PICK kind \in Kinds, api \in Apis :
           /\ wanted' = kind
           /\ user' = [user EXCEPT ![u] = [NoProcess EXCEPT !.at = "starting", !.api = api,
                                                            !.kind = kind, !.id = next]]
           /\ Request("move", kind)
    BY <1>8, Zenon DEF Start
  <2>2. next \in Ids
    <3>1. next <= 1 + 2 * moves + calls /\ moves < MaxMoves
      BY <1>8 DEF FciInv, IdsInOrder, Start
    <3> QED
      BY <1>0, <3>1, BoundsAssumption DEF Ids
  <2> DEFINE p == [NoProcess EXCEPT !.at = "starting", !.api = api, !.kind = kind, !.id = next]
  <2>3. p \in Processes
    <3>1. NoProcess \in Processes
      BY SMT DEF NoProcess, Processes, Places, Between, NoId
    <3>2. api \in {"none"} \cup Apis /\ kind \in {"idle"} \cup Kinds /\ next \in {NoId} \cup Ids /\ "starting" \in Places
      BY <1>1, <2>2
    <3> QED
      BY <3>1, <3>2 DEF Processes
  <2>4. user' \in [Users -> Processes]
    BY <2>1, <2>3, StillProcesses
  <2>5. requests' \in Seq([what : {"move", "stop", "recover"}, id : Nat, kind : {"idle"} \cup Kinds])
    BY <1>0, <2>1, RequestIs
  <2> QED
    BY <1>8, <2>1, <2>4, <2>5 DEF Start, world, MotionRest
<1>9. CASE StartRefused(u)
  <2> DEFINE p == [NoProcess EXCEPT !.result = "error"]
  <2>1. p \in Processes
    BY <1>1 DEF NoProcess, Processes, NoId
  <2>2. user' \in [Users -> Processes]
    BY <1>9, <2>1, StillProcesses DEF StartRefused
  <2> QED
    BY <1>2, <1>9, <2>2, UsersRest DEF StartRefused, world, bounds, tcp
<1>10. CASE Cancel(u)
  <2>1. CASE up
    <3>1. user' = [user EXCEPT ![u].at = "stopping", ![u].stop = next] /\ Request("stop", "idle")
      BY <1>10, <2>1 DEF Cancel
    <3>2. next \in Ids
      <4>1. user[u].at \notin {"out", "stopping", "draining", "drained"}
        BY <1>10 DEF Cancel, At
      <4> QED
        BY <1>0, <4>1, BoundsAssumption DEF Ids
    <3>3. user' \in [Users -> Processes]
      <4>1. "stopping" \in Places /\ next \in {NoId} \cup Ids /\ seen \in Nat \ {0} /\ "none" \in {"none", "ok", "error"}
        BY <1>0, <1>1, <3>2
      <4>2. [user EXCEPT ![u].at = "stopping", ![u].stop = next] \in [Users -> Processes]
        BY <4>1, ProcessGoes
      <4> QED
        BY <3>1, <4>2
    <3>4. requests' \in Seq([what : {"move", "stop", "recover"}, id : Nat, kind : {"idle"} \cup Kinds])
      BY <1>0, <1>2, <3>1, RequestIs
    <3> QED
      BY <1>2, <1>10, <3>3, <3>4 DEF Cancel, world, bounds, MotionRest
  <2>2. CASE ~up
    <3>1. Returns(u, "error") /\ UNCHANGED requests
      BY <1>10, <2>2 DEF Cancel
    <3>2. user' \in [Users -> Processes]
      BY <1>0, <3>1, ProcessMoves
    <3> QED
      BY <1>2, <1>10, <3>1, <3>2, UsersRest DEF Cancel, world, bounds
  <2> QED
    BY <2>1, <2>2
<1>11. CASE Received(u)
  <2>1. PICK n \in 1..Len(states), place \in Places : user' = [user EXCEPT ![u].from = n, ![u].at = place]
    <3>1. PICK n \in 1..Len(states) :
            LET aborted == states[n].mode # "move" \/ states[n].kind # wanted
            IN  user' = [user EXCEPT
                      ![u].from = n,
                      ![u].at = CASE @ = "entering" -> "polling"
                                  [] @ = "reading"  -> IF aborted THEN "aborted" ELSE "running"
                                  [] @ = "ending"   -> "finishing"
                                  [] @ = "draining" -> IF Running(states[n].kind) THEN @ ELSE "drained"]
      BY <1>11 DEF Received
    <3> DEFINE aborted == states[n].mode # "move" \/ states[n].kind # wanted
               was == user[u].at
               place == CASE was = "entering" -> "polling"
                          [] was = "reading"  -> IF aborted THEN "aborted" ELSE "running"
                          [] was = "ending"   -> "finishing"
                          [] was = "draining" -> IF Running(states[n].kind) THEN was ELSE "drained"
    <3>2. was \in AwaitsState
      BY <1>11 DEF Received
    <3>3. user' = [user EXCEPT ![u].from = n, ![u].at = place]
      <4>1. user \in [Users -> Processes]
        BY DEF MotionRest
      <4>2. [[user EXCEPT ![u].from = n] EXCEPT ![u].at = place] = user'
        BY <3>1, <4>1 DEF Processes
      <4> QED
        BY <4>2
    <3>4. place \in Places
      BY <1>1, <3>2 DEF AwaitsState
    <3> HIDE DEF place
    <3> QED
      BY <3>3, <3>4
  <2>2. n \in Nat \ {0}
    BY DEF MotionRest
  <2>3. user' \in [Users -> Processes]
    BY <2>1, <2>2, ProcessGoes
  <2> QED
    BY <1>2, <1>11, <2>3, UsersRest DEF Received, world, bounds, tcp
<1>12. CASE StateTimesOut(u)
  <2>1. user' = user
    BY <1>12 DEF StateTimesOut, client
  <2> QED
    BY <1>2, <1>12, <2>1 DEF StateTimesOut, client, world, bounds, tcp, MotionRest
<1>13. CASE Garbled(u)
  <2>1. user' \in [Users -> Processes]
    BY <1>0, <1>13, ProcessMoves DEF Garbled, Errs
  <2>2. troubles' \in 0..MaxTroubles
    BY <1>13, BoundsAssumption DEF Garbled, MotionRest
  <2>3. UNCHANGED <<wanted, requests, caller, up, robot, states, outcome>>
    BY <1>13 DEF Garbled
  <2> QED
    BY <1>2, <2>1, <2>2, <2>3, UsersRest
<1> QED
  BY <1>3, <1>4, <1>5, <1>6, <1>7, <1>8, <1>9, <1>10, <1>11, <1>12, <1>13 DEF Progress, Choice

LEMMA CallsRest ==
    ASSUME MotionRest, FciInv, NEW c \in Callers, Call(c) \/ CallReplied(c) \/ CallGarbled(c)
    PROVE  MotionRest'
<1>1. CASE Call(c)
  <2>1. PICK what \in {"stop", "recover"} : Request(what, "idle")
    BY <1>1 DEF Call
  <2>2. next \in Ids
    <3>1. /\ next \in Nat /\ next <= 1 + 2 * moves + calls /\ calls < MaxCalls /\ moves \in 0..MaxMoves
          /\ calls \in 0..MaxCalls
      BY <1>1 DEF FciInv, MotionShapes, IdsInOrder, Call
    <3>2. Oldest >= 1 /\ Oldest <= next
      BY DEF FciInv, MotionShapes, IdsInOrder, Oldest
    <3>3. next >= 1
      BY <3>1, <3>2 DEF Oldest, FciInv, MotionShapes
    <3> QED
      BY <3>1, <3>3, BoundsAssumption DEF Ids
  <2>3. caller' \in [Callers -> {NoId} \cup Ids]
    BY <1>1, <2>2 DEF Call, MotionRest
  <2>4. requests' \in Seq([what : {"move", "stop", "recover"}, id : Nat, kind : {"idle"} \cup Kinds])
    <3>1. what \in {"move", "stop", "recover"} /\ "idle" \in {"idle"} \cup Kinds /\ next \in Nat
      BY <2>2 DEF Ids
    <3> QED
      BY <2>1, <3>1, RequestIs
  <2> QED
    BY <1>1, <2>3, <2>4 DEF Call, world, MotionRest
<1>2. CASE CallReplied(c)
  <2>1. caller' \in [Callers -> {NoId} \cup Ids]
    BY <1>2 DEF CallReplied, MotionRest
  <2> QED
    BY <1>2, <2>1 DEF CallReplied, world, bounds, MotionRest
<1>3. CASE CallGarbled(c)
  <2>1. caller' \in [Callers -> {NoId} \cup Ids] /\ troubles' \in 0..MaxTroubles
    BY <1>3, BoundsAssumption DEF CallGarbled, MotionRest
  <2> QED
    BY <1>3, <2>1 DEF CallGarbled, world, MotionRest
<1> QED
  BY <1>1, <1>2, <1>3

\* What the robot does keeps the shapes.
LEMMA RobotRest ==
    ASSUME MotionRest, FciInv, Robot
    PROVE  MotionRest'
<1>0. /\ DOMAIN robot = {"move", "mode", "kind", "finish", "owed", "since"} /\ robot.move \in Nat
      /\ robot.move # NoId => robot.kind \in Kinds
      /\ robot.move = NoId => robot.kind = "idle"
      /\ robot.mode \in RobotModes /\ robot.finish \in BOOLEAN /\ robot.since \in Nat
      /\ outcome \in [Ids -> Ends \cup {"none"}] /\ states \in Seq(RobotStates)
      /\ requests \in Seq([what : {"move", "stop", "recover"}, id : Nat, kind : {"idle"} \cup Kinds])
      /\ robot.finish => robot.move # NoId
      /\ IsRecord(robot)
  <2>1. /\ DOMAIN robot = {"move", "mode", "kind", "finish", "owed", "since"} /\ robot.move \in Nat
        /\ robot.mode \in RobotModes
    BY Zenon DEF FciInv, MotionShapes
  <2>2. /\ robot.move # NoId => robot.kind \in Kinds
        /\ robot.move = NoId => robot.kind = "idle"
        /\ robot.finish => robot.move # NoId
    BY Zenon DEF FciInv, RobotIsConsistent
  <2> QED
    BY <2>1, <2>2, Zenon DEF MotionRest
<1>1. \A mode, messages :
          /\ Ended(mode, messages).finish = FALSE /\ Ended(mode, messages).since = robot.since
          /\ IsRecord(Ended(mode, messages))
  BY <1>0, RobotFields, Zenon
<1>2. \A i, end : end \in Ends => [outcome EXCEPT ![i] = end] \in [Ids -> Ends \cup {"none"}]
  BY <1>0
<1>3. "success" \in Ends /\ "preempted" \in Ends /\ "reflex" \in Ends /\ "rejected" \in Ends
  BY DEF Ends
<1> DEFINE Shaped == IsRecord(robot') /\ robot'.finish \in BOOLEAN /\ robot'.since \in Nat /\ outcome' \in [Ids -> Ends \cup {"none"}]
<1>4. CASE RobotTakes
  <2> DEFINE r == Head(requests)
  <2>1. requests' \in Seq([what : {"move", "stop", "recover"}, id : Nat, kind : {"idle"} \cup Kinds])
    BY <1>0, <1>4 DEF RobotTakes
  <2>2. Shaped
    <3>1. TakesMove(r) \/ TakesStop(r) \/ TakesRecovery(r)
      <4>1. r \in [what : {"move", "stop", "recover"}, id : Nat, kind : {"idle"} \cup Kinds]
        <5> DEFINE R == [what : {"move", "stop", "recover"}, id : Nat, kind : {"idle"} \cup Kinds]
        <5>1. requests \in Seq(R) /\ requests # <<>>
          BY <1>0, <1>4 DEF RobotTakes
        <5> HIDE DEF R
        <5>2. Head(requests) \in R
          BY <5>1
        <5> QED
          BY <5>2 DEF R
      <4>2. r.what \in {"move", "stop", "recover"}
        BY <4>1
      <4>3. CASE r.what = "move"
        BY <1>4, <4>3, Zenon DEF RobotTakes
      <4>4. CASE r.what = "stop"
        BY <1>4, <4>4, Zenon DEF RobotTakes
      <4>5. CASE r.what = "recover"
        BY <1>4, <4>5, Zenon DEF RobotTakes
      <4> QED
        BY <4>2, <4>3, <4>4, <4>5
    <3>2. CASE TakesMove(r)
      <4>1. CASE /\ robot' = [move |-> r.id, mode |-> "move", kind |-> r.kind, finish |-> FALSE,
                              owed |-> {Message(r.id, "started")}, since |-> Len(states)]
                 /\ UNCHANGED outcome
        <5>1. robot'.finish = FALSE /\ robot'.since = Len(states) /\ IsRecord(robot')
          BY <4>1 DEF IsRecord
        <5> QED
          BY <1>0, <4>1, <5>1
      <4>2. CASE /\ robot' = [robot EXCEPT !.owed = {Message(r.id, "rejected")}]
                 /\ outcome' = [outcome EXCEPT ![r.id] = "rejected"]
        <5>1. robot'.finish = robot.finish /\ robot'.since = robot.since /\ IsRecord(robot')
          BY <1>0, <4>2, RobotFields
        <5> QED
          BY <1>0, <1>2, <1>3, <4>2, <5>1
      <4> QED
        BY <3>2, <4>1, <4>2 DEF TakesMove
    <3>3. CASE TakesStop(r)
      <4>1. CASE /\ robot' = Ended("idle", {Message(r.id, "success"), Message(robot.move, "preempted")})
                 /\ outcome' = [outcome EXCEPT ![robot.move] = "preempted"]
        BY <1>0, <1>1, <1>2, <1>3, <4>1
      <4>2. CASE /\ robot' = [robot EXCEPT !.owed =
                                {Message(r.id, IF robot.mode = "idle" THEN "success" ELSE "rejected")}]
                 /\ UNCHANGED outcome
        <5>1. robot'.finish = robot.finish /\ robot'.since = robot.since /\ IsRecord(robot')
          BY <1>0, <4>2, RobotFields
        <5> QED
          BY <1>0, <4>2, <5>1
      <4> QED
        BY <3>3, <4>1, <4>2 DEF TakesStop
    <3>4. CASE TakesRecovery(r)
      <4>1. robot'.finish = robot.finish /\ robot'.since = robot.since /\ IsRecord(robot')
        BY <1>0, <3>4, RobotFields DEF TakesRecovery
      <4> QED
        BY <1>0, <3>4, <4>1 DEF TakesRecovery
    <3> QED
      BY <3>1, <3>2, <3>3, <3>4
  <2> QED
    BY <1>4, <2>1, <2>2 DEF RobotTakes, client, bounds, MotionRest
<1>5. CASE RobotReplies
  <2>1. robot'.finish = robot.finish /\ robot'.since = robot.since /\ IsRecord(robot')
    <3>1. PICK m \in robot.owed : robot' = [robot EXCEPT !.owed = robot.owed \ {m}]
      BY <1>5 DEF RobotReplies
    <3> QED
      BY <1>0, <3>1, RobotFields
  <2> QED
    BY <1>0, <1>5, <2>1 DEF RobotReplies, client, bounds, MotionRest
<1>6. CASE RobotFinishes
  BY <1>0, <1>1, <1>2, <1>3, <1>6 DEF RobotFinishes, client, bounds, tcp, MotionRest
<1>7. CASE RobotReflexes
  <2>1. Shaped
    <3>1. CASE robot.move # NoId
      <4>1. /\ robot' = Ended("reflex", {Message(robot.move, "reflex")})
            /\ outcome' = [outcome EXCEPT ![robot.move] = "reflex"]
        BY <1>7, <3>1 DEF RobotReflexes
      <4> QED
        BY <1>0, <1>1, <1>2, <1>3, <4>1
    <3>2. CASE robot.move = NoId
      <4>1. robot' = [robot EXCEPT !.mode = "reflex"] /\ UNCHANGED outcome
        BY <1>7, <3>2 DEF RobotReflexes
      <4>2. robot'.finish = robot.finish /\ robot'.since = robot.since /\ IsRecord(robot')
        BY <1>0, <4>1, RobotFields
      <4> QED
        BY <1>0, <4>1, <4>2
    <3> QED
      BY <3>1, <3>2
  <2>2. troubles' \in 0..MaxTroubles
    BY <1>7, BoundsAssumption DEF RobotReflexes, MotionRest
  <2> QED
    BY <1>7, <2>1, <2>2 DEF RobotReflexes, client, tcp, MotionRest
<1>8. CASE RobotShows
  <2>1. Truth \in RobotStates
    BY <1>0 DEF Truth, RobotStates
  <2>2. states' \in Seq(RobotStates)
    BY <1>0, <1>8, <2>1 DEF RobotShows
  <2> QED
    BY <1>8, <2>2 DEF RobotShows, client, bounds, tcp, MotionRest
<1> QED
  BY <1>4, <1>5, <1>6, <1>7, <1>8 DEF Robot

LEMMA RestSteps == MotionRest /\ FciInv /\ [Next]_vars => MotionRest'
<1> SUFFICES ASSUME MotionRest, FciInv, [Next]_vars PROVE MotionRest'
  OBVIOUS
<1>1. CASE UNCHANGED vars
  BY <1>1 DEF vars, client, bounds, tcp, world, MotionRest
<1>2. CASE Reads \/ ReadOnce \/ ConnectionLost
  <2>1. /\ UNCHANGED <<wanted, user, caller, bounds, requests, world>> /\ (up' = up \/ up' = FALSE)
    BY <1>2 DEF Reads, ReadsOn, ReadOnce, ConnectionLost, client, tcp
  <2> QED
    BY <2>1 DEF bounds, world, MotionRest
<1> QED
  BY <1>1, <1>2, UserStepsRest, CallsRest, RobotRest DEF Next

\* With the invariant that is every variable's type.
LEMMA MotionIsTyped == MotionRest /\ FciInv => TypeOK
<1> SUFFICES ASSUME MotionRest, FciInv PROVE TypeOK
  OBVIOUS
<1>1. /\ lock \in Users \cup {NoUser} /\ seen \in Nat \ {0} /\ seen <= Len(states) /\ next \in Nat
      /\ moves \in 0..MaxMoves /\ calls \in 0..MaxCalls
      /\ replies \in Seq(Messages) /\ received \subseteq Messages /\ abandoned \subseteq Ids
      /\ DOMAIN robot = {"move", "mode", "kind", "finish", "owed", "since"}
      /\ robot.owed \subseteq Messages /\ robot.move \in Nat /\ robot.mode \in RobotModes
  BY Zenon DEF FciInv, MotionShapes
<1>2. /\ Oldest >= 1 /\ robot.move < Oldest /\ next <= 1 + 2 * moves + calls
      /\ \A i \in 1..Len(requests) : requests[i].id = Oldest + i - 1
  BY Zenon DEF FciInv, IdsInOrder
<1>3. /\ requests \in Seq([what : {"move", "stop", "recover"}, id : Nat, kind : {"idle"} \cup Kinds])
      /\ Len(requests) \in Nat /\ Oldest = next - Len(requests)
  BY DEF MotionRest, Oldest
<1>4. \A i \in Nat : i >= 1 /\ i < next => i \in Ids
  BY <1>1, <1>2, BoundsAssumption DEF Ids
<1>5. \A m \in Pipe : m.id < Oldest
  BY Zenon DEF FciInv, PipeIsRight
<1>6. \A m \in Messages : m.id < Oldest => m \in [id : Ids, status : Statuses]
  <2> SUFFICES ASSUME NEW m \in Messages, m.id < Oldest PROVE m \in [id : Ids, status : Statuses]
    OBVIOUS
  <2>1. m.id \in Nat \ {0} /\ m \in [id : Nat \ {0}, status : Statuses]
    BY DEF Messages
  <2>2. m.id \in Ids
    BY <1>1, <1>3, <1>4, <2>1
  <2> QED
    BY <2>1, <2>2
<1>7. received \subseteq [id : Ids, status : Statuses] /\ robot.owed \subseteq [id : Ids, status : Statuses]
  BY <1>1, <1>5, <1>6 DEF Pipe
<1>8. replies \in Seq([id : Ids, status : Statuses])
  <2>1. \A j \in 1..Len(replies) : replies[j] \in [id : Ids, status : Statuses]
    <3> SUFFICES ASSUME NEW j \in 1..Len(replies) PROVE replies[j] \in [id : Ids, status : Statuses]
      OBVIOUS
    <3>1. replies[j] \in Pipe /\ replies[j] \in Messages
      BY <1>1 DEF Pipe, InReplies
    <3> QED
      BY <1>5, <1>6, <3>1
  <2> QED
    BY <1>1, <2>1, SeqOfTyped
<1>9. requests \in Seq([what : {"move", "stop", "recover"}, id : Ids, kind : {"idle"} \cup Kinds])
  <2>1. \A i \in 1..Len(requests) :
          requests[i] \in [what : {"move", "stop", "recover"}, id : Ids, kind : {"idle"} \cup Kinds]
    <3> SUFFICES ASSUME NEW i \in 1..Len(requests)
                 PROVE  requests[i] \in [what : {"move", "stop", "recover"}, id : Ids, kind : {"idle"} \cup Kinds]
      OBVIOUS
    <3>1. requests[i] \in [what : {"move", "stop", "recover"}, id : Nat, kind : {"idle"} \cup Kinds]
      <4> DEFINE R == [what : {"move", "stop", "recover"}, id : Nat, kind : {"idle"} \cup Kinds]
      <4>1. requests \in Seq(R)
        BY <1>3
      <4> HIDE DEF R
      <4>2. requests[i] \in R
        BY <4>1
      <4> QED
        BY <4>2 DEF R
    <3>2. requests[i].id \in Ids
      BY <1>1, <1>2, <1>3, <1>4
    <3> QED
      BY <3>1, <3>2
  <2> DEFINE R == [what : {"move", "stop", "recover"}, id : Nat, kind : {"idle"} \cup Kinds]
             Q == [what : {"move", "stop", "recover"}, id : Ids, kind : {"idle"} \cup Kinds]
  <2>2. requests \in Seq(R) /\ \A i \in 1..Len(requests) : requests[i] \in Q
    BY <1>3, <2>1
  <2> HIDE DEF R, Q
  <2>3. requests \in Seq(Q)
    BY <2>2, SeqOfTyped
  <2> QED
    BY <2>3 DEF Q
<1>10. robot \in [move : {NoId} \cup Ids, mode : RobotModes, kind : {"idle"} \cup Kinds, finish : BOOLEAN,
                  owed : SUBSET [id : Ids, status : Statuses], since : Nat]
  <2>1. robot.move \in {NoId} \cup Ids
    BY <1>1, <1>2, <1>3, <1>4 DEF NoId
  <2>2. robot.kind \in {"idle"} \cup Kinds
    BY Zenon DEF FciInv, RobotIsConsistent
  <2>3. robot.finish \in BOOLEAN /\ robot.since \in Nat
    BY DEF MotionRest
  <2>4. robot.owed \in SUBSET [id : Ids, status : Statuses]
    BY <1>7
  <2>5. robot = [move |-> robot.move, mode |-> robot.mode, kind |-> robot.kind, finish |-> robot.finish,
                 owed |-> robot.owed, since |-> robot.since]
    <3>1. robot = [f \in {"move", "mode", "kind", "finish", "owed", "since"} |-> robot[f]]
      BY <1>1, Zenon DEF MotionRest, IsRecord
    <3> QED
      BY <3>1
  <2> QED
    BY <1>1, <2>1, <2>2, <2>3, <2>4, <2>5
<1>11. seen \in 1..Len(states) /\ next # 0
  BY <1>1, <1>2, <1>3 DEF MotionRest
<1> QED
  BY <1>1, <1>7, <1>8, <1>9, <1>10, <1>11 DEF MotionRest, TypeOK

-----------------------------------------------------------------------------
(* The types of the program's locks and of the worker's place. *)

WorkerPlaces == {"locking", "checking", "asleep", "dozing", "publishing", "setting", "gone"}
LockNames == {"gil", "follow", "control"}
Holders == PyThreads \cup {Feeder, NobodyHolds}
PyRest == pyLocks \in [LockNames -> Holders] /\ feeder.at \in WorkerPlaces

LEMMA PyRestBegins == PyArmInit => PyRest
  BY DEF PyArmInit, PyRest, LockNames, Holders, WorkerPlaces

LEMMA LocksTyped ==
    ASSUME PyRest, NEW who \in Holders, NEW name \in LockNames, NEW kept
    PROVE  /\ Takes(name, who) => pyLocks' \in [LockNames -> Holders]
           /\ pyLocks' = Without(who, kept) => pyLocks' \in [LockNames -> Holders]
           /\ UNCHANGED pyLocks => pyLocks' \in [LockNames -> Holders]
<1>1. NobodyHolds \in Holders /\ pyLocks \in [LockNames -> Holders]
  BY DEF Holders, PyRest
<1>2. Takes(name, who) => pyLocks' \in [LockNames -> Holders]
  BY <1>1 DEF Takes
<1>3. pyLocks' = Without(who, kept) => pyLocks' \in [LockNames -> Holders]
  BY <1>1 DEF Without
<1> QED
  BY <1>1, <1>2, <1>3

LEMMA PyRestSteps == PyRest /\ PyShapes /\ [PyArmNext]_pyArmVars => PyRest'
<1> SUFFICES ASSUME PyRest, PyShapes, [PyArmNext]_pyArmVars PROVE PyRest'
  OBVIOUS
<1>0. /\ DOMAIN feeder = {"at", "until"} /\ feeder.at \in WorkerPlaces /\ Feeder \in Holders
      /\ "gil" \in LockNames /\ "follow" \in LockNames /\ "control" \in LockNames
      /\ \A t \in PyThreads : t \in Holders
  BY DEF PyShapes, PyRest, Holders, LockNames
<1>1. ASSUME NEW place \in WorkerPlaces, feeder' = [feeder EXCEPT !.at = place] PROVE feeder'.at \in WorkerPlaces
  BY <1>0, <1>1
<1>2. CASE UNCHANGED pyArmVars \/ PyLoopEnds \/ PyTick
  <2>1. feeder' = feeder /\ pyLocks' = pyLocks
    BY <1>2 DEF pyArmVars, PyLoopEnds, PyTick
  <2> QED
    BY <2>1 DEF PyRest
<1>3. CASE FeederLocks \/ FeederChecks \/ FeederWakes \/ FeederTakesControl \/ FeederSets
  <2>1. feeder'.at \in WorkerPlaces
    <3>1. \/ \E place \in WorkerPlaces : feeder' = [feeder EXCEPT !.at = place]
          \/ \E until : feeder' = [at |-> "dozing", until |-> until]
      BY <1>3 DEF FeederLocks, FeederChecks, FeederWakes, FeederTakesControl, FeederSets, WorkerPlaces
    <3>2. ASSUME NEW until, feeder' = [at |-> "dozing", until |-> until] PROVE feeder'.at \in WorkerPlaces
      BY <3>2 DEF WorkerPlaces
    <3> QED
      BY <1>1, <3>1, <3>2
  <2>2. \/ UNCHANGED pyLocks \/ Takes("follow", Feeder) \/ Takes("control", Feeder)
        \/ \E kept : pyLocks' = Without(Feeder, kept)
    BY <1>3, Zenon DEF FeederLocks, FeederChecks, FeederWakes, FeederTakesControl, FeederSets
  <2>3. pyLocks' \in [LockNames -> Holders]
    BY <1>0, <2>2, LocksTyped, Zenon
  <2> QED
    BY <2>1, <2>3 DEF PyRest
<1>4. ASSUME NEW t \in PyThreads,
             \/ \E op \in {"move", "look", "stop"} : PyCall(t, op, <<>>)
             \/ \E c \in PyChunks : PyCall(t, "follow", c)
             \/ TakesNext(t) \/ Update(t) \/ Follow(t) \/ Look(t) \/ Take(t) \/ Notify(t) \/ Join(t) \/ GoesBack(t)
      PROVE  PyRest'
  <2>1. feeder' = feeder \/ feeder' = [feeder EXCEPT !.at = "locking"]
    BY <1>4, Zenon DEF PyCall, TakesNext, Update, Follow, Look, Take, Notify, Awoken, Join, GoesBack
  <2>2. feeder'.at \in WorkerPlaces
    BY <1>0, <1>1, <2>1 DEF WorkerPlaces
  <2>3. \/ UNCHANGED pyLocks \/ TakesNext(t)
        \/ \E kept : pyLocks' = Without(t, kept)
    BY <1>4, Zenon DEF PyCall, Update, Follow, Look, Take, Notify, Join, GoesBack, CallReturns
  <2>4. TakesNext(t) => \E name \in LockNames : Takes(name, t)
    <3> SUFFICES ASSUME TakesNext(t) PROVE \E name \in LockNames : Takes(name, t)
      OBVIOUS
    <3>1. /\ pyCalls[t].at = "locking" /\ pyCalls[t].taken < Len(LocksOf(pyCalls[t].op))
          /\ Takes(LocksOf(pyCalls[t].op)[pyCalls[t].taken + 1], t)
      BY Zenon DEF TakesNext
    <3>2. pyCalls[t].op \in {"move", "look", "stop", "follow"} /\ pyCalls[t].taken \in 0..3
      BY <3>1 DEF PyShapes
    <3>3. LocksOf(pyCalls[t].op)[pyCalls[t].taken + 1] \in LockNames
      BY <3>1, <3>2, NextLock DEF LockNames
    <3> QED
      BY <3>1, <3>3
  <2>5. pyLocks' \in [LockNames -> Holders]
    BY <1>0, <2>3, <2>4, LocksTyped, Zenon
  <2> QED
    BY <2>2, <2>5 DEF PyRest
<1> QED
  BY <1>2, <1>3, <1>4 DEF PyArmNext

LEMMA ProgramIsTyped == PyArmInv /\ PyRest => PyArmTypeOK
<1> SUFFICES ASSUME PyArmInv, PyRest PROVE PyArmTypeOK
  OBVIOUS
<1>1. chunk.next \in Nat /\ chunk.ticket \in Nat
  BY DEF PyArmInv, PyShapes
<1>2. control.takers \in 0..1
  BY DEF PyArmInv, StopIsFinal
<1> QED
  BY <1>1, <1>2 DEF PyRest, PyArmTypeOK, WorkerPlaces, LockNames, Holders

-----------------------------------------------------------------------------
(* The types of the other parts. *)

SimRest == environ \in [Binaries -> Environments]

LEMMA SimRestSteps == SimRest /\ [SimNext]_simVars => SimRest'
<1> SUFFICES ASSUME SimRest, [SimNext]_simVars PROVE SimRest'
  OBVIOUS
<1>1. environ' = environ
  BY DEF SimNext, simVars, TakeLock, LookAtPorts, LookAtNames, RunDocker, WaitReady, FailReady, DropServer,
         DropGuard, ServerStarts, ServerDies
<1> QED
  BY <1>1 DEF SimRest

LEMMA OthersAreTyped ==
    /\ SimInv /\ SimRest => SimTypeOK
    /\ ConfigInv => ConfigTypeOK
<1>1. ASSUME SimInv, SimRest PROVE SimTypeOK
  BY <1>1 DEF SimInv, SimShapes, SimRest, SimPlaces, SimTypeOK
<1>2. ASSUME ConfigInv PROVE ConfigTypeOK
  BY <1>2 DEF ConfigInv, StartInv, ConfigTypeOK
<1> QED
  BY <1>1, <1>2

-----------------------------------------------------------------------------
(* The theorems. *)

(* A program's threads and its feeder share an arm: the feeder never       *)
(* sleeps past a row that is due, a stop is final, and nobody waits in a   *)
(* ring of locks and the GIL (franka-py, target control).                  *)
THEOREM ProgramIsSafe == MotionsSpec => []ProgramSafety
<1>1. MotionsInit => PyArmInv
  BY PyArmBegins DEF MotionsInit
<1>2. [MotionsNext]_motionsVars => [PyArmNext]_pyArmVars
  BY DEF MotionsNext, motionsVars
<1>3. PyArmInv => ProgramSafety
  BY PyArmHolds DEF ProgramSafety
<1> QED
  BY <1>1, <1>2, <1>3, PyArmSteps, PTL DEF MotionsSpec

(* A test drives the simulator it started, one test of a binary at a time, *)
(* and what it started is gone when it is over (franka-sim-test).          *)
THEOREM HarnessIsSafe == MotionsSpec => [](part = "harness" => HarnessSafety)
<1> DEFINE Inv == part = "harness" => SimInv
<1>1. MotionsInit => Inv
  BY SimBegins DEF MotionsInit
<1>2. Inv /\ [MotionsNext]_motionsVars => Inv'
  <2>1. [MotionsNext]_motionsVars => [SimNext]_simVars /\ part' = part
    BY DEF MotionsNext, motionsVars
  <2> QED
    BY <2>1, SimSteps
<1>3. Inv => (part = "harness" => HarnessSafety)
  BY SimHolds DEF HarnessSafety
<1> QED
  BY <1>1, <1>2, <1>3, PTL DEF MotionsSpec

(* An accepted configuration starts every session of it, as the gate and   *)
(* the loop agree on it; a start is whole or nothing; what a tuning does   *)
(* not name keeps its value (franka-node config.rs, target/options.rs,     *)
(* tuning/mod.rs).                                                         *)
THEOREM ConfigurationsStart == MotionsSpec => [](part = "config" => ConfigSafety)
<1> DEFINE Inv == part = "config" => ConfigInv
<1>1. MotionsInit => Inv
  BY ConfigBegins DEF MotionsInit
<1>2. Inv /\ [MotionsNext]_motionsVars => Inv'
  <2>1. [MotionsNext]_motionsVars => [ConfigNext]_configVars /\ part' = part
    BY DEF MotionsNext, motionsVars
  <2> QED
    BY <2>1, ConfigSteps
<1>3. Inv => (part = "config" => ConfigSafety)
  BY ConfigHolds
<1> QED
  BY <1>1, <1>2, <1>3, PTL DEF MotionsSpec

(* A client of the live parameters is told what the gate does: a set whose *)
(* values the schema admits is taken, none of them clamped; what a set     *)
(* does not carry keeps its value, but a damping raised to its floor; a    *)
(* set sent again changes nothing; what is reported of a budget's way down *)
(* is what the loop has left of it (franka-node params, tuning).           *)
THEOREM ParametersAreAsTold == MotionsSpec => [](part = "wire" => WireSafety)
<1> DEFINE Inv == part = "wire" => WireInv
<1>1. MotionsInit => Inv
  BY WireBegins DEF MotionsInit
<1>2. Inv /\ [MotionsNext]_motionsVars => Inv'
  <2>1. [MotionsNext]_motionsVars => [WireNext]_wireVars /\ part' = part
    BY DEF MotionsNext, motionsVars
  <2> QED
    BY <2>1, WireSteps
<1>3. Inv => (part = "wire" => WireSafety)
  BY WireHolds DEF WireSafety
<1> QED
  BY <1>1, <1>2, <1>3, PTL DEF MotionsSpec

(* A loop that returned ok had its motion end with success, and once the   *)
(* control lock is free the robot runs no motion of this client, whatever  *)
(* ended the control process (motion.rs, commands.rs, active_control.rs).  *)
(* It needs one control process at a time: with two handles, one that gave *)
(* its lock back may still act (the run FciStaleHandle).                   *)
THEOREM MotionsAreSettled == OneAtATime => (MotionsSpec => []MotionIsSettled)
<1> SUFFICES ASSUME OneAtATime PROVE MotionsSpec => []MotionIsSettled
  OBVIOUS
<1>1. MotionsInit => FciInv
  BY FciBegins DEF MotionsInit
<1>2. [MotionsNext]_motionsVars => [Next]_vars
  BY DEF MotionsNext, motionsVars
<1>3. FciInv /\ [Next]_vars => FciInv'
  BY FciSteps
<1> QED
  BY <1>1, <1>2, <1>3, FciHolds, PTL DEF MotionsSpec

(* Who drives an arm can rely on what it was told, whichever side of a     *)
(* session is looked at: all of the above at once, under that hypothesis.  *)
THEOREM MotionsDriveSafely == OneAtATime => (MotionsSpec => []DrivingIsSafe)
<1> SUFFICES ASSUME OneAtATime PROVE MotionsSpec => []DrivingIsSafe
  OBVIOUS
<1>1. MotionIsSettled /\ (part = "config" => ConfigSafety) /\ ProgramSafety /\ (part = "wire" => WireSafety)
      /\ (part = "harness" => HarnessSafety) => DrivingIsSafe
  BY Zenon DEF DrivingIsSafe
<1> QED
  BY <1>1, MotionsAreSettled, ConfigurationsStart, ProgramIsSafe, ParametersAreAsTold, HarnessIsSafe, PTL

(* The accepted robot state is never followed by an older one              *)
(* (receive_robot_state), and the target of a program's arm goes forward   *)
(* through the chunks it was given, under the same hypothesis.             *)
THEOREM NothingIsUndone == OneAtATime => (MotionsSpec => NothingGoesBack)
<1> SUFFICES ASSUME OneAtATime PROVE MotionsSpec => NothingGoesBack
  OBVIOUS
<1>1. MotionsInit => FciInv /\ PyArmInv
  BY FciBegins, PyArmBegins DEF MotionsInit
<1>2. [MotionsNext]_motionsVars => [Next]_vars /\ [PyArmNext]_pyArmVars
  BY DEF MotionsNext, motionsVars
<1>3. FciInv /\ [Next]_vars => FciInv' /\ [seen' >= seen]_vars
  BY FciSteps
<1> QED
  BY <1>1, <1>2, <1>3, PyArmSteps, AimGoesOn, PTL DEF MotionsSpec, NothingGoesBack, StatesNeverGoBack, AimNeverGoesBack

(* Every part's state is of its type, whichever of them moves; the motion's under the same        *)
(* hypothesis, which its numbering of the requests needs.                                         *)
THEOREM MotionsAreTyped == OneAtATime => (MotionsSpec => []MotionsTypeOK)
<1> SUFFICES ASSUME OneAtATime PROVE MotionsSpec => []MotionsTypeOK
  OBVIOUS
<1> DEFINE Inv == /\ FciInv /\ MotionRest /\ PyArmInv /\ PyRest
                  /\ part = "config" => ConfigInv
                  /\ part = "wire" => WireInv
                  /\ part = "harness" => SimInv /\ SimRest
<1>1. MotionsInit => Inv
  <2> SUFFICES ASSUME MotionsInit PROVE Inv
    OBVIOUS
  <2>1. part = "harness" => SimInit /\ SimRest
    BY DEF MotionsInit, SimInit, SimRest
  <2> QED
    BY <2>1, FciBegins, RestBegins, PyArmBegins, PyRestBegins, ConfigBegins, WireBegins, SimBegins DEF MotionsInit
<1>2. Inv /\ [MotionsNext]_motionsVars => Inv'
  <2>1. [MotionsNext]_motionsVars => /\ [Next]_vars /\ [PyArmNext]_pyArmVars /\ [ConfigNext]_configVars
                                     /\ [WireNext]_wireVars /\ [SimNext]_simVars /\ part' = part
    BY DEF MotionsNext, motionsVars
  <2>2. PyArmInv => PyShapes
    BY DEF PyArmInv
  <2> QED
    BY <2>1, <2>2, FciSteps, RestSteps, PyArmSteps, PyRestSteps, ConfigSteps, WireSteps, SimSteps, SimRestSteps
<1>3. Inv => MotionsTypeOK
  BY MotionIsTyped, ProgramIsTyped, OthersAreTyped, WireHolds DEF MotionsTypeOK
<1> QED
  BY <1>1, <1>2, <1>3, PTL DEF MotionsSpec
=============================================================================
