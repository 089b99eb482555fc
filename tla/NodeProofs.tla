----------------------------- MODULE NodeProofs -----------------------------
(***************************************************************************)
(* Proofs about the parts of an arm's node beside its state machine: the   *)
(* gate of its targets, the driver of its gripper, the life of the whole,  *)
(* live tuning, the recording of sessions and the flight recorder, for     *)
(* every value of their constants.                                         *)
(*                                                                         *)
(* One part moves in a behaviour of MCNode, and each has an inductive      *)
(* invariant of its own; a step of the composition is a step of the part   *)
(* or leaves it alone.                                                     *)
(***************************************************************************)
EXTENDS MCNode, FiniteSetTheorems, WellFoundedInduction, TLAPS

-----------------------------------------------------------------------------
(* The gate. *)

PassedTargets == [seq : Nat, t : Nat]
GateType ==
    /\ gate \in [holder : GateClients, last : Nat, previous : Places, tokens : 0..Depth,
                 refilled : 0..now, other : BOOLEAN]
    /\ now \in Nat /\ place \in Int /\ snapshot \in Int /\ wire \subseteq Targets /\ coast \in Nat
    /\ passed \in Seq(PassedTargets)
    /\ DOMAIN pushes = {"left", "unseen", "since"}

\* The last accepted target is the newest, and accepted no later than the last refill.
PassedBefore ==
    \A i \in DOMAIN passed : passed[i].seq <= gate.last /\ passed[i].t <= gate.refilled

\* What that many targets cost.
Cost(targets) == targets * Second

\* What was let through since a target and what may still be at the last refill.
TokensLeft ==
    \A i \in DOMAIN passed :
      Cost(Len(passed) - i + 1) + gate.tokens <= Depth + Rate * (gate.refilled - passed[i].t)

\* The bucket is full, or what it lacks was spent since some target.
TokensKept ==
    gate.tokens = Depth \/
      \E i \in DOMAIN passed :
        Cost(Len(passed) - i + 1) + gate.tokens >= Depth + Rate * (gate.refilled - passed[i].t)

\* The loop has taken the arm no further from the snapshot than it gets in a state tick.
SeenAbout == ~pushes.unseen => Abs(place - snapshot) <= MaxTravel

\* The way to the last accepted target and the way gone since are within the lead and a tick's way.
WithinLead ==
    kind = "cartesian" /\ MaxLead > 0 /\ ~pushes.since =>
      Abs(gate.previous - place) + coast <= MaxLead + MaxTravel

GateInv ==
    /\ GateType /\ PassedBefore /\ AcceptedInOrder /\ TokensLeft /\ TokensKept /\ RateBounded
    /\ SeenAbout /\ WithinLead

\* Of two numbers Min is one, and no larger than either.
LEMMA MinOfTwo ==
    ASSUME NEW a \in Int, NEW b \in Int
    PROVE  Min({a, b}) \in {a, b} /\ Min({a, b}) <= a /\ Min({a, b}) <= b
<1>1. \E x \in {a, b} : \A y \in {a, b} : x <= y
  <2>1. CASE a <= b
    BY <2>1
  <2>2. CASE b <= a
    BY <2>2
  <2> QED
    BY <2>1, <2>2
<1> QED
  BY <1>1 DEF Min

\* Refills of two spells of time are those of both.
LEMMA RefillsAdd ==
    ASSUME NEW r \in Nat, NEW s \in Int, NEW t \in Int
    PROVE  r * (s + t) = r * s + r * t
  OBVIOUS

\* A target costs a second's parts.
LEMMA CostAdds ==
    ASSUME NEW k \in Int
    PROVE  Cost(k) \in Int /\ Cost(k + 1) = Cost(k) + Second /\ Cost(0) = 0 /\ Cost(1) = Second
<1>1. Second \in Nat
  BY GateAssumption
<1> QED
  BY <1>1 DEF Cost

\* Two targets fit into the bucket, at a rate that is not zero one at least.
LEMMA BucketHolds == Depth \in Nat /\ (Rate > 0 => Depth >= Second)
<1>1. Second \in Nat /\ Rate \in Nat
  BY GateAssumption
<1>2. Depth = (2 * Rate) * Second
  BY DEF Depth
<1>3. \A r \in Nat : r * Second \in Nat /\ (r > 0 => r * Second >= Second)
  BY <1>1
<1>4. 2 * Rate \in Nat /\ (Rate > 0 => 2 * Rate > 0)
  BY <1>1
<1> QED
  BY <1>2, <1>3, <1>4

\* A refill never takes tokens away, and gives the time's or what fills the bucket.
LEMMA RefillBounds ==
    ASSUME GateType
    PROVE  /\ Refilled \in 0..Depth
           /\ Refilled <= gate.tokens + Rate * (now - gate.refilled)
           /\ Refilled = Depth \/ Refilled = gate.tokens + Rate * (now - gate.refilled)
<1> DEFINE gained == Rate * (now - gate.refilled)
<1>1. /\ Rate \in Nat /\ Depth \in Nat /\ gate.tokens \in 0..Depth
      /\ now \in Nat /\ gate.refilled \in 0..now
  BY GateAssumption, BucketHolds DEF GateType
<1>2. gained \in Nat
  BY <1>1
<1> HIDE DEF gained
<1> DEFINE sum == gate.tokens + gained
<1>3. sum \in Nat
  BY <1>1, <1>2
<1>4. Refilled = Min({sum, Depth})
  BY DEF Refilled, gained
<1> HIDE DEF sum, Depth
<1>5. Min({sum, Depth}) \in {sum, Depth} /\ Min({sum, Depth}) <= sum /\ Min({sum, Depth}) <= Depth
  BY <1>1, <1>3, MinOfTwo
<1>6. Refilled \in 0..Depth
  BY <1>1, <1>3, <1>4, <1>5
<1>7. Refilled <= sum /\ (Refilled = Depth \/ Refilled = sum)
  BY <1>4, <1>5
<1> QED
  BY <1>6, <1>7 DEF gained, sum

\* A gate that is made has let nothing through.
LEMMA GateInitially == GateInit => GateInv
<1> SUFFICES ASSUME GateInit PROVE GateInv
  OBVIOUS
<1>1. /\ place \in Int /\ place \in Places /\ MaxLead \in Nat /\ MaxTravel \in Nat /\ Depth \in Nat
      /\ Commander \in GateClients /\ snapshot = place
  BY GateAssumption, BucketHolds DEF GateInit, GateClients
<1>2. /\ gate \in [holder : {Commander}, last : {0}, previous : {place}, tokens : {Depth},
                    refilled : {0}, other : BOOLEAN]
      /\ now = 0 /\ wire = {} /\ passed = <<>> /\ coast = 0
      /\ pushes \in [left : 0..MaxPushes, unseen : {FALSE}, since : {FALSE}]
  BY DEF GateInit
<1>3. GateType
  BY <1>1, <1>2 DEF GateType
<1>4. WithinLead /\ SeenAbout
  BY <1>1, <1>2 DEF WithinLead, SeenAbout, Abs
<1>5. PassedBefore /\ AcceptedInOrder /\ TokensLeft /\ TokensKept /\ RateBounded
  BY <1>2 DEF PassedBefore, AcceptedInOrder, TokensLeft, TokensKept, RateBounded
<1> QED
  BY <1>3, <1>4, <1>5 DEF GateInv

\* The gate's steps keep its invariant.
LEMMA GateStep == GateInv /\ [GateNext]_gateVars => GateInv'
<1> SUFFICES ASSUME GateInv, [GateNext]_gateVars PROVE GateInv'
  OBVIOUS
<1> USE DEF GateInv
<1>0. /\ Places \subseteq Int /\ MaxLead \in Nat /\ MaxTravel \in Nat /\ Rate \in Nat /\ Depth \in Nat
      /\ MaxTargetSeq \in Nat /\ Second \in Nat
  BY GateAssumption, BucketHolds
<1>s. /\ passed \in Seq(PassedTargets) /\ Len(passed) \in Nat
      /\ DOMAIN passed = 1..Len(passed)
  BY DEF GateType
<1>g. /\ gate.holder \in GateClients /\ gate.last \in Nat /\ gate.previous \in Places
      /\ gate.tokens \in 0..Depth /\ gate.refilled \in 0..now
  BY DEF GateType
<1>t. /\ gate.holder \in GateClients /\ gate.last \in Nat /\ gate.previous \in Places
      /\ gate.tokens \in 0..Depth /\ gate.refilled \in 0..now /\ gate.previous \in Int
      /\ now \in Nat /\ place \in Int /\ snapshot \in Int /\ wire \subseteq Targets /\ coast \in Nat
      /\ passed \in Seq(PassedTargets) /\ Len(passed) \in Nat
      /\ DOMAIN passed = 1..Len(passed)
  BY <1>0, <1>s, <1>g DEF GateType
<1>e. \A i \in DOMAIN passed : passed[i].seq \in Nat /\ passed[i].t \in Nat
  <2> SUFFICES ASSUME NEW i \in DOMAIN passed
               PROVE  passed[i].seq \in Nat /\ passed[i].t \in Nat
    OBVIOUS
  <2>1. passed[i] \in PassedTargets
    BY <1>t
  <2> QED
    BY <2>1 DEF PassedTargets
<1>r. /\ Refilled \in 0..Depth
      /\ Refilled <= gate.tokens + Rate * (now - gate.refilled)
      /\ Refilled = Depth \/ Refilled = gate.tokens + Rate * (now - gate.refilled)
  BY RefillBounds
<1>c. \A k \in Int : Cost(k) \in Int /\ Cost(k + 1) = Cost(k) + Second
  BY CostAdds
\* The refills until the last refill and those since are those until now.
<1>a. \A i \in DOMAIN passed :
        /\ Rate * (gate.refilled - passed[i].t) \in Int /\ Rate * (now - gate.refilled) \in Nat
        /\ Rate * (now - passed[i].t) = Rate * (gate.refilled - passed[i].t) + Rate * (now - gate.refilled)
  <2> SUFFICES ASSUME NEW i \in DOMAIN passed
               PROVE  /\ Rate * (gate.refilled - passed[i].t) \in Int /\ Rate * (now - gate.refilled) \in Nat
                      /\ Rate * (now - passed[i].t) = Rate * (gate.refilled - passed[i].t) + Rate * (now - gate.refilled)
    OBVIOUS
  <2> DEFINE before == gate.refilled - passed[i].t
             since == now - gate.refilled
  <2>1. before \in Int /\ since \in Nat /\ now - passed[i].t = before + since
    BY <1>t, <1>e, <1>0
  <2> HIDE DEF before, since
  <2>2. Rate * before \in Int /\ Rate * since \in Nat /\ Rate * (before + since) = Rate * before + Rate * since
    BY <2>1, <1>0, RefillsAdd
  <2> QED
    BY <2>1, <2>2 DEF before, since
<1>n. Refilled \in Nat /\ gate.refilled \in Nat /\ gate.tokens \in Nat
  BY <1>0, <1>t, <1>r
<1>1. ASSUME NEW m \in wire, Accept(m) PROVE GateInv'
  <2> DEFINE n == Len(passed)
             new == [seq |-> m.seq, t |-> now]
  <2>0. /\ FromTheCommander(m) /\ Fits(m) /\ Refilled >= Second /\ passed' = Append(passed, new)
    BY <1>1 DEF Accept
  <2>1. /\ m.seq \in Nat /\ m.seq > gate.last /\ m.data \in Places /\ m.data \in Int
    <3>1. m \in Targets
      BY <1>t
    <3>2. m.seq \in 1..MaxTargetSeq
      BY <3>1 DEF Targets
    <3>3. m.seq > gate.last
      BY <2>0 DEF FromTheCommander
    <3>4. m.data \in Places
      BY <2>0 DEF Fits
    <3>5. m.data \in Int
      BY <3>4, <1>0
    <3>6. m.seq \in Nat
      BY <3>2, <1>0
    <3> QED
      BY <3>3, <3>4, <3>5, <3>6
  <2>2. /\ gate'.holder = gate.holder /\ gate'.last = m.seq /\ gate'.previous = m.data
        /\ gate'.tokens = Refilled - Second /\ gate'.refilled = now /\ gate'.other = gate.other
        /\ now' = now /\ place' = place /\ snapshot' = snapshot /\ wire' = wire /\ kind' = kind /\ coast' = 0
        /\ DOMAIN pushes' = DOMAIN pushes /\ pushes' = [pushes EXCEPT !.since = pushes.unseen]
    BY <1>1 DEF Accept, GateType
  <2>3. /\ passed' \in Seq(PassedTargets) /\ Len(passed') = n + 1
        /\ DOMAIN passed' = 1..(n + 1)
        /\ passed'[n + 1] = new /\ \A i \in 1..n : passed'[i] = passed[i]
    <3>1. new \in PassedTargets
      BY <2>1, <1>t DEF PassedTargets
    <3> HIDE DEF new
    <3> QED
      BY <1>t, <2>0, <3>1
  <2>4. GateType'
    <3>1. gate' \in [holder : GateClients, last : Nat, previous : Places, tokens : 0..Depth,
                     refilled : 0..now', other : BOOLEAN]
      <4>0. Refilled \in 0..Depth /\ Second \in Nat /\ Depth \in Nat /\ Refilled >= Second
        BY <1>0, <1>r, <2>0
      <4>1. gate'.tokens \in 0..Depth /\ gate'.refilled \in 0..now'
        BY <4>0, <1>t, <2>2
      <4>2. gate' = [holder |-> gate'.holder, last |-> gate'.last, previous |-> gate'.previous,
                     tokens |-> gate'.tokens, refilled |-> gate'.refilled, other |-> gate'.other]
        BY <1>1 DEF Accept, GateType
      <4>3. gate'.other \in BOOLEAN
        BY <2>2, Zenon DEF GateType
      <4> QED
        BY <4>1, <4>2, <4>3, <1>t, <2>1, <2>2
    <3> QED
      BY <3>1, <1>t, <2>2, <2>3 DEF GateType
  <2>5. PassedBefore'
    <3> SUFFICES ASSUME NEW i \in 1..(n + 1)
                 PROVE  passed'[i].seq <= m.seq /\ passed'[i].t <= now
      BY <2>2, <2>3 DEF PassedBefore
    <3>1. CASE i = n + 1
      BY <3>1, <2>1, <2>3, <1>t, <1>e
    <3>2. CASE i \in 1..n
      <4>1. passed'[i] = passed[i] /\ passed[i].seq <= gate.last /\ passed[i].t <= gate.refilled
        BY <3>2, <2>3, <1>t, <1>e DEF PassedBefore
      <4> QED
        BY <4>1, <3>2, <2>1, <1>t, <1>e
    <3> QED
      BY <3>1, <3>2, <1>t, <1>e
  <2>6. AcceptedInOrder'
    <3> SUFFICES ASSUME NEW i \in 1..(n + 1), NEW j \in 1..(n + 1), i < j
                 PROVE  passed'[i].seq < passed'[j].seq
      BY <2>3 DEF AcceptedInOrder
    <3>1. i \in 1..n /\ passed'[i] = passed[i] /\ passed[i].seq <= gate.last
      BY <1>t, <1>e, <2>3 DEF PassedBefore
    <3>2. CASE j = n + 1
      <4>1. passed[i].seq \in Nat /\ passed'[j].seq = m.seq
        BY <3>1, <3>2, <2>3, <1>t, <1>e
      <4> QED
        BY <3>1, <4>1, <2>1, <1>t, <1>e
    <3>3. CASE j \in 1..n
      BY <3>1, <3>3, <2>3, <1>t, <1>e DEF AcceptedInOrder
    <3> QED
      BY <3>2, <3>3, <1>t, <1>e
  <2>7. \A i \in 1..(n + 1) :
          Cost(n + 1 - i + 1) + Refilled - Second <= Depth + Rate * (now - passed'[i].t)
    <3> SUFFICES ASSUME NEW i \in 1..(n + 1)
                 PROVE  Cost(n + 1 - i + 1) + Refilled - Second <= Depth + Rate * (now - passed'[i].t)
      OBVIOUS
    <3>1. CASE i = n + 1
      <4>1. Rate * (now - passed'[i].t) = 0
        BY <3>1, <2>3, <1>0, <1>t, <1>e
      <4>2. n + 1 - i + 1 = 1 /\ Cost(1) = Second
        BY <3>1, <1>t, CostAdds
      <4> QED
        BY <4>1, <4>2, <1>0, <1>r
    <3>2. CASE i \in 1..n
      <4> DEFINE a == Rate * (gate.refilled - passed[i].t)
                 b == Rate * (now - gate.refilled)
                 all == Rate * (now - passed[i].t)
                 k == n - i + 1
      <4>1. passed'[i] = passed[i] /\ k \in Int /\ n + 1 - i + 1 = k + 1
        BY <3>2, <2>3, <1>t
      <4>2. a \in Int /\ b \in Int /\ all = a + b
        BY <3>2, <1>a, <1>t
      <4>3. Cost(k) + gate.tokens <= Depth + a
        BY <3>2, <1>t DEF TokensLeft
      <4>4. Refilled <= gate.tokens + b
        BY <1>r
      <4> HIDE DEF a, b, k
      <4>5. Cost(k) \in Int /\ Cost(k + 1) = Cost(k) + Second
        BY <4>1, <1>c
      <4> HIDE DEF all
      <4>6. Cost(k + 1) + Refilled - Second <= Depth + all
        BY <4>2, <4>3, <4>4, <4>5, <1>0, <1>n
      <4> QED
        BY <4>1, <4>6 DEF all
    <3> QED
      BY <3>1, <3>2, <1>t, <1>e
  <2>7a. TokensKept'
    <3> SUFFICES \E i \in 1..(n + 1) :
                   Cost(n + 1 - i + 1) + (Refilled - Second) >= Depth + Rate * (now - passed'[i].t)
      BY <2>2, <2>3 DEF TokensKept, Depth
    <3>1. CASE Refilled = Depth
      <4>1. Rate * (now - passed'[n + 1].t) = 0
        BY <2>3, <1>0, <1>t, <1>e
      <4>2. n + 1 - (n + 1) + 1 = 1 /\ Cost(1) = Second /\ n + 1 \in 1..(n + 1)
        BY <1>t, CostAdds
      <4>3. Cost(n + 1 - (n + 1) + 1) + (Refilled - Second) >= Depth + Rate * (now - passed'[n + 1].t)
        BY <3>1, <4>1, <4>2, <1>0
      <4> QED
        BY <4>2, <4>3
    <3>2. CASE Refilled # Depth
      <4>1. Refilled = gate.tokens + Rate * (now - gate.refilled) /\ Rate * (now - gate.refilled) \in Nat
        BY <3>2, <1>r, <1>0, <1>t
      <4>2. gate.tokens # Depth
        BY <3>2, <4>1, <1>r, <1>0, <1>t
      <4>3. PICK i \in 1..n :
              Cost(n - i + 1) + gate.tokens >= Depth + Rate * (gate.refilled - passed[i].t)
        BY <4>2, <1>t DEF TokensKept
      <4> DEFINE a == Rate * (gate.refilled - passed[i].t)
                 b == Rate * (now - gate.refilled)
                 all == Rate * (now - passed[i].t)
                 k == n - i + 1
      <4>4. passed'[i] = passed[i] /\ k \in Int /\ n + 1 - i + 1 = k + 1 /\ i \in 1..(n + 1)
        BY <2>3, <1>t
      <4>5. a \in Int /\ b \in Int /\ all = a + b
        BY <1>a, <1>t
      <4>6. Cost(k) + gate.tokens >= Depth + a /\ Refilled = gate.tokens + b
        BY <4>1, <4>3
      <4> HIDE DEF a, b, k
      <4>7. Cost(k) \in Int /\ Cost(k + 1) = Cost(k) + Second
        BY <4>4, <1>c
      <4> HIDE DEF all
      <4>8. Cost(k + 1) + (Refilled - Second) >= Depth + all
        <5>1. gate.tokens \in Int /\ Refilled \in Int /\ Depth \in Int /\ Second \in Int
          BY <1>0, <1>n
        <5> QED
          BY <4>5, <4>6, <4>7, <5>1
      <4>9. Cost(n + 1 - i + 1) + (Refilled - Second) >= Depth + Rate * (now - passed'[i].t)
        BY <4>4, <4>8 DEF all
      <4> QED
        BY <4>4, <4>9
    <3> QED
      BY <3>1, <3>2
  <2>8. TokensLeft'
    BY <2>2, <2>3, <2>7, <1>t, <1>e DEF TokensLeft, Depth
  <2>9. RateBounded'
    <3> SUFFICES ASSUME NEW i \in 1..(n + 1), NEW j \in 1..(n + 1), i <= j
                 PROVE  (j - i + 1) * Second <= Depth + Rate * (passed'[j].t - passed'[i].t)
      BY <2>3 DEF RateBounded, Depth
    <3>1. CASE j = n + 1
      <4> DEFINE span == Rate * (now - passed'[i].t)
      <4>0. passed'[i].t \in Nat
        <5>1. CASE i = n + 1
          BY <5>1, <2>3, <1>t
        <5>2. CASE i \in 1..n
          <6>1. passed'[i] = passed[i] /\ passed[i].t \in Nat
            BY <5>2, <2>3, <1>s, <1>e
          <6> QED
            BY <6>1
        <5> QED
          BY <5>1, <5>2, <1>s
      <4>1. span \in Int
        <5>1. now - passed'[i].t \in Int /\ Rate \in Int
          BY <4>0, <1>0, <1>t
        <5> QED
          BY <5>1
      <4>2. Cost(n + 1 - i + 1) + Refilled - Second <= Depth + span
        BY <2>7
      <4>3. passed'[j].t = now /\ Refilled >= Second
        BY <3>1, <2>0, <2>3
      <4> HIDE DEF span
      <4>4. Cost(n + 1 - i + 1) \in Int
        BY <1>c, <1>t
      <4>5. Cost(j - i + 1) <= Depth + span
        BY <4>1, <4>2, <4>3, <4>4, <3>1, <1>0, <1>n
      <4> QED
        BY <4>3, <4>5 DEF span, Cost
    <3>2. CASE j \in 1..n
      <4>1. i \in 1..n
        BY <3>2, <1>t, <1>e
      <4> QED
        BY <4>1, <3>2, <2>3, <1>t, <1>e DEF RateBounded
    <3> QED
      BY <3>1, <3>2, <1>t, <1>e
  <2>10. WithinLead'
    <3> SUFFICES ASSUME kind = "cartesian", MaxLead > 0, ~pushes'.since
                 PROVE  Abs(m.data - place) + 0 <= MaxLead + MaxTravel
      BY <2>2 DEF WithinLead, Abs
    <3>1. Abs(place - snapshot) <= MaxTravel
      BY <2>2 DEF SeenAbout, GateType
    <3>2. Abs(m.data - snapshot) <= MaxLead
      BY <2>0, <2>1, <1>0, <1>t DEF Fits, Leads, Abs
    <3>3. /\ m.data \in Int /\ place \in Int /\ snapshot \in Int
          /\ MaxLead \in Nat /\ MaxTravel \in Nat
      BY <2>1, <1>0, <1>t
    <3> QED
      BY <3>1, <3>2, <3>3 DEF Abs
  <2>11. SeenAbout'
    BY <2>2 DEF SeenAbout, Abs, GateType
  <2> QED
    BY <2>4, <2>5, <2>6, <2>7a, <2>8, <2>9, <2>10, <2>11
<1>2. ASSUME NEW m \in wire, Refuse(m) PROVE GateInv'
  <2>0. UNCHANGED <<kind, snapshot, place, now, sent, wire, passed, coast, pushes>> /\ Refilled < Second
    BY <1>2 DEF Refuse
  <2>1. /\ gate'.holder = gate.holder /\ gate'.last = gate.last
        /\ gate'.previous = gate.previous /\ gate'.tokens = Refilled /\ gate'.refilled = now
        /\ gate'.other = gate.other
    BY <1>2, <1>t DEF Refuse, GateType
  <2>2. GateType'
    <3>1. gate'.tokens \in 0..Depth /\ gate'.refilled \in 0..now
      BY <2>0, <2>1, <1>r, <1>t
    <3>2. gate' = [holder |-> gate'.holder, last |-> gate'.last, previous |-> gate'.previous,
                   tokens |-> gate'.tokens, refilled |-> gate'.refilled, other |-> gate'.other]
      BY <1>2 DEF Refuse, GateType
    <3>3. gate'.other \in BOOLEAN
      BY <2>1, Zenon DEF GateType
    <3>4. gate' \in [holder : GateClients, last : Nat, previous : Places, tokens : 0..Depth,
                      refilled : 0..now, other : BOOLEAN]
      BY <3>1, <3>2, <3>3, <2>1, <1>t
    <3> QED
      BY <2>0, <3>4 DEF GateType
  <2>3. PassedBefore'
    BY <2>0, <2>1, <1>t, <1>e DEF PassedBefore
  <2>4. TokensLeft'
    <3> SUFFICES ASSUME NEW i \in DOMAIN passed
                 PROVE  Cost(Len(passed) - i + 1) + Refilled <= Depth + Rate * (now - passed[i].t)
      BY <2>0, <2>1 DEF TokensLeft, Cost, Depth
    <3> DEFINE a == Rate * (gate.refilled - passed[i].t)
               b == Rate * (now - gate.refilled)
               all == Rate * (now - passed[i].t)
               k == Len(passed) - i + 1
    <3>1. a \in Int /\ b \in Int /\ all = a + b
      BY <1>a
    <3>2. Cost(k) + gate.tokens <= Depth + a /\ Refilled <= gate.tokens + b /\ k \in Int
      BY <1>r, <1>t DEF TokensLeft
    <3> HIDE DEF a, b, k
    <3>3. Cost(k) \in Int
      BY <3>2, <1>c
    <3> HIDE DEF all
    <3>4. Cost(k) + Refilled <= Depth + all
      BY <3>1, <3>2, <3>3, <1>0, <1>n
    <3> QED
      BY <3>4 DEF all, k
  <2>4a. TokensKept'
    <3> SUFFICES ASSUME Refilled # Depth
                 PROVE  \E i \in DOMAIN passed :
                          Cost(Len(passed) - i + 1) + Refilled >= Depth + Rate * (now - passed[i].t)
      BY <2>0, <2>1 DEF TokensKept, Cost, Depth
    <3>1. Refilled = gate.tokens + Rate * (now - gate.refilled) /\ Rate * (now - gate.refilled) \in Nat
      BY <1>r, <1>0, <1>t
    <3>2. gate.tokens # Depth
      BY <3>1, <1>r, <1>0, <1>t
    <3>3. PICK i \in DOMAIN passed :
            Cost(Len(passed) - i + 1) + gate.tokens >= Depth + Rate * (gate.refilled - passed[i].t)
      BY <3>2 DEF TokensKept
    <3> DEFINE a == Rate * (gate.refilled - passed[i].t)
               b == Rate * (now - gate.refilled)
               all == Rate * (now - passed[i].t)
               k == Len(passed) - i + 1
    <3>4. a \in Int /\ b \in Int /\ all = a + b
      BY <1>a
    <3>5. Cost(k) + gate.tokens >= Depth + a /\ Refilled = gate.tokens + b /\ k \in Int
      BY <3>1, <3>3, <1>t
    <3> HIDE DEF a, b, k
    <3>6. Cost(k) \in Int
      BY <3>5, <1>c
    <3> HIDE DEF all
    <3>7. Cost(k) + Refilled >= Depth + all
      BY <3>4, <3>5, <3>6, <1>0, <1>n
    <3> QED
      BY <3>7 DEF all, k
  <2>5. WithinLead' /\ SeenAbout'
    BY <2>0, <2>1 DEF WithinLead, SeenAbout, Abs
  <2> QED
    BY <2>0, <2>2, <2>3, <2>4, <2>4a, <2>5 DEF AcceptedInOrder, RateBounded
\* Steps that leave the gate and what it let through alone.
<1>u. UNCHANGED <<gate, passed>> => PassedBefore' /\ AcceptedInOrder' /\ TokensLeft' /\ TokensKept' /\ RateBounded'
  BY DEF PassedBefore, AcceptedInOrder, TokensLeft, TokensKept, RateBounded, Depth, Cost
<1>3. CASE SendTarget
  <2>1. wire' \subseteq Targets /\ UNCHANGED <<kind, gate, snapshot, place, now, passed, coast, pushes>>
    BY <1>3, <1>t DEF SendTarget
  <2> QED
    BY <2>1, <1>u DEF GateType, SeenAbout, WithinLead, Depth, Abs
<1>4. CASE NetworkDrops
  <2>1. wire' \subseteq Targets /\ UNCHANGED <<kind, gate, snapshot, place, now, passed, coast, pushes>>
    BY <1>4, <1>t DEF NetworkDrops
  <2> QED
    BY <2>1, <1>u DEF GateType, SeenAbout, WithinLead, Depth, Abs
<1>5. CASE Follow
  <2> DEFINE p == gate.previous
  <2>1. p \in Int /\ place \in Int /\ coast \in Nat /\ MaxLead \in Nat
    BY <1>0, <1>t
  <2>2. /\ p # place /\ place' = (IF p > place THEN place + 1 ELSE place - 1) /\ coast' = coast + 1
        /\ UNCHANGED <<kind, gate, snapshot, now, sent, wire, passed, pushes>>
        /\ pushes.unseen \/ Abs(place' - snapshot) <= MaxTravel
    BY <1>5 DEF Follow
  <2>3. place' \in Int /\ coast' \in Nat /\ Abs(p - place') + coast' = Abs(p - place) + coast
    <3> HIDE DEF p
    <3>1. CASE p > place
      BY <2>1, <2>2, <3>1 DEF Abs
    <3>2. CASE p < place
      BY <2>1, <2>2, <3>2 DEF Abs
    <3> QED
      BY <2>1, <2>2, <3>1, <3>2
  <2>4. GateType'
    BY <2>2, <2>3 DEF GateType, Depth
  <2>5. WithinLead'
    BY <2>2, <2>3 DEF WithinLead
  <2>6. SeenAbout'
    BY <2>2 DEF SeenAbout, Abs
  <2> QED
    BY <1>u, <2>2, <2>4, <2>5, <2>6
<1>6. CASE HandPushes
  <2>1. /\ pushes' = [left |-> pushes.left - 1, unseen |-> TRUE, since |-> TRUE] /\ place' \in Int
        /\ UNCHANGED <<kind, gate, snapshot, now, sent, wire, passed, coast>>
    BY <1>0, <1>6 DEF HandPushes
  <2>2. DOMAIN pushes' = {"left", "unseen", "since"} /\ pushes'.since /\ pushes'.unseen
    BY <2>1
  <2>3. GateType'
    BY <2>1, <2>2 DEF GateType, Depth
  <2>4. WithinLead' /\ SeenAbout'
    BY <2>2, Zenon DEF WithinLead, SeenAbout
  <2> QED
    BY <1>u, <2>1, <2>3, <2>4
<1>7. CASE GateTick
  <2>1. now' \in Nat /\ now' >= now /\ UNCHANGED <<kind, gate, snapshot, place, sent, wire, passed, coast, pushes>>
    BY <1>7, <1>t DEF GateTick
  <2>2. gate \in [holder : GateClients, last : Nat, previous : Places, tokens : 0..Depth,
                  refilled : 0..now', other : BOOLEAN]
    <3>1. 0..now \subseteq 0..now'
      BY <2>1, <1>t
    <3> DEFINE D == 0..Depth
    <3>2. gate \in [holder : GateClients, last : Nat, previous : Places, tokens : D,
                    refilled : 0..now, other : BOOLEAN]
      BY DEF GateType
    <3> HIDE DEF D
    <3>3. gate \in [holder : GateClients, last : Nat, previous : Places, tokens : D,
                    refilled : 0..now', other : BOOLEAN]
      BY <3>1, <3>2
    <3> QED
      BY <3>3 DEF D
  <2> QED
    BY <2>1, <2>2, <1>u DEF GateType, SeenAbout, WithinLead, Depth, Abs
<1>8. CASE StateTick
  <2>1. /\ snapshot' = place /\ pushes' = [pushes EXCEPT !.unseen = FALSE]
        /\ UNCHANGED <<kind, gate, place, now, sent, wire, passed, coast>>
    BY <1>8 DEF StateTick
  <2>2. DOMAIN pushes' = {"left", "unseen", "since"} /\ pushes'.since = pushes.since
    BY <2>1 DEF GateType
  <2>3. GateType'
    BY <2>1, <2>2, <1>t DEF GateType, Depth
  <2>4. SeenAbout'
    BY <2>1, <1>0, <1>t DEF SeenAbout, Abs
  <2>5. WithinLead'
    BY <2>1, <2>2 DEF WithinLead, Abs
  <2> QED
    BY <1>u, <2>1, <2>3, <2>4, <2>5
<1>9. CASE UNCHANGED gateVars
  BY <1>9, <1>u DEF gateVars, GateType, SeenAbout, WithinLead, Depth, Abs
<1> QED
  BY <1>1, <1>2, <1>3, <1>4, <1>5, <1>6, <1>7, <1>8, <1>9 DEF GateNext

\* A target more costs more than a refill of less than one.
LEMMA OneMore ==
    ASSUME NEW cost \in Int, NEW tokens \in Int, NEW depth \in Int, NEW second \in Int,
           NEW before \in Int, NEW since \in Int,
           cost + tokens >= depth + before, tokens + since < second
    PROVE  cost + second > depth + (before + since)
  OBVIOUS

\* What GateSafety says of the gate follows: what the bucket lacks was spent, the way gone is within
\* the lead and a tick's way, and a target at the arm is in order, a step from where it was seen, at
\* no lead and in the box.
LEMMA GateShows ==
    GateInv => AcceptedInOrder /\ RateBounded /\ RateIsFair /\ CoastBounded /\ AnchorGetsIn
<1> SUFFICES ASSUME GateInv PROVE RateIsFair /\ CoastBounded /\ AnchorGetsIn
  BY DEF GateInv
<1>0. /\ Places \subseteq Int /\ Box \subseteq Places /\ MaxLead \in Nat /\ MaxStep \in Nat
      /\ MaxTravel \in Nat /\ place \in Int /\ snapshot \in Int /\ coast \in Nat /\ gate.previous \in Int
  BY GateAssumption DEF GateInv, GateType
<1>1. CoastBounded
  BY <1>0 DEF GateInv, WithinLead, CoastBounded, Abs
<1>2. AnchorGetsIn
  <2> SUFFICES ASSUME kind = "cartesian", LeadBounded, place \in Box, ~pushes.unseen,
                      MaxTravel <= MaxStep, MaxTravel <= MaxLead
               PROVE  Fits([client |-> gate.holder, seq |-> gate.last + 1, kind |-> kind,
                            data |-> place, anchor |-> TRUE])
    BY DEF AnchorGetsIn
  <2>1. Abs(place - snapshot) <= MaxStep /\ Abs(place - snapshot) <= MaxLead
    BY <1>0 DEF GateInv, SeenAbout, Abs
  <2> QED
    BY <1>0, <2>1 DEF Fits, StepsFrom, Leads, Abs
<1>3. RateIsFair
  <2> SUFFICES ASSUME Refilled < Second
               PROVE  \E i \in DOMAIN passed :
                        (Len(passed) - i + 2) * Second > Depth + Rate * (now - passed[i].t)
    BY DEF RateIsFair
  <2>1. /\ Rate \in Nat /\ Rate > 0 /\ Second \in Nat /\ Depth \in Nat /\ Depth >= Second
        /\ now \in Nat /\ gate.refilled \in 0..now /\ gate.tokens \in 0..Depth
        /\ passed \in Seq(PassedTargets)
    BY GateAssumption, BucketHolds DEF GateInv, GateType
  <2>2. /\ Refilled \in 0..Depth
        /\ Refilled = Depth \/ Refilled = gate.tokens + Rate * (now - gate.refilled)
        /\ Rate * (now - gate.refilled) \in Nat
    BY <2>1, RefillBounds DEF GateInv
  <2>3. Refilled = gate.tokens + Rate * (now - gate.refilled) /\ gate.tokens # Depth
    BY <2>1, <2>2
  <2>4. PICK i \in DOMAIN passed :
          Cost(Len(passed) - i + 1) + gate.tokens >= Depth + Rate * (gate.refilled - passed[i].t)
    BY <2>3 DEF GateInv, TokensKept
  <2> DEFINE before == gate.refilled - passed[i].t
             since == now - gate.refilled
             k == Len(passed) - i + 1
  <2>5. before \in Int /\ since \in Int /\ now - passed[i].t = before + since /\ k \in Int
    <3>1. passed[i] \in PassedTargets
      BY <2>1
    <3>2. passed[i].t \in Nat /\ i \in Nat /\ Len(passed) \in Nat
      BY <2>1, <3>1 DEF PassedTargets
    <3> QED
      BY <2>1, <3>2
  <2>6. Cost(k) + gate.tokens >= Depth + Rate * before /\ Refilled = gate.tokens + Rate * since
    BY <2>3, <2>4
  <2>7. Len(passed) - i + 2 = k + 1
    BY <2>1
  <2> HIDE DEF before, since, k
  <2>8. /\ Rate * before \in Int /\ Rate * since \in Int
        /\ Rate * (before + since) = Rate * before + Rate * since
        /\ Cost(k) \in Int /\ Cost(k + 1) = Cost(k) + Second
    <3>1. Rate * before \in Int /\ Rate * since \in Int
      BY <2>1, <2>5
    <3>2. Rate * (before + since) = Rate * before + Rate * since
      BY <2>1, <2>5, RefillsAdd
    <3>3. Cost(k) \in Int /\ Cost(k + 1) = Cost(k) + Second
      BY <2>5, CostAdds
    <3> QED
      BY <3>1, <3>2, <3>3
  <2> DEFINE a == Rate * before
             b == Rate * since
  <2>9. a \in Int /\ b \in Int /\ Cost(k) + gate.tokens >= Depth + a /\ Refilled = gate.tokens + b
    BY <2>6, <2>8
  <2> HIDE DEF a, b
  <2>10. Cost(k + 1) > Depth + (a + b)
    <3>1. /\ Cost(k) \in Int /\ gate.tokens \in Int /\ Depth \in Int /\ Second \in Int
          /\ Cost(k + 1) = Cost(k) + Second
      BY <2>1, <2>8
    <3>2. a \in Int /\ b \in Int /\ Cost(k) + gate.tokens >= Depth + a /\ gate.tokens + b < Second
      BY <2>9
    <3>3. Cost(k) + Second > Depth + (a + b)
      BY <3>1, <3>2, OneMore
    <3> QED
      BY <3>1, <3>3
  <2>11. (Len(passed) - i + 2) * Second > Depth + Rate * (now - passed[i].t)
    BY <2>5, <2>7, <2>8, <2>10 DEF a, b, Cost
  <2> QED
    BY <2>11
<1> QED
  BY <1>1, <1>2, <1>3

(* The gate of an arm's targets does what it is for, whatever the network does, for every box,    *)
(* step, lead, rate and age of the snapshot: the holder's targets in order and each once, no more *)
(* of them in any time than the bucket and its refills, and none refused for less; a coast within *)
(* the lead and what the arm travels in a state tick; an anchored target let in.                  *)
THEOREM GateIsSafe == NodeSpec => []GateSafety
<1> DEFINE PartInv == part = "gate" => GateInv
<1>1. NodeInit => PartInv
  BY GateInitially DEF NodeInit
<1>2. PartInv /\ [NodeNext]_nodeVars => PartInv'
  <2> SUFFICES ASSUME PartInv, [NodeNext]_nodeVars, part' = "gate" PROVE GateInv'
    OBVIOUS
  <2>1. part = "gate" /\ [GateNext]_gateVars
    BY DEF NodeNext, nodeVars
  <2> QED
    BY <2>1, GateStep
<1>3. PartInv => GateSafety
  BY GateShows DEF GateSafety
<1> QED
  BY <1>1, <1>2, <1>3, PTL DEF NodeSpec

-----------------------------------------------------------------------------
(* The gripper's driver. *)

HandType ==
    /\ home \in Homes /\ target \in Widths \cup {NoWidth} /\ commanded \in Widths \cup {NoWidth}
    /\ at \in Widths \cup {NoWidth} /\ asked \in Widths \cup {NoWidth}
    /\ worker \in {"idle", "checked", "waiting", "dequeued", "running", "gone"}
    /\ job \in Jobs \cup {NoJob}
    /\ hand \in {"resting", "busy"} \cup Answers

\* A worker that looked and found nothing, or sleeps, has nothing to do.
NothingPending ==
    worker \in {"checked", "waiting"} =>
      target = NoWidth /\ ~grasp /\ home = "none" /\ dropper # "joining"

\* The hand is busy, or has answered, while the worker waits for it; an arrived move is there.
HandFollows ==
    /\ worker = "running" <=> hand # "resting"
    /\ worker \in {"dequeued", "running"} => job \in Jobs
    /\ hand = "arrived" /\ job.kind = "move" => at = job.width

\* The commanded width is where the hand is, or goes if the move arrives.
CommandedIsAt ==
    commanded # NoWidth =>
      IF worker = "running" THEN job = Move(commanded) ELSE at = commanded

\* Where the width asked for last is on its way.
AskedIsOnItsWay ==
    /\ target # NoWidth => asked = target
    /\ asked # NoWidth /\ target = NoWidth =>
         /\ home = "none" /\ ~grasp
         /\ IF worker \in {"dequeued", "running"} THEN job = Move(asked) ELSE at = asked

\* What a stop dropped is pending again only if it was asked for again.
DroppedIsGone ==
    /\ target # NoWidth => "move" \notin dropped
    /\ grasp => "grasp" \notin dropped

HandInv ==
    HandType /\ NothingPending /\ HandFollows /\ CommandedIsAt /\ AskedIsOnItsWay /\ DroppedIsGone

\* A worker that starts has nothing to do and nothing dropped.
LEMMA HandInitially == Init => HandInv
  BY WidthsAssumption DEF Init, HandInv, HandType, NothingPending, HandFollows, CommandedIsAt,
     AskedIsOnItsWay, DroppedIsGone, Answers, Jobs, Homes

\* The steps of the callers, the worker and the hand keep the driver's invariant.
LEMMA HandStep == HandInv /\ [Next]_vars => HandInv'
<1> SUFFICES ASSUME HandInv, [Next]_vars PROVE HandInv'
  OBVIOUS
<1>w. NoWidth \notin Widths
  BY WidthsAssumption
<1> USE DEF HandInv, HandType, NothingPending, HandFollows, CommandedIsAt, AskedIsOnItsWay,
            DroppedIsGone, orders, threads, outside, history, Unlocked, Woken, Homes, Jobs, NoJob,
            Move, Grasp, Home, Answers, Quitting
<1>1. ASSUME NEW w \in Widths, Command(w) PROVE HandInv'
  BY <1>1, <1>w DEF Command
<1>2. CASE GraspCall
  BY <1>2, <1>w DEF GraspCall
<1>3. CASE HomeCall
  BY <1>3, <1>w DEF HomeCall
<1>4. CASE HomeTimesOut
  BY <1>4, <1>w DEF HomeTimesOut
<1>5. CASE StopDrops
  BY <1>5, <1>w DEF StopDrops, Pending
<1>6. CASE StopSpawns
  BY <1>6, <1>w DEF StopSpawns
<1>7. CASE DropQuits
  BY <1>7, <1>w DEF DropQuits
<1>8. CASE DropNotifies
  BY <1>8, <1>w DEF DropNotifies
<1>9. CASE NextQuits
  BY <1>9, <1>w DEF NextQuits
<1>10. CASE NextHome
  BY <1>10, <1>w DEF NextHome
<1>11. CASE NextGrasp
  BY <1>11, <1>w DEF NextGrasp
<1>12. CASE NextMove
  BY <1>12, <1>w DEF NextMove, Wanted
<1>13. CASE NextNothing
  BY <1>13, <1>w DEF NextNothing, Wanted
<1>14. CASE Wait
  BY <1>14, <1>w DEF Wait
<1>15. CASE Start
  BY <1>15, <1>w DEF Start
<1>16. CASE Finish
  BY <1>16, <1>w DEF Finish
<1>17. CASE HandAnswers
  BY <1>17, <1>w DEF HandAnswers
<1>18. CASE HandStops
  BY <1>18, <1>w DEF HandStops
<1>19. CASE UNCHANGED vars
  BY <1>19 DEF vars
<1> QED
  BY <1>1, <1>2, <1>3, <1>4, <1>5, <1>6, <1>7, <1>8, <1>9, <1>10, <1>11, <1>12, <1>13, <1>14,
     <1>15, <1>16, <1>17, <1>18, <1>19 DEF Next, Calls, Worker

\* What the gripper's invariant says of its promises.
LEMMA HandShows == HandInv => NeverSleepsOnWork /\ LatestWins
  BY DEF HandInv, HandType, NothingPending, AskedIsOnItsWay, NeverSleepsOnWork, LatestWins

\* The worker takes what is pending, and what a stop dropped is not.
LEMMA HandStaysStopped ==
    ASSUME HandInv, [Next]_vars, NEW k \in {"move", "grasp"}, Dequeues(k)
    PROVE  k \notin dropped
<1>1. worker = "idle" /\ worker' = "dequeued" /\ job'.kind = k
  BY DEF Dequeues
<1>2. NextHome \/ NextGrasp \/ NextMove
  BY <1>1 DEF Next, Calls, Worker, Command, GraspCall, HomeCall, HomeTimesOut, StopDrops,
     StopSpawns, DropQuits, DropNotifies, NextQuits, NextNothing, Wait, Start, Finish, HandAnswers,
     HandStops, Woken, vars
<1>3. CASE NextHome
  BY <1>1, <1>3 DEF NextHome, Home
<1>4. CASE NextGrasp
  BY <1>1, <1>4 DEF NextGrasp, Grasp, HandInv, DroppedIsGone
<1>5. CASE NextMove
  BY <1>1, <1>5 DEF NextMove, Wanted, Move, HandInv, DroppedIsGone
<1> QED
  BY <1>2, <1>3, <1>4, <1>5

-----------------------------------------------------------------------------
(* The node's life. *)

ShutdownEvent == [is |-> "shutdown"]
CallEvent(c) == [is |-> "call", of |-> c]
NodeEvents == {CallEvent(c) : c \in NodeCalls} \cup {ShutdownEvent}
NoShutdown(q) == \A i \in 1..Len(q) : q[i] # ShutdownEvent
OneShutdown(q) == \A i, j \in 1..Len(q) : q[i] = ShutdownEvent /\ q[j] = ShutdownEvent => i = j
HasCall(q, c) == \E i \in 1..Len(q) : q[i] = CallEvent(c)
HasArm(q, a) == \E i \in 1..Len(q) : q[i] = a

MainPlaces == {"open", "connect", "driver", "spawn", "declare", "status", "handler", "wait",
               "unwind", "exited", "killed"}
ArmPlaces == {"none", "runs", "stopping", "draining", "leaving", "ended"}
LifeType ==
    /\ main \in [at : MainPlaces, arm : Nat] /\ arms \in [ArmsOfNode -> ArmPlaces]
    /\ DOMAIN served = ArmsOfNode /\ inbox \in [ArmsOfNode -> Seq(NodeEvents)]
    /\ DOMAIN loops = ArmsOfNode
    /\ \A a \in ArmsOfNode : DOMAIN loops[a] = {"runs", "begun", "ended"}
    /\ DOMAIN calls = NodeCalls
    /\ \A c \in NodeCalls : DOMAIN calls[c] = {"at", "arm", "late"} /\ calls[c].arm \in Nat
    /\ DOMAIN status = {"thread", "of"} /\ status.thread \in {"none", "runs", "ended"}
    /\ DOMAIN status.of = ArmsOfNode
    /\ tearing \in Seq(ArmsOfNode)

\* A session runs while it has begun and not ended, and none is left once the arm has stopped.
EpisodesMatch ==
    \A a \in ArmsOfNode :
      /\ loops[a].begun \in Nat /\ loops[a].ended \in Nat
      /\ loops[a].begun = loops[a].ended + (IF loops[a].runs THEN 1 ELSE 0)
      /\ arms[a] \in {"none", "draining", "leaving", "ended"} => ~loops[a].runs

\* Which arms have threads, until the node gives itself back.
SpawnedSoFar ==
    /\ main.at \in Starting \cup {"wait"} => \A a \in ArmsOfNode : arms[a] \in {"none", "runs"}
    /\ main.at = "open" => main.arm = 1
    /\ main.at \in {"open", "connect", "driver", "spawn"} =>
         \A a \in ArmsOfNode : arms[a] # "none" => a < main.arm
    /\ main.at = "declare" => \A a \in ArmsOfNode : arms[a] # "none" => a <= main.arm
    /\ main.at \in {"connect", "driver", "spawn", "declare"} => main.arm \in ArmsOfNode
    /\ main.at = "declare" => arms[main.arm] = "runs"

\* Every thread is joined, or about to be.
TearingHasTheRest ==
    /\ main.at = "unwind" =>
         \A a \in ArmsOfNode : arms[a] \notin {"none", "ended"} => HasArm(tearing, a)
    /\ main.at = "exited" => \A a \in ArmsOfNode : arms[a] \in {"none", "ended"}

\* An arm is served by a thread; its shutdown comes after its entities are gone, and once.
ServedByThreads ==
    \A a \in ArmsOfNode :
      /\ served[a] # {} => arms[a] = "runs"
      /\ OneShutdown(inbox[a])
      /\ ~NoShutdown(inbox[a]) =>
           served[a] = {} /\ arms[a] = "runs" /\ main.at \in {"unwind", "killed"}

\* The status is over before the first arm goes.
StatusFirst ==
    /\ status.thread = "runs" =>
         \A a \in ArmsOfNode : arms[a] \in {"none", "runs"} /\ NoShutdown(inbox[a])
    /\ status.thread # "ended" => \A a \in ArmsOfNode : status.of[a] \in {"none", "runs"}
    /\ main.at \in Starting => status.thread # "ended"
    /\ main.at = "exited" => status.thread # "runs"

\* A queued call is in its arm's channel, and one sent in time ahead of the last look.
QueuedIsInbox ==
    \A c \in NodeCalls :
      /\ calls[c].at \in {"callback", "queued"} =>
           calls[c].arm \in ArmsOfNode /\ arms[calls[c].arm] # "none"
      /\ calls[c].at = "queued" =>
           /\ arms[calls[c].arm] # "ended" /\ HasCall(inbox[calls[c].arm], c)
           /\ arms[calls[c].arm] = "leaving" => calls[c].late
      /\ calls[c].at = "lost" => calls[c].late

LifeInv ==
    /\ LifeType /\ EpisodesMatch /\ SpawnedSoFar /\ TearingHasTheRest /\ ServedByThreads
    /\ StatusFirst /\ QueuedIsInbox

\* What an event at the end of a channel adds to it.
LEMMA InboxGrows ==
    ASSUME NEW q \in Seq(NodeEvents), NEW e \in NodeEvents
    PROVE  /\ Append(q, e) \in Seq(NodeEvents)
           /\ e # ShutdownEvent /\ NoShutdown(q) => NoShutdown(Append(q, e))
           /\ e # ShutdownEvent /\ OneShutdown(q) => OneShutdown(Append(q, e))
           /\ e # ShutdownEvent /\ ~NoShutdown(Append(q, e)) => ~NoShutdown(q)
           /\ NoShutdown(q) => OneShutdown(Append(q, e))
           /\ \A c : HasCall(q, c) => HasCall(Append(q, e), c)
           /\ \A c : e = CallEvent(c) => HasCall(Append(q, e), c)
<1> DEFINE r == Append(q, e)
<1>1. /\ r \in Seq(NodeEvents) /\ Len(r) = Len(q) + 1 /\ Len(q) \in Nat
      /\ r[Len(q) + 1] = e /\ \A i \in 1..Len(q) : r[i] = q[i]
  OBVIOUS
<1> HIDE DEF r
<1>2. \A i \in 1..Len(r) : i \in 1..Len(q) \/ i = Len(q) + 1
  BY <1>1
<1>3. e # ShutdownEvent /\ NoShutdown(q) => NoShutdown(r)
  BY <1>1, <1>2 DEF NoShutdown
<1>4. e # ShutdownEvent /\ OneShutdown(q) => OneShutdown(r)
  BY <1>1, <1>2 DEF OneShutdown
<1>5. NoShutdown(q) => OneShutdown(r)
  BY <1>1, <1>2 DEF NoShutdown, OneShutdown
<1>6. \A c : HasCall(q, c) => HasCall(r, c)
  BY <1>1 DEF HasCall
<1>7. \A c : e = CallEvent(c) => HasCall(r, c)
  BY <1>1 DEF HasCall
<1> QED
  BY <1>1, <1>3, <1>4, <1>5, <1>6, <1>7 DEF r

\* What is left of a channel, and what its first event is.
LEMMA InboxShrinks ==
    ASSUME NEW q \in Seq(NodeEvents), q # <<>>
    PROVE  /\ Tail(q) \in Seq(NodeEvents) /\ Head(q) \in NodeEvents
           /\ ~NoShutdown(Tail(q)) => ~NoShutdown(q)
           /\ OneShutdown(q) => OneShutdown(Tail(q))
           /\ Head(q) = ShutdownEvent => ~NoShutdown(q)
           /\ Head(q) = ShutdownEvent /\ OneShutdown(q) => NoShutdown(Tail(q))
           /\ \A c : HasCall(q, c) /\ Head(q) # CallEvent(c) => HasCall(Tail(q), c)
<1> DEFINE r == Tail(q)
<1>1. /\ r \in Seq(NodeEvents) /\ Len(q) \in Nat /\ Len(q) >= 1 /\ Len(r) = Len(q) - 1
      /\ Head(q) = q[1] /\ Head(q) \in NodeEvents
      /\ \A i \in 1..Len(r) : r[i] = q[i + 1] /\ i + 1 \in 1..Len(q)
  OBVIOUS
<1> HIDE DEF r
<1>2. ~NoShutdown(r) => ~NoShutdown(q)
  BY <1>1 DEF NoShutdown
<1>3. OneShutdown(q) => OneShutdown(r)
  BY <1>1 DEF OneShutdown
<1>4. Head(q) = ShutdownEvent => ~NoShutdown(q)
  BY <1>1 DEF NoShutdown
<1>5. Head(q) = ShutdownEvent /\ OneShutdown(q) => NoShutdown(r)
  BY <1>1 DEF NoShutdown, OneShutdown
<1>6. ASSUME NEW c, HasCall(q, c), Head(q) # CallEvent(c) PROVE HasCall(r, c)
  <2>1. PICK i \in 1..Len(q) : q[i] = CallEvent(c)
    BY <1>6 DEF HasCall
  <2>2. i # 1 /\ i - 1 \in 1..Len(r) /\ r[i - 1] = q[i]
    BY <2>1, <1>1, <1>6
  <2> QED
    BY <2>1, <2>2 DEF HasCall
<1> QED
  BY <1>1, <1>2, <1>3, <1>4, <1>5, <1>6 DEF r

\* An event is a query of a client or the shutdown, and the two are told apart.
LEMMA EventKinds ==
    /\ \A e \in NodeEvents : e.is = "shutdown" => e = ShutdownEvent
    /\ \A e \in NodeEvents : e.is = "call" \/ e # ShutdownEvent =>
         e.of \in NodeCalls /\ e = CallEvent(e.of) /\ e # ShutdownEvent
    /\ \A c \in NodeCalls : CallEvent(c) \in NodeEvents /\ CallEvent(c) # ShutdownEvent
    /\ \A c, d \in NodeCalls : CallEvent(c) = CallEvent(d) => c = d
    /\ ShutdownEvent \in NodeEvents
<1>1. \A c \in NodeCalls : CallEvent(c) # ShutdownEvent
  <2> SUFFICES ASSUME NEW c \in NodeCalls PROVE CallEvent(c).is # ShutdownEvent.is
    OBVIOUS
  <2> QED
    BY DEF CallEvent, ShutdownEvent
<1>2. \A c, d \in NodeCalls : CallEvent(c) = CallEvent(d) => c = d
  BY DEF CallEvent
<1>3. \A c \in NodeCalls : CallEvent(c).is = "call" /\ CallEvent(c).of = c
  BY DEF CallEvent
<1>4. ShutdownEvent.is = "shutdown"
  BY DEF ShutdownEvent
<1> QED
  BY <1>1, <1>2, <1>3, <1>4 DEF NodeEvents

\* What an empty channel does not hold.
LEMMA EmptyInbox == NoShutdown(<<>>) /\ OneShutdown(<<>>) /\ \A c : ~HasCall(<<>>, c)
  BY DEF NoShutdown, OneShutdown, HasCall

\* A process that begins has no arm and no query.
LEMMA LifeInitially == LifeInit => LifeInv
<1> SUFFICES ASSUME LifeInit PROVE LifeInv
  OBVIOUS
<1> USE LifeAssumption, EmptyInbox DEF LifeInit, NoThread, Starting, MainPlaces, ArmPlaces
<1>1. LifeType
  BY DEF LifeType
<1>2. EpisodesMatch /\ SpawnedSoFar /\ TearingHasTheRest
  BY DEF EpisodesMatch, SpawnedSoFar, TearingHasTheRest
<1>3. ServedByThreads /\ StatusFirst /\ QueuedIsInbox
  BY DEF ServedByThreads, StatusFirst, QueuedIsInbox
<1> QED
  BY <1>1, <1>2, <1>3 DEF LifeInv

\* Every step of the start, of the end, of a client and of an arm keeps the invariant of the life.
LEMMA LifeStep == LifeInv /\ [LifeNext]_lifeVars => LifeInv'
<1> SUFFICES ASSUME LifeInv, [LifeNext]_lifeVars PROVE LifeInv'
  OBVIOUS
<1> USE LifeAssumption DEF LifeInv, Starting, ArmsOfNode, MainPlaces, ArmPlaces
<1>1. CASE OpenNodeSession
  <2> USE <1>1 DEF OpenNodeSession
  <2>1. LifeType'
    BY DEF LifeType
  <2>2. EpisodesMatch'
    BY DEF EpisodesMatch
  <2>3. SpawnedSoFar'
    BY DEF SpawnedSoFar
  <2>4. TearingHasTheRest'
    BY DEF TearingHasTheRest
  <2>5. ServedByThreads'
    BY DEF ServedByThreads
  <2>6. StatusFirst'
    BY DEF StatusFirst
  <2>7. QueuedIsInbox'
    BY DEF QueuedIsInbox
  <2> QED
    BY <2>1, <2>2, <2>3, <2>4, <2>5, <2>6, <2>7
<1>2. CASE ConnectRobot
  <2> USE <1>2 DEF ConnectRobot
  <2>1. LifeType'
    BY DEF LifeType
  <2>2. EpisodesMatch'
    BY DEF EpisodesMatch
  <2>3. SpawnedSoFar'
    BY DEF SpawnedSoFar
  <2>4. TearingHasTheRest'
    BY DEF TearingHasTheRest
  <2>5. ServedByThreads'
    BY DEF ServedByThreads
  <2>6. StatusFirst'
    BY DEF StatusFirst
  <2>7. QueuedIsInbox'
    BY DEF QueuedIsInbox
  <2> QED
    BY <2>1, <2>2, <2>3, <2>4, <2>5, <2>6, <2>7
<1>3. CASE BuildGripper
  <2> USE <1>3 DEF BuildGripper
  <2>1. LifeType'
    BY DEF LifeType
  <2>2. EpisodesMatch'
    BY DEF EpisodesMatch
  <2>3. SpawnedSoFar'
    BY DEF SpawnedSoFar
  <2>4. TearingHasTheRest'
    BY DEF TearingHasTheRest
  <2>5. ServedByThreads'
    BY DEF ServedByThreads
  <2>6. StatusFirst'
    BY DEF StatusFirst
  <2>7. QueuedIsInbox'
    BY DEF QueuedIsInbox
  <2> QED
    BY <2>1, <2>2, <2>3, <2>4, <2>5, <2>6, <2>7
<1>4. CASE SpawnArm
  <2> USE <1>4 DEF SpawnArm
  <2>a. main'.at = "declare" /\ main'.arm = main.arm /\ main.arm \in 1..NodeArms
    BY DEF LifeType, SpawnedSoFar
  <2>1. LifeType'
    BY DEF LifeType
  <2>2. EpisodesMatch'
    BY DEF EpisodesMatch
  <2>3. SpawnedSoFar'
    BY <2>a DEF LifeType, SpawnedSoFar
  <2>4. TearingHasTheRest'
    BY DEF TearingHasTheRest
  <2>5. ServedByThreads'
    BY DEF ServedByThreads
  <2>6. StatusFirst'
    BY DEF StatusFirst
  <2>7. QueuedIsInbox'
    BY DEF QueuedIsInbox
  <2> QED
    BY <2>1, <2>2, <2>3, <2>4, <2>5, <2>6, <2>7
<1>5. CASE Declare
  <2> USE <1>5 DEF Declare
  <2>a. main.arm \in 1..NodeArms /\ arms[main.arm] = "runs" /\ main.arm \in Nat
    BY DEF LifeType, SpawnedSoFar
  <2>b. \/ main' = main
        \/ main.arm < NodeArms /\ main' = [at |-> "connect", arm |-> main.arm + 1]
        \/ main.arm = NodeArms /\ main' = [at |-> "status", arm |-> main.arm]
    <3>1. main' = main \/ main' = AfterArm
      OBVIOUS
    <3>2. [main EXCEPT !.at = "status"] = [at |-> "status", arm |-> main.arm]
      BY DEF LifeType
    <3> QED
      BY <2>a, <3>1, <3>2 DEF AfterArm
  <2>c. /\ main'.at \in {"declare", "connect", "status"} /\ main'.arm \in Nat
        /\ main' \in [at : MainPlaces, arm : Nat]
        /\ main'.at = "declare" => main' = main
        /\ main'.at = "connect" => main'.arm = main.arm + 1 /\ main.arm < NodeArms
    BY <2>a, <2>b DEF LifeType
  <2>1. LifeType'
    BY <2>c DEF LifeType
  <2>2. EpisodesMatch'
    BY DEF EpisodesMatch
  <2>3. SpawnedSoFar'
    BY <2>a, <2>c DEF SpawnedSoFar, LifeType
  <2>4. TearingHasTheRest'
    BY <2>c DEF TearingHasTheRest
  <2>5. ServedByThreads'
    <3>1. \A a \in ArmsOfNode : a # main.arm => served'[a] = served[a]
      BY DEF LifeType
    <3>2. \A a \in ArmsOfNode : NoShutdown(inbox[a])
      BY DEF ServedByThreads
    <3> QED
      BY <2>a, <3>1, <3>2 DEF ServedByThreads
  <2>6. StatusFirst'
    BY <2>c DEF StatusFirst
  <2>7. QueuedIsInbox'
    BY DEF QueuedIsInbox
  <2> QED
    BY <2>1, <2>2, <2>3, <2>4, <2>5, <2>6, <2>7
<1>6. CASE StartStatus
  <2> USE <1>6 DEF StartStatus
  <2>1. LifeType'
    BY DEF LifeType
  <2>2. EpisodesMatch'
    BY DEF EpisodesMatch
  <2>3. SpawnedSoFar'
    BY DEF SpawnedSoFar
  <2>4. TearingHasTheRest'
    BY DEF TearingHasTheRest
  <2>5. ServedByThreads'
    BY DEF ServedByThreads
  <2>6. StatusFirst'
    <3>1. \A a \in ArmsOfNode : NoShutdown(inbox[a])
      BY DEF ServedByThreads
    <3> QED
      BY <3>1 DEF StatusFirst, SpawnedSoFar, LifeType
  <2>7. QueuedIsInbox'
    BY DEF QueuedIsInbox
  <2> QED
    BY <2>1, <2>2, <2>3, <2>4, <2>5, <2>6, <2>7
<1>7. CASE SetHandler
  <2> USE <1>7 DEF SetHandler
  <2>1. LifeType'
    BY DEF LifeType
  <2>2. EpisodesMatch'
    BY DEF EpisodesMatch
  <2>3. SpawnedSoFar'
    BY DEF SpawnedSoFar
  <2>4. TearingHasTheRest'
    BY DEF TearingHasTheRest
  <2>5. ServedByThreads'
    BY DEF ServedByThreads
  <2>6. StatusFirst'
    BY DEF StatusFirst
  <2>7. QueuedIsInbox'
    BY DEF QueuedIsInbox
  <2> QED
    BY <2>1, <2>2, <2>3, <2>4, <2>5, <2>6, <2>7
<1>8. CASE NodeFails
  <2> USE <1>8 DEF NodeFails
  <2>a. main'.at = "unwind" /\ main' \in [at : MainPlaces, arm : Nat]
    BY DEF LifeType
  <2> DEFINE UpTo(n) == [i \in 1..n |-> i]
  <2>b. /\ tearing' \in Seq(ArmsOfNode)
        /\ \A a \in ArmsOfNode : arms[a] # "none" => HasArm(tearing', a)
    <3>1. ASSUME NEW n \in Nat, n <= NodeArms
          PROVE  UpTo(n) \in Seq(ArmsOfNode) /\ Len(UpTo(n)) = n
      BY <3>1
    <3>2. CASE main.at = "open"
      <4>1. tearing' = <<>>
        BY <3>2 DEF HadSoFar
      <4>2. \A a \in ArmsOfNode : arms[a] = "none"
        BY <3>2 DEF SpawnedSoFar
      <4> QED
        BY <4>1, <4>2
    <3>3. CASE main.at \in {"connect", "driver", "spawn"}
      <4>1. tearing' = UpTo(main.arm - 1) /\ main.arm - 1 \in Nat /\ main.arm - 1 <= NodeArms
        BY <3>3 DEF HadSoFar, SpawnedSoFar
      <4>2. \A a \in ArmsOfNode : arms[a] # "none" => a \in 1..(main.arm - 1)
        BY <3>3, <4>1 DEF SpawnedSoFar, LifeType
      <4>3. \A a \in 1..(main.arm - 1) : UpTo(main.arm - 1)[a] = a
        OBVIOUS
      <4>4. UpTo(main.arm - 1) \in Seq(ArmsOfNode) /\ Len(UpTo(main.arm - 1)) = main.arm - 1
        BY <3>1, <4>1
      <4> HIDE DEF UpTo
      <4> QED
        BY <4>1, <4>2, <4>3, <4>4 DEF HasArm
    <3>4. CASE main.at = "declare"
      <4> DEFINE rest == UpTo(main.arm - 1)
      <4>1. /\ tearing' = <<main.arm>> \o rest
            /\ main.arm \in ArmsOfNode /\ main.arm - 1 \in Nat /\ main.arm - 1 <= NodeArms
        BY <3>4 DEF HadSoFar, SpawnedSoFar
      <4>2. \A a \in ArmsOfNode : arms[a] # "none" => a = main.arm \/ a \in 1..(main.arm - 1)
        BY <3>4, <4>1 DEF SpawnedSoFar, LifeType
      <4>3. \A a \in 1..(main.arm - 1) : rest[a] = a
        OBVIOUS
      <4>4. rest \in Seq(ArmsOfNode) /\ Len(rest) = main.arm - 1
        BY <3>1, <4>1
      <4> HIDE DEF rest
      <4>5. /\ tearing' \in Seq(ArmsOfNode) /\ Len(tearing') = main.arm /\ tearing'[1] = main.arm
            /\ \A a \in 1..(main.arm - 1) : tearing'[a + 1] = a /\ a + 1 \in 1..main.arm
        BY <4>1, <4>3, <4>4
      <4>6. HasArm(tearing', main.arm)
        <5>1. 1 \in 1..Len(tearing') /\ tearing'[1] = main.arm
          BY <4>1, <4>5
        <5> QED
          BY <5>1 DEF HasArm
      <4>7. \A a \in 1..(main.arm - 1) : HasArm(tearing', a)
        BY <4>5 DEF HasArm
      <4> QED
        BY <4>2, <4>5, <4>6, <4>7
    <3>5. CASE main.at \in {"status", "handler"}
      <4>1. tearing' = UpTo(NodeArms)
        BY <3>5 DEF HadSoFar, Whole
      <4>2. \A a \in 1..NodeArms : UpTo(NodeArms)[a] = a
        OBVIOUS
      <4>3. UpTo(NodeArms) \in Seq(ArmsOfNode) /\ Len(UpTo(NodeArms)) = NodeArms
        BY <3>1
      <4> HIDE DEF UpTo
      <4> QED
        BY <4>1, <4>2, <4>3 DEF HasArm
    <3> QED
      BY <3>2, <3>3, <3>4, <3>5
  <2>1. LifeType'
    BY <2>a, <2>b DEF LifeType
  <2>2. EpisodesMatch'
    BY DEF EpisodesMatch
  <2>3. SpawnedSoFar'
    BY <2>a DEF SpawnedSoFar
  <2>4. TearingHasTheRest'
    BY <2>a, <2>b DEF TearingHasTheRest
  <2>5. ServedByThreads'
    BY DEF ServedByThreads
  <2>6. StatusFirst'
    BY DEF StatusFirst
  <2>7. QueuedIsInbox'
    BY DEF QueuedIsInbox
  <2> QED
    BY <2>1, <2>2, <2>3, <2>4, <2>5, <2>6, <2>7
<1>9. CASE SignalComes
  <2> USE <1>9 DEF SignalComes
  <2>a. /\ main' \in [at : MainPlaces, arm : Nat]
        /\ \/ main.at \in Starting /\ main'.at = "killed" /\ tearing' = tearing
           \/ main.at = "wait" /\ main'.at = "unwind" /\ tearing' = Whole
           \/ main.at \in {"unwind", "killed"} /\ main' = main /\ tearing' = tearing
    BY DEF LifeType
  <2>b. Whole \in Seq(ArmsOfNode) /\ \A a \in ArmsOfNode : HasArm(Whole, a)
    <3>1. Whole \in Seq(ArmsOfNode) /\ Len(Whole) = NodeArms /\ \A a \in 1..NodeArms : Whole[a] = a
      BY DEF Whole
    <3> QED
      BY <3>1 DEF HasArm
  <2>1. LifeType'
    BY <2>a, <2>b DEF LifeType
  <2>2. EpisodesMatch'
    BY DEF EpisodesMatch
  <2>3. SpawnedSoFar'
    BY <2>a DEF SpawnedSoFar
  <2>4. TearingHasTheRest'
    BY <2>a, <2>b DEF TearingHasTheRest
  <2>5. ServedByThreads'
    BY <2>a DEF ServedByThreads
  <2>6. StatusFirst'
    BY <2>a DEF StatusFirst
  <2>7. QueuedIsInbox'
    BY DEF QueuedIsInbox
  <2> QED
    BY <2>1, <2>2, <2>3, <2>4, <2>5, <2>6, <2>7
<1>10. CASE EndStatus
  <2> USE <1>10 DEF EndStatus
  <2>1. LifeType'
    BY DEF LifeType
  <2>2. EpisodesMatch'
    BY DEF EpisodesMatch
  <2>3. SpawnedSoFar'
    BY DEF SpawnedSoFar
  <2>4. TearingHasTheRest'
    BY DEF TearingHasTheRest
  <2>5. ServedByThreads'
    BY DEF ServedByThreads
  <2>6. StatusFirst'
    BY DEF StatusFirst
  <2>7. QueuedIsInbox'
    BY DEF QueuedIsInbox
  <2> QED
    BY <2>1, <2>2, <2>3, <2>4, <2>5, <2>6, <2>7
<1>11. CASE Undeclare
  <2> USE <1>11 DEF Undeclare
  <2>1. LifeType'
    BY DEF LifeType
  <2>2. EpisodesMatch'
    BY DEF EpisodesMatch
  <2>3. SpawnedSoFar'
    BY DEF SpawnedSoFar
  <2>4. TearingHasTheRest'
    BY DEF TearingHasTheRest
  <2>5. ServedByThreads'
    BY DEF ServedByThreads
  <2>6. StatusFirst'
    BY DEF StatusFirst
  <2>7. QueuedIsInbox'
    BY DEF QueuedIsInbox
  <2> QED
    BY <2>1, <2>2, <2>3, <2>4, <2>5, <2>6, <2>7
<1>12. CASE SendShutdown
  <2> USE <1>12 DEF SendShutdown
  <2>a. /\ Head(tearing) \in ArmsOfNode /\ served[Head(tearing)] = {} /\ arms[Head(tearing)] = "runs"
    BY DEF LifeType, ShutsDown
  <2> DEFINE a == Head(tearing)
             q == inbox[a]
             more == Append(q, ShutdownEvent)
  <2>b. /\ inbox' = [inbox EXCEPT ![a] = more] /\ q \in Seq(NodeEvents)
    BY <2>a DEF LifeType, ShutdownEvent
  <2>c. NoShutdown(q)
    <3>1. ShutdownEvent \notin Range(q)
      BY DEF ShutsDown, ShutdownEvent
    <3> QED
      BY <2>b, <3>1 DEF NoShutdown, Range
  <2>d. /\ more \in Seq(NodeEvents) /\ OneShutdown(more)
        /\ \A c : HasCall(q, c) => HasCall(more, c)
    BY <2>b, <2>c, InboxGrows, EventKinds
  <2>e. /\ inbox' \in [ArmsOfNode -> Seq(NodeEvents)] /\ inbox'[a] = more
        /\ \A b \in ArmsOfNode : b # a => inbox'[b] = inbox[b]
    <3> HIDE DEF q, more
    <3> QED
      BY <2>a, <2>b, <2>d DEF LifeType
  <2> HIDE DEF a, q, more
  <2>f. /\ a \in ArmsOfNode /\ served[a] = {} /\ arms[a] = "runs" /\ q = inbox[a]
    BY <2>a DEF a, q
  <2>1. LifeType'
    BY <2>e DEF LifeType
  <2>2. EpisodesMatch'
    BY DEF EpisodesMatch
  <2>3. SpawnedSoFar'
    BY DEF SpawnedSoFar
  <2>4. TearingHasTheRest'
    BY DEF TearingHasTheRest
  <2>5. ServedByThreads'
    BY <2>d, <2>e, <2>f DEF ServedByThreads
  <2>6. StatusFirst'
    BY <2>e, <2>f DEF StatusFirst
  <2>7. QueuedIsInbox'
    BY <2>d, <2>e, <2>f DEF QueuedIsInbox
  <2> QED
    BY <2>1, <2>2, <2>3, <2>4, <2>5, <2>6, <2>7
<1>13. CASE JoinArm
  <2> USE <1>13 DEF JoinArm
  <2>1. LifeType'
    BY DEF LifeType
  <2>2. EpisodesMatch'
    BY DEF EpisodesMatch
  <2>3. SpawnedSoFar'
    BY DEF SpawnedSoFar
  <2>4. TearingHasTheRest'
    <3>1. \A a \in ArmsOfNode : HasArm(tearing, a) /\ a # Head(tearing) => HasArm(Tail(tearing), a)
      <4> SUFFICES ASSUME NEW a \in ArmsOfNode, HasArm(tearing, a), a # Head(tearing)
                   PROVE  HasArm(Tail(tearing), a)
        OBVIOUS
      <4>1. PICK i \in 1..Len(tearing) : tearing[i] = a
        BY DEF HasArm
      <4>2. i # 1 /\ i - 1 \in 1..Len(Tail(tearing)) /\ Tail(tearing)[i - 1] = a
        BY <4>1 DEF LifeType
      <4> QED
        BY <4>2 DEF HasArm
    <3> QED
      BY <3>1 DEF TearingHasTheRest
  <2>5. ServedByThreads'
    BY DEF ServedByThreads
  <2>6. StatusFirst'
    BY DEF StatusFirst
  <2>7. QueuedIsInbox'
    BY DEF QueuedIsInbox
  <2> QED
    BY <2>1, <2>2, <2>3, <2>4, <2>5, <2>6, <2>7
<1>14. CASE CloseNodeSession
  <2> USE <1>14 DEF CloseNodeSession
  <2>a. main'.at = "exited"
    BY DEF LifeType
  <2>b. \A a \in ArmsOfNode : arms[a] \in {"none", "ended"}
    <3>1. \A a \in ArmsOfNode : ~HasArm(tearing, a)
      BY DEF HasArm
    <3> QED
      BY <3>1 DEF TearingHasTheRest, LifeType
  <2>1. LifeType'
    BY DEF LifeType
  <2>2. EpisodesMatch'
    BY DEF EpisodesMatch
  <2>3. SpawnedSoFar'
    BY DEF SpawnedSoFar
  <2>4. TearingHasTheRest'
    BY <2>a, <2>b DEF TearingHasTheRest
  <2>5. ServedByThreads'
    BY <2>b DEF ServedByThreads
  <2>6. StatusFirst'
    BY DEF StatusFirst
  <2>7. QueuedIsInbox'
    BY DEF QueuedIsInbox
  <2> QED
    BY <2>1, <2>2, <2>3, <2>4, <2>5, <2>6, <2>7
<1>15. CASE PublishStatus
  <2> USE <1>15 DEF PublishStatus
  <2>1. LifeType'
    BY DEF LifeType
  <2>2. EpisodesMatch'
    BY DEF EpisodesMatch
  <2>3. SpawnedSoFar'
    BY DEF SpawnedSoFar
  <2>4. TearingHasTheRest'
    BY DEF TearingHasTheRest
  <2>5. ServedByThreads'
    BY DEF ServedByThreads
  <2>6. StatusFirst'
    BY DEF StatusFirst
  <2>7. QueuedIsInbox'
    BY DEF QueuedIsInbox
  <2> QED
    BY <2>1, <2>2, <2>3, <2>4, <2>5, <2>6, <2>7
<1>16. ASSUME NEW c \in NodeCalls, SendCall(c) PROVE LifeInv'
  <2> USE <1>16
  <2>u. UNCHANGED <<main, served, arms, loops, status, tearing, signals>>
    BY DEF SendCall
  <2> DEFINE a == calls[c].arm
             q == inbox[a]
             e == CallEvent(c)
             more == Append(q, e)
  <2>a. /\ a \in ArmsOfNode /\ arms[a] # "none" /\ DOMAIN calls[c] = {"at", "arm", "late"}
        /\ c \in DOMAIN calls /\ DOMAIN calls = NodeCalls
    BY DEF SendCall, QueuedIsInbox, LifeType
  <2>b. /\ DOMAIN calls' = NodeCalls /\ \A d \in NodeCalls : d # c => calls'[d] = calls[d]
        /\ calls'[c].arm = a /\ (calls'[c].late <=> "cmd" \notin served[a])
        /\ DOMAIN calls'[c] = {"at", "arm", "late"}
        /\ calls'[c].at = IF arms[a] = "ended" THEN "lost" ELSE "queued"
    BY <2>a DEF SendCall
  <2>q. q \in Seq(NodeEvents) /\ e \in NodeEvents /\ e # ShutdownEvent
    BY <2>a, EventKinds DEF LifeType
  <2>r. q = inbox[a] /\ e = CallEvent(c) /\ a = calls[c].arm
    OBVIOUS
  <2>d. inbox' = IF arms[a] = "ended" THEN inbox ELSE [inbox EXCEPT ![a] = more]
    BY DEF SendCall, CallEvent
  <2>f. served[a] # {} => arms[a] = "runs"
    BY <2>a DEF ServedByThreads
  <2> HIDE DEF a, q, e
  <2>c. /\ more \in Seq(NodeEvents) /\ HasCall(more, c)
        /\ OneShutdown(q) => OneShutdown(more)
        /\ ~NoShutdown(more) => ~NoShutdown(q)
        /\ \A k : HasCall(q, k) => HasCall(more, k)
    BY <2>q, <2>r, InboxGrows
  <2>e. /\ inbox' \in [ArmsOfNode -> Seq(NodeEvents)]
        /\ arms[a] # "ended" => inbox'[a] = more /\ \A b \in ArmsOfNode : b # a => inbox'[b] = inbox[b]
        /\ arms[a] = "ended" => inbox' = inbox
    <3> HIDE DEF more
    <3> QED
      BY <2>a, <2>c, <2>d DEF LifeType
  <2> HIDE DEF more
  <2> USE <2>u
  <2>1. LifeType'
    <3>1. \A d \in NodeCalls : DOMAIN calls'[d] = {"at", "arm", "late"} /\ calls'[d].arm \in Nat
      BY <2>a, <2>b, <2>r DEF LifeType
    <3> QED
      BY <2>b, <2>e, <3>1 DEF LifeType
  <2>2. EpisodesMatch'
    BY DEF EpisodesMatch
  <2>3. SpawnedSoFar'
    BY DEF SpawnedSoFar
  <2>4. TearingHasTheRest'
    BY DEF TearingHasTheRest
  <2>5. ServedByThreads'
    BY <2>a, <2>c, <2>r, <2>e DEF ServedByThreads
  <2>6. StatusFirst'
    BY <2>a, <2>c, <2>r, <2>e DEF StatusFirst
  <2>7. QueuedIsInbox'
    <3> SUFFICES ASSUME NEW d \in NodeCalls
                 PROVE  /\ calls'[d].at \in {"callback", "queued"} =>
                             calls'[d].arm \in ArmsOfNode /\ arms[calls'[d].arm] # "none"
                        /\ calls'[d].at = "queued" =>
                             /\ arms[calls'[d].arm] # "ended" /\ HasCall(inbox'[calls'[d].arm], d)
                             /\ arms[calls'[d].arm] = "leaving" => calls'[d].late
                        /\ calls'[d].at = "lost" => calls'[d].late
      BY DEF QueuedIsInbox
    <3>1. CASE d = c
      BY <3>1, <2>a, <2>b, <2>c, <2>r, <2>e, <2>f
    <3>2. CASE d # c
      <4>1. calls'[d] = calls[d]
        BY <3>2, <2>b, <2>r
      <4>2. calls[d].at = "queued" => /\ arms[calls[d].arm] # "ended" /\ calls[d].arm \in ArmsOfNode
                                      /\ HasCall(inbox[calls[d].arm], d)
        BY DEF QueuedIsInbox
      <4>3. calls[d].at = "queued" => HasCall(inbox'[calls[d].arm], d)
        BY <4>2, <2>c, <2>r, <2>e
      <4> QED
        BY <4>1, <4>2, <4>3 DEF QueuedIsInbox
    <3> QED
      BY <3>1, <3>2
  <2> QED
    BY <2>1, <2>2, <2>3, <2>4, <2>5, <2>6, <2>7
<1>17. ASSUME NEW c \in NodeCalls, NEW a \in ArmsOfNode, Ask(c, a) PROVE LifeInv'
  <2> USE <1>17 DEF Ask
  <2>1. LifeType'
    BY DEF LifeType
  <2>2. EpisodesMatch'
    BY DEF EpisodesMatch
  <2>3. SpawnedSoFar'
    BY DEF SpawnedSoFar
  <2>4. TearingHasTheRest'
    BY DEF TearingHasTheRest
  <2>5. ServedByThreads'
    BY DEF ServedByThreads
  <2>6. StatusFirst'
    BY DEF StatusFirst
  <2>7. QueuedIsInbox'
    <3>1. arms[a] = "runs"
      BY DEF ServedByThreads
    <3>2. \A d \in NodeCalls : d # c => calls'[d] = calls[d]
      BY DEF LifeType
    <3>3. calls'[c] = [at |-> "callback", arm |-> a, late |-> FALSE]
      BY DEF LifeType
    <3>4. calls'[c].at = "callback" /\ calls'[c].arm = a
      BY <3>3
    <3> QED
      BY <3>1, <3>2, <3>4 DEF QueuedIsInbox
  <2> QED
    BY <2>1, <2>2, <2>3, <2>4, <2>5, <2>6, <2>7
<1>18. ASSUME NEW a \in ArmsOfNode, HandleCall(a) PROVE LifeInv'
  <2> USE <1>18 DEF HandleCall
  <2> DEFINE q == inbox[a]
  <2>a. q \in Seq(NodeEvents) /\ q # <<>> /\ a \in ArmsOfNode
    BY DEF LifeType
  <2>b. /\ Tail(q) \in Seq(NodeEvents) /\ Head(q) \in NodeEvents
        /\ ~NoShutdown(Tail(q)) => ~NoShutdown(q)
        /\ OneShutdown(q) => OneShutdown(Tail(q))
        /\ Head(q) = ShutdownEvent => ~NoShutdown(q)
        /\ Head(q) = ShutdownEvent /\ OneShutdown(q) => NoShutdown(Tail(q))
        /\ \A c : HasCall(q, c) /\ Head(q) # CallEvent(c) => HasCall(Tail(q), c)
    <3> HIDE DEF q
    <3> QED
      BY <2>a, InboxShrinks
  <2>c. /\ inbox' \in [ArmsOfNode -> Seq(NodeEvents)] /\ inbox'[a] = Tail(q)
        /\ \A b \in ArmsOfNode : b # a => inbox'[b] = inbox[b]
    BY <2>b DEF LifeType
  <2>d. Head(q).is = "call"
    OBVIOUS
  <2> DEFINE d == Head(q).of
  <2>e. d \in NodeCalls /\ Head(q) = CallEvent(d) /\ Head(q) # ShutdownEvent
    BY <2>b, <2>d, EventKinds
  <2>f. /\ DOMAIN calls' = NodeCalls /\ \A c \in NodeCalls : c # d => calls'[c] = calls[c]
        /\ calls'[d].at = "answered" /\ calls'[d].arm = calls[d].arm
        /\ DOMAIN calls'[d] = {"at", "arm", "late"}
    BY <2>e DEF LifeType
  <2>g. \A c \in NodeCalls : c # d => CallEvent(c) # CallEvent(d)
    BY <2>e, EventKinds
  <2> HIDE DEF d
  <2>l. /\ DOMAIN loops' = ArmsOfNode /\ \A b \in ArmsOfNode : b # a => loops'[b] = loops[b]
        /\ \/ loops'[a] = loops[a] \/ loops'[a] = Over(loops[a])
           \/ ~loops[a].runs /\ loops'[a] = Began(loops[a])
    BY DEF LifeType
  <2>s. /\ DOMAIN Over(loops[a]) = {"runs", "begun", "ended"}
        /\ DOMAIN Began(loops[a]) = {"runs", "begun", "ended"}
    BY DEF Over, Began, LifeType
  <2>x. DOMAIN loops'[a] = {"runs", "begun", "ended"}
    BY <2>l, <2>s DEF LifeType
  <2> HIDE DEF q
  <2>y. q = inbox[a]
    BY DEF q
  <2>1. LifeType'
    <3>1. \A b \in ArmsOfNode : DOMAIN loops'[b] = {"runs", "begun", "ended"}
      BY <2>l, <2>x DEF LifeType
    <3>2. \A c \in NodeCalls : DOMAIN calls'[c] = {"at", "arm", "late"} /\ calls'[c].arm \in Nat
      BY <2>e, <2>f DEF LifeType
    <3> QED
      BY <2>c, <2>f, <2>l, <3>1, <3>2 DEF LifeType
  <2>2. EpisodesMatch'
    <3> DEFINE s == loops[a]
    <3>1. s.begun \in Nat /\ s.ended \in Nat /\ s.begun = s.ended + (IF s.runs THEN 1 ELSE 0)
      BY DEF EpisodesMatch
    <3>2. DOMAIN s = {"runs", "begun", "ended"}
      BY DEF LifeType
    <3> HIDE DEF s
    <3>3. ~s.runs => /\ Began(s).begun = Began(s).ended + 1 /\ Began(s).runs
                     /\ Began(s).begun \in Nat /\ Began(s).ended \in Nat
      BY <3>1, <3>2 DEF Began
    <3>4. /\ Over(s).begun = Over(s).ended /\ ~Over(s).runs
          /\ Over(s).begun \in Nat /\ Over(s).ended \in Nat
      <4>1. CASE s.runs
        BY <4>1, <3>1, <3>2 DEF Over
      <4>2. CASE ~s.runs
        BY <4>2, <3>1, <3>2 DEF Over
      <4> QED
        BY <4>1, <4>2
    <3>5. loops'[a] = s \/ loops'[a] = Over(s) \/ (~s.runs /\ loops'[a] = Began(s))
      BY <2>l DEF s
    <3>6. /\ loops'[a].begun \in Nat /\ loops'[a].ended \in Nat
          /\ loops'[a].begun = loops'[a].ended + (IF loops'[a].runs THEN 1 ELSE 0)
      BY <3>1, <3>3, <3>4, <3>5
    <3> QED
      BY <3>6, <2>l DEF EpisodesMatch
  <2>3. SpawnedSoFar'
    BY DEF SpawnedSoFar
  <2>4. TearingHasTheRest'
    BY DEF TearingHasTheRest
  <2>5. ServedByThreads'
    BY <2>b, <2>c, <2>y DEF ServedByThreads
  <2>6. StatusFirst'
    BY <2>b, <2>c, <2>y DEF StatusFirst
  <2>7. QueuedIsInbox'
    <3> SUFFICES ASSUME NEW c \in NodeCalls
                 PROVE  /\ calls'[c].at \in {"callback", "queued"} =>
                             calls'[c].arm \in ArmsOfNode /\ arms'[calls'[c].arm] # "none"
                        /\ calls'[c].at = "queued" =>
                             /\ arms'[calls'[c].arm] # "ended" /\ HasCall(inbox'[calls'[c].arm], c)
                             /\ arms'[calls'[c].arm] = "leaving" => calls'[c].late
                        /\ calls'[c].at = "lost" => calls'[c].late
      BY DEF QueuedIsInbox
    <3>1. CASE c = d
      BY <3>1, <2>f DEF QueuedIsInbox
    <3>2. CASE c # d
      BY <3>2, <2>b, <2>c, <2>e, <2>f, <2>g, <2>y DEF QueuedIsInbox
    <3> QED
      BY <3>1, <3>2
  <2> QED
    BY <2>1, <2>2, <2>3, <2>4, <2>5, <2>6, <2>7
<1>19. ASSUME NEW a \in ArmsOfNode, SessionFaults(a) PROVE LifeInv'
  <2> USE <1>19 DEF SessionFaults
  <2>l. /\ DOMAIN loops' = ArmsOfNode /\ \A b \in ArmsOfNode : b # a => loops'[b] = loops[b]
        /\ loops'[a] = Over(loops[a])
    BY DEF LifeType
  <2>s. DOMAIN Over(loops[a]) = {"runs", "begun", "ended"}
    BY DEF Over, LifeType
  <2>1. LifeType'
    BY <2>l, <2>s DEF LifeType
  <2>2. EpisodesMatch'
    <3> DEFINE s == loops[a]
    <3>1. s.begun \in Nat /\ s.ended \in Nat /\ s.begun = s.ended + (IF s.runs THEN 1 ELSE 0)
      BY DEF EpisodesMatch
    <3>2. DOMAIN s = {"runs", "begun", "ended"}
      BY DEF LifeType
    <3> HIDE DEF s
    <3>3. ~s.runs => /\ Began(s).begun = Began(s).ended + 1 /\ Began(s).runs
                     /\ Began(s).begun \in Nat /\ Began(s).ended \in Nat
      BY <3>1, <3>2 DEF Began
    <3>4. /\ Over(s).begun = Over(s).ended /\ ~Over(s).runs
          /\ Over(s).begun \in Nat /\ Over(s).ended \in Nat
      <4>1. CASE s.runs
        BY <4>1, <3>1, <3>2 DEF Over
      <4>2. CASE ~s.runs
        BY <4>2, <3>1, <3>2 DEF Over
      <4> QED
        BY <4>1, <4>2
    <3>5. loops'[a] = Over(s)
      BY <2>l DEF s
    <3> QED
      BY <3>4, <3>5, <2>l DEF EpisodesMatch
  <2>3. SpawnedSoFar'
    BY DEF SpawnedSoFar
  <2>4. TearingHasTheRest'
    BY DEF TearingHasTheRest
  <2>5. ServedByThreads'
    BY DEF ServedByThreads
  <2>6. StatusFirst'
    BY DEF StatusFirst
  <2>7. QueuedIsInbox'
    BY DEF QueuedIsInbox
  <2> QED
    BY <2>1, <2>2, <2>3, <2>4, <2>5, <2>6, <2>7
<1>20. ASSUME NEW a \in ArmsOfNode, HandleShutdown(a) PROVE LifeInv'
  <2> USE <1>20 DEF HandleShutdown
  <2> DEFINE q == inbox[a]
  <2>a. q \in Seq(NodeEvents) /\ q # <<>> /\ a \in ArmsOfNode
    BY DEF LifeType
  <2>b. /\ Tail(q) \in Seq(NodeEvents) /\ Head(q) \in NodeEvents
        /\ ~NoShutdown(Tail(q)) => ~NoShutdown(q)
        /\ OneShutdown(q) => OneShutdown(Tail(q))
        /\ Head(q) = ShutdownEvent => ~NoShutdown(q)
        /\ Head(q) = ShutdownEvent /\ OneShutdown(q) => NoShutdown(Tail(q))
        /\ \A c : HasCall(q, c) /\ Head(q) # CallEvent(c) => HasCall(Tail(q), c)
    <3> HIDE DEF q
    <3> QED
      BY <2>a, InboxShrinks
  <2>c. /\ inbox' \in [ArmsOfNode -> Seq(NodeEvents)] /\ inbox'[a] = Tail(q)
        /\ \A b \in ArmsOfNode : b # a => inbox'[b] = inbox[b]
    BY <2>b DEF LifeType
  <2>d. Head(q) = ShutdownEvent
    BY <2>b, EventKinds
  <2>e. \A c \in NodeCalls : Head(q) # CallEvent(c)
    BY <2>d, EventKinds
  <2> HIDE DEF q
  <2>y. q = inbox[a]
    BY DEF q
  <2>z. ~NoShutdown(q) /\ served[a] = {} /\ main.at \in {"unwind", "killed"} /\ NoShutdown(Tail(q))
    BY <2>b, <2>d, <2>y DEF ServedByThreads
  <2>1. LifeType'
    BY <2>c DEF LifeType
  <2>2. EpisodesMatch'
    BY DEF EpisodesMatch
  <2>3. SpawnedSoFar'
    BY <2>z DEF SpawnedSoFar
  <2>4. TearingHasTheRest'
    BY <2>z DEF TearingHasTheRest, LifeType
  <2>5. ServedByThreads'
    <3>1. \A b \in ArmsOfNode : b # a => arms'[b] = arms[b]
      BY DEF LifeType
    <3>2. OneShutdown(Tail(q))
      BY <2>z DEF NoShutdown, OneShutdown
    <3> QED
      BY <2>c, <2>z, <3>1, <3>2 DEF ServedByThreads
  <2>6. StatusFirst'
    BY <2>y, <2>z DEF StatusFirst
  <2>7. QueuedIsInbox'
    BY <2>b, <2>c, <2>e, <2>y DEF QueuedIsInbox, LifeType
  <2> QED
    BY <2>1, <2>2, <2>3, <2>4, <2>5, <2>6, <2>7
<1>21. ASSUME NEW a \in ArmsOfNode, ArmStops(a) PROVE LifeInv'
  <2> USE <1>21 DEF ArmStops
  <2>l. /\ DOMAIN loops' = ArmsOfNode /\ \A b \in ArmsOfNode : b # a => loops'[b] = loops[b]
        /\ loops'[a] = Over(loops[a])
    BY DEF LifeType, EndsSession
  <2>s. DOMAIN Over(loops[a]) = {"runs", "begun", "ended"}
    BY DEF Over, LifeType
  <2>1. LifeType'
    BY <2>l, <2>s DEF LifeType
  <2>2. EpisodesMatch'
    <3> DEFINE s == loops[a]
    <3>1. s.begun \in Nat /\ s.ended \in Nat /\ s.begun = s.ended + (IF s.runs THEN 1 ELSE 0)
      BY DEF EpisodesMatch
    <3>2. DOMAIN s = {"runs", "begun", "ended"}
      BY DEF LifeType
    <3> HIDE DEF s
    <3>3. ~s.runs => /\ Began(s).begun = Began(s).ended + 1 /\ Began(s).runs
                     /\ Began(s).begun \in Nat /\ Began(s).ended \in Nat
      BY <3>1, <3>2 DEF Began
    <3>4. /\ Over(s).begun = Over(s).ended /\ ~Over(s).runs
          /\ Over(s).begun \in Nat /\ Over(s).ended \in Nat
      <4>1. CASE s.runs
        BY <4>1, <3>1, <3>2 DEF Over
      <4>2. CASE ~s.runs
        BY <4>2, <3>1, <3>2 DEF Over
      <4> QED
        BY <4>1, <4>2
    <3>5. loops'[a] = Over(s)
      BY <2>l DEF s
    <3> QED
      BY <3>4, <3>5, <2>l DEF EpisodesMatch, LifeType
  <2>3. SpawnedSoFar'
    BY DEF SpawnedSoFar
  <2>4. TearingHasTheRest'
    BY DEF TearingHasTheRest
  <2>5. ServedByThreads'
    BY DEF ServedByThreads
  <2>6. StatusFirst'
    BY DEF StatusFirst
  <2>7. QueuedIsInbox'
    BY DEF QueuedIsInbox
  <2> QED
    BY <2>1, <2>2, <2>3, <2>4, <2>5, <2>6, <2>7
<1>22. ASSUME NEW a \in ArmsOfNode, DrainCall(a) PROVE LifeInv'
  <2> USE <1>22 DEF DrainCall
  <2> DEFINE q == inbox[a]
  <2>a. q \in Seq(NodeEvents) /\ q # <<>> /\ a \in ArmsOfNode
    BY DEF LifeType
  <2>b. /\ Tail(q) \in Seq(NodeEvents) /\ Head(q) \in NodeEvents
        /\ ~NoShutdown(Tail(q)) => ~NoShutdown(q)
        /\ OneShutdown(q) => OneShutdown(Tail(q))
        /\ Head(q) = ShutdownEvent => ~NoShutdown(q)
        /\ Head(q) = ShutdownEvent /\ OneShutdown(q) => NoShutdown(Tail(q))
        /\ \A c : HasCall(q, c) /\ Head(q) # CallEvent(c) => HasCall(Tail(q), c)
    <3> HIDE DEF q
    <3> QED
      BY <2>a, InboxShrinks
  <2>c. /\ inbox' \in [ArmsOfNode -> Seq(NodeEvents)] /\ inbox'[a] = Tail(q)
        /\ \A b \in ArmsOfNode : b # a => inbox'[b] = inbox[b]
    BY <2>b DEF LifeType
  <2>y. NoShutdown(q)
    BY DEF ServedByThreads
  <2>d. Head(q) # ShutdownEvent
    BY <2>b, <2>y
  <2> DEFINE d == Head(q).of
  <2>e. d \in NodeCalls /\ Head(q) = CallEvent(d) /\ Head(q) # ShutdownEvent
    BY <2>b, <2>d, EventKinds
  <2>f. /\ DOMAIN calls' = NodeCalls /\ \A c \in NodeCalls : c # d => calls'[c] = calls[c]
        /\ calls'[d].at = "answered" /\ calls'[d].arm = calls[d].arm
        /\ DOMAIN calls'[d] = {"at", "arm", "late"}
    BY <2>e DEF LifeType
  <2>g. \A c \in NodeCalls : c # d => CallEvent(c) # CallEvent(d)
    BY <2>e, EventKinds
  <2> HIDE DEF d
  <2> HIDE DEF q
  <2>z. q = inbox[a]
    BY DEF q
  <2>1. LifeType'
    BY <2>c, <2>f DEF LifeType
  <2>2. EpisodesMatch'
    BY DEF EpisodesMatch
  <2>3. SpawnedSoFar'
    BY DEF SpawnedSoFar
  <2>4. TearingHasTheRest'
    BY DEF TearingHasTheRest
  <2>5. ServedByThreads'
    BY <2>b, <2>c, <2>z DEF ServedByThreads
  <2>6. StatusFirst'
    BY <2>b, <2>c, <2>z DEF StatusFirst
  <2>7. QueuedIsInbox'
    <3> SUFFICES ASSUME NEW c \in NodeCalls
                 PROVE  /\ calls'[c].at \in {"callback", "queued"} =>
                             calls'[c].arm \in ArmsOfNode /\ arms'[calls'[c].arm] # "none"
                        /\ calls'[c].at = "queued" =>
                             /\ arms'[calls'[c].arm] # "ended" /\ HasCall(inbox'[calls'[c].arm], c)
                             /\ arms'[calls'[c].arm] = "leaving" => calls'[c].late
                        /\ calls'[c].at = "lost" => calls'[c].late
      BY DEF QueuedIsInbox
    <3>1. CASE c = d
      BY <3>1, <2>f DEF QueuedIsInbox
    <3>2. CASE c # d
      BY <3>2, <2>b, <2>c, <2>e, <2>f, <2>g, <2>z DEF QueuedIsInbox
    <3> QED
      BY <3>1, <3>2
  <2> QED
    BY <2>1, <2>2, <2>3, <2>4, <2>5, <2>6, <2>7
<1>23. ASSUME NEW a \in ArmsOfNode, LastLook(a) PROVE LifeInv'
  <2> USE <1>23 DEF LastLook
  <2>1. LifeType'
    BY DEF LifeType
  <2>2. EpisodesMatch'
    BY DEF EpisodesMatch
  <2>3. SpawnedSoFar'
    BY DEF SpawnedSoFar
  <2>4. TearingHasTheRest'
    BY DEF TearingHasTheRest
  <2>5. ServedByThreads'
    BY DEF ServedByThreads
  <2>6. StatusFirst'
    BY DEF StatusFirst
  <2>7. QueuedIsInbox'
    <3>1. \A c \in NodeCalls : ~HasCall(inbox[a], c)
      BY EmptyInbox
    <3> QED
      BY <3>1 DEF QueuedIsInbox, LifeType
  <2> QED
    BY <2>1, <2>2, <2>3, <2>4, <2>5, <2>6, <2>7
<1>24. ASSUME NEW a \in ArmsOfNode, ArmEnds(a) PROVE LifeInv'
  <2> USE <1>24 DEF ArmEnds
  <2>1. LifeType'
    BY DEF LifeType
  <2>2. EpisodesMatch'
    BY DEF EpisodesMatch
  <2>3. SpawnedSoFar'
    BY DEF SpawnedSoFar
  <2>4. TearingHasTheRest'
    BY DEF TearingHasTheRest
  <2>5. ServedByThreads'
    <3>1. /\ inbox'[a] = <<>> /\ \A b \in ArmsOfNode : b # a => inbox'[b] = inbox[b] /\ arms'[b] = arms[b]
      BY DEF LifeType
    <3> QED
      BY <3>1, EmptyInbox DEF ServedByThreads
  <2>6. StatusFirst'
    BY DEF StatusFirst
  <2>7. QueuedIsInbox'
    BY DEF QueuedIsInbox
  <2> QED
    BY <2>1, <2>2, <2>3, <2>4, <2>5, <2>6, <2>7
<1>25. CASE UNCHANGED lifeVars
  BY <1>25 DEF lifeVars, LifeType, EpisodesMatch, SpawnedSoFar, TearingHasTheRest,
     ServedByThreads, StatusFirst, QueuedIsInbox
<1> QED
  BY <1>1, <1>2, <1>3, <1>4, <1>5, <1>6, <1>7, <1>8, <1>9, <1>10, <1>11, <1>12, <1>13, <1>14, <1>15, <1>16, <1>17, <1>18, <1>19, <1>20, <1>21, <1>22, <1>23, <1>24, <1>25 DEF LifeNext, MainThread, ArmRuns, ArmSteps

\* What the life's invariant says of its promises.
LEMMA LifeShows == LifeInv => NothingRunsOn /\ ServedIsAnswered /\ StatusOfWholeNode
<1> SUFFICES ASSUME LifeInv PROVE NothingRunsOn /\ ServedIsAnswered /\ StatusOfWholeNode
  OBVIOUS
<1> USE DEF LifeInv
<1>1. NothingRunsOn
  BY DEF NothingRunsOn, TearingHasTheRest, EpisodesMatch
<1>2. ServedIsAnswered
  BY DEF ServedIsAnswered, TearingHasTheRest, QueuedIsInbox
<1>3. StatusOfWholeNode
  BY DEF StatusOfWholeNode, StatusFirst
<1> QED
  BY <1>1, <1>2, <1>3

(* Whatever its callers, its worker and the hand do in whatever order, the gripper's driver does  *)
(* the newest order and sleeps on none; and a node of any number of arms that is gone has left    *)
(* none of them in a session, and no query unanswered that reached an arm in time.                *)
THEOREM ThreadsAreSafe == NodeSpec => []ThreadSafety
<1> DEFINE PartInv == (part = "gripper" => HandInv) /\ (part = "life" => LifeInv)
<1>1. NodeInit => PartInv
  BY HandInitially, LifeInitially DEF NodeInit
<1>2. PartInv /\ [NodeNext]_nodeVars => PartInv'
  <2> SUFFICES ASSUME PartInv, [NodeNext]_nodeVars PROVE PartInv'
    OBVIOUS
  <2>1. ASSUME part' = "gripper" PROVE HandInv'
    <3>1. part = "gripper" /\ [Next]_vars
      BY <2>1 DEF NodeNext, nodeVars
    <3> QED
      BY <3>1, HandStep
  <2>2. ASSUME part' = "life" PROVE LifeInv'
    <3>1. part = "life" /\ [LifeNext]_lifeVars
      BY <2>2 DEF NodeNext, nodeVars
    <3> QED
      BY <3>1, LifeStep
  <2> QED
    BY <2>1, <2>2
<1>3. PartInv => ThreadSafety
  BY HandShows, LifeShows DEF ThreadSafety
<1> QED
  BY <1>1, <1>2, <1>3, PTL DEF NodeSpec

-----------------------------------------------------------------------------
(* Live tuning. *)

TuningType ==
    /\ config \in Tunings /\ slot.words \in Tunings /\ DOMAIN slot = {"seq", "words"}
    /\ DOMAIN params = {"version", "origin", "seed"} /\ params.version \in Nat /\ params.seed \in Nat
    /\ DOMAIN known = TuningClients /\ DOMAIN requests = TuningClients
    /\ \A c \in TuningClients : requests[c] # NoRequest => requests[c].update \in Updates
    /\ setting # NoRequest => setting.by \in TuningClients /\ setting.request.update \in Updates

\* What was read of this version and this session is what is in effect.
Current(read) ==
    /\ read.version \in Nat /\ read.version <= params.version
    /\ read.seed \in Nat /\ read.seed <= params.seed
    /\ read.version = params.version /\ read.seed = params.seed => read.words = InEffect
ReadsAreCurrent ==
    /\ \A c \in TuningClients :
         Current(known[c]) /\ (requests[c] # NoRequest => Current(requests[c].read))
    /\ setting # NoRequest => Current(setting.request.read)

\* A set that goes through is of a session, was read at this version and is confirmed.
SetIsLegal ==
    setting # NoRequest =>
      /\ tuned
      /\ setting.by \notin Blind => setting.request.read.version = params.version
      /\ Unconfirmed(slot.words, Applied(slot.words, setting.request.update),
                     setting.request.confirm) = {}

OriginInEffect ==
    params.origin # NoOrigin => params.origin.version = params.version /\ params.origin.words = InEffect

TuningInv == TuningType /\ ReadsAreCurrent /\ SetIsLegal /\ OriginInEffect /\ PairStaysDamped

\* A set of numbers that has a member has a least one.
LEMMA LeastExists ==
    ASSUME NEW D, D \subseteq Nat, D # {}
    PROVE  \E x \in D : \A y \in D : x <= y
<1>1. PICK x \in D : \A y \in D : <<y, x>> \notin OpToRel(<, Nat)
  BY NatLessThanWellFounded, WFMin, Zenon
<1>2. OpToRel(<, Nat) = {ss \in Nat \X Nat : ss[1] < ss[2]}
  BY Zenon DEF OpToRel
<1>3. ASSUME NEW y \in D PROVE x <= y
  <2>1. <<y, x>> \in Nat \X Nat
    OBVIOUS
  <2>2. ~(y < x)
    BY <1>1, <1>2, <2>1
  <2> QED
    BY <2>2
<1> QED
  BY <1>3

\* The floor of a spring is a damping, and not above the damping's bound.
LEMMA FloorIsDamping ==
    ASSUME NEW s \in 0..Bound["spring"]
    PROVE  Floor[s] \in 0..Bound["damping"]
<1> DEFINE D == {d \in 0..s : d * d >= s}
<1>1. Bound["spring"] \in Nat /\ Bound["damping"] \in Nat /\ s \in Nat
  BY TuningAssumption DEF Tunings
<1>2. s \in D
  <2>1. s * s >= s
    BY <1>1
  <2> QED
    BY <1>1, <2>1
<1>3. D \subseteq Nat /\ D # {}
  BY <1>1, <1>2
<1>4. PICK x \in D : \A y \in D : x <= y
  <2> HIDE DEF D
  <2> QED
    BY <1>3, LeastExists
<1>6. Min(D) \in D
  <2> HIDE DEF D
  <2> QED
    BY <1>4 DEF Min
<1>7. Floor[s] = Min(D)
  BY DEF Floor
<1>8. Floor[s] <= Bound["damping"]
  BY FloorAssumption
<1> QED
  BY <1>1, <1>6, <1>7, <1>8

\* A change leaves a tuning, and a pair that is damped or the one it has found.
LEMMA AppliedTunes ==
    ASSUME NEW words \in Tunings, NEW u \in Updates
    PROVE  LET after == Applied(words, u)
           IN  /\ after \in Tunings
               /\ \/ after["damping"] >=
                       Floor[Clamp(after["spring"], Least["spring"], Bound["spring"])]
                  \/ after["spring"] = words["spring"] /\ after["damping"] = words["damping"]
<1> DEFINE over == [w \in Tunables |-> IF w \in DOMAIN u THEN u[w] ELSE words[w]]
           spring == IF "spring" \in DOMAIN u THEN Clamp(u["spring"], Least["spring"], Bound["spring"])
                     ELSE words["spring"]
           floor == Floor[Clamp(spring, Least["spring"], Bound["spring"])]
           high == IF "damping" \in DOMAIN u THEN Bound["damping"] ELSE over["damping"] + floor
           after == Applied(words, u)
<1>1. /\ "spring" \in Tunables /\ "damping" \in Tunables
      /\ \A w \in Tunables : /\ Least[w] \in Nat /\ Bound[w] \in Nat /\ Least[w] <= Bound[w]
                             /\ words[w] \in Nat
      /\ DOMAIN u \subseteq Tunables /\ \A w \in DOMAIN u : u[w] \in Nat
  BY TuningAssumption DEF Tunings
<1>2. over \in Tunings
  BY <1>1 DEF Tunings
<1>3. spring \in Nat
  <2>1. CASE "spring" \in DOMAIN u
    BY <2>1, <1>1 DEF Clamp
  <2>2. CASE "spring" \notin DOMAIN u
    BY <2>2, <1>1
  <2> QED
    BY <2>1, <2>2
<1>4. /\ Clamp(spring, Least["spring"], Bound["spring"]) \in 0..Bound["spring"]
  <2> HIDE DEF spring
  <2> QED
    BY <1>1, <1>3 DEF Clamp
<1>5. floor \in 0..Bound["damping"]
  <2> HIDE DEF spring
  <2> QED
    BY <1>4, FloorIsDamping
<1>6. after = [w \in Tunables |->
           CASE w = "spring" -> spring
             [] w = "damping" -> IF {"spring", "damping"} \cap DOMAIN u = {} THEN over[w]
                                 ELSE Clamp(over[w], floor, high)
             [] OTHER -> IF w \in DOMAIN u THEN Clamp(u[w], Least[w], Bound[w]) ELSE words[w]]
  BY DEF Applied
<1>7. after["spring"] = spring
  BY <1>1, <1>6
<1>8. after["damping"] = IF {"spring", "damping"} \cap DOMAIN u = {} THEN over["damping"]
                         ELSE Clamp(over["damping"], floor, high)
  BY <1>1, <1>6
<1>9. over["damping"] \in Nat /\ Bound["damping"] \in Nat
  BY <1>1, <1>2 DEF Tunings
<1>10. Clamp(over["damping"], floor, high) \in Nat /\ Clamp(over["damping"], floor, high) >= floor
  <2> HIDE DEF floor, over
  <2>1. CASE "damping" \in DOMAIN u
    BY <2>1, <1>5, <1>9 DEF Clamp
  <2>2. CASE "damping" \notin DOMAIN u
    BY <2>2, <1>5, <1>9 DEF Clamp
  <2> QED
    BY <2>1, <2>2
<1>11. after \in Tunings
  <2> SUFFICES ASSUME NEW w \in Tunables PROVE after[w] \in Nat
    BY <1>6 DEF Tunings
  <2>1. CASE w = "spring"
    BY <2>1, <1>3, <1>7
  <2>2. CASE w = "damping"
    BY <2>2, <1>8, <1>9, <1>10
  <2>3. CASE w \notin {"spring", "damping"}
    <3>1. after[w] = IF w \in DOMAIN u THEN Clamp(u[w], Least[w], Bound[w]) ELSE words[w]
      BY <2>3, <1>6
    <3> HIDE DEF after
    <3>2. CASE w \in DOMAIN u
      BY <3>1, <3>2, <1>1 DEF Clamp
    <3> QED
      BY <3>1, <3>2, <1>1
  <2> QED
    BY <2>1, <2>2, <2>3
<1>12. CASE {"spring", "damping"} \cap DOMAIN u = {}
  <2>1. "spring" \notin DOMAIN u /\ "damping" \notin DOMAIN u
    BY <1>12
  <2>2. spring = words["spring"] /\ over["damping"] = words["damping"]
    BY <2>1, <1>1
  <2> QED
    BY <1>7, <1>8, <1>11, <1>12, <2>2
<1>13. CASE {"spring", "damping"} \cap DOMAIN u # {}
  <2>1. after["damping"] >= Floor[Clamp(after["spring"], Least["spring"], Bound["spring"])]
    <3>1. after["damping"] >= floor
      BY <1>8, <1>10, <1>13
    <3> QED
      BY <1>7, <3>1
  <2> QED
    BY <1>11, <2>1
<1> QED
  BY <1>12, <1>13

\* Before anybody has read or asked, the config is in effect.
LEMMA TuningInitially == ParamsInit => TuningInv
<1> SUFFICES ASSUME ParamsInit PROVE TuningInv
  OBVIOUS
<1>1. config \in Tunings
  BY TuningAssumption DEF ParamsInit
<1> QED
  BY <1>1 DEF ParamsInit, TuningInv, TuningType, ReadsAreCurrent, Current, SetIsLegal,
     OriginInEffect, PairStaysDamped, InEffect

\* Every read, request, refusal, set, reseed and crossing keeps the invariant of the tuning.
LEMMA TuningStep == TuningInv /\ [ParamsNext]_paramsVars => TuningInv'
<1> SUFFICES ASSUME TuningInv, [ParamsNext]_paramsVars PROVE TuningInv'
  OBVIOUS
<1> USE DEF TuningInv
<1>1. ASSUME NEW c \in TuningClients, ReadParams(c) PROVE TuningInv'
  <2> USE <1>1 DEF ReadParams, loopVars, clientVars
  <2>1. TuningType'
    BY DEF TuningType, TuningType, Current, InEffect
  <2>2. ReadsAreCurrent'
    BY DEF ReadsAreCurrent, TuningType, Current, InEffect
  <2>3. SetIsLegal'
    BY DEF SetIsLegal, TuningType, Current, InEffect
  <2>4. OriginInEffect'
    BY DEF OriginInEffect, TuningType, Current, InEffect
  <2>5. PairStaysDamped'
    BY DEF PairStaysDamped, TuningType, Current, InEffect
  <2> QED
    BY <2>1, <2>2, <2>3, <2>4, <2>5
<1>2. ASSUME NEW c \in TuningClients, AskSet(c) PROVE TuningInv'
  <2> USE <1>2 DEF AskSet, loopVars, clientVars
  <2>1. TuningType'
    BY DEF TuningType, TuningType, Current, InEffect
  <2>2. ReadsAreCurrent'
    BY DEF ReadsAreCurrent, TuningType, Current, InEffect
  <2>3. SetIsLegal'
    BY DEF SetIsLegal, TuningType, Current, InEffect
  <2>4. OriginInEffect'
    BY DEF OriginInEffect, TuningType, Current, InEffect
  <2>5. PairStaysDamped'
    BY DEF PairStaysDamped, TuningType, Current, InEffect
  <2> QED
    BY <2>1, <2>2, <2>3, <2>4, <2>5
<1>3. ASSUME NEW c \in TuningClients, RefuseSet(c) PROVE TuningInv'
  <2> USE <1>3 DEF RefuseSet, loopVars, clientVars
  <2>1. TuningType'
    BY DEF TuningType, TuningType, Current, InEffect
  <2>2. ReadsAreCurrent'
    BY DEF ReadsAreCurrent, TuningType, Current, InEffect
  <2>3. SetIsLegal'
    BY DEF SetIsLegal, TuningType, Current, InEffect
  <2>4. OriginInEffect'
    BY DEF OriginInEffect, TuningType, Current, InEffect
  <2>5. PairStaysDamped'
    BY DEF PairStaysDamped, TuningType, Current, InEffect
  <2> QED
    BY <2>1, <2>2, <2>3, <2>4, <2>5
<1>4. ASSUME NEW c \in TuningClients, TuneSlot(c) PROVE TuningInv'
  <2> USE <1>4 DEF TuneSlot, loopVars, clientVars
  <2>1. TuningType'
    BY DEF TuningType, TuningType, Current, InEffect
  <2>2. ReadsAreCurrent'
    BY DEF ReadsAreCurrent, TuningType, Current, InEffect
  <2>3. SetIsLegal'
    <3>1. /\ setting'.by = c /\ setting'.request = requests[c] /\ slot'.words = slot.words
      BY DEF TuningType
    <3> QED
      BY <3>1 DEF SetIsLegal, Stale
  <2>4. OriginInEffect'
    BY DEF OriginInEffect, TuningType, Current, InEffect
  <2>5. PairStaysDamped'
    BY DEF PairStaysDamped, TuningType, Current, InEffect
  <2> QED
    BY <2>1, <2>2, <2>3, <2>4, <2>5
<1>5. CASE TunedStarts
  <2> USE <1>5 DEF TunedStarts, loopVars, clientVars
  <2>a. /\ params'.version = params.version /\ params'.seed = params.seed + 1
        /\ params'.origin = NoOrigin /\ DOMAIN params' = {"version", "origin", "seed"}
    BY DEF Reseeded, TuningType
  <2>b. slot'.words = config /\ DOMAIN slot' = {"seq", "words"} /\ InEffect' = config
    BY DEF InEffect
  <2>1. TuningType'
    BY <2>a, <2>b DEF TuningType
  <2>2. ReadsAreCurrent'
    <3>1. ASSUME NEW r, Current(r) PROVE Current(r)'
      BY <2>a, <3>1 DEF Current, TuningType
    <3> QED
      BY <3>1 DEF ReadsAreCurrent
  <2>3. SetIsLegal'
    BY DEF SetIsLegal, TuningType, Current, InEffect
  <2>4. OriginInEffect'
    BY <2>a DEF OriginInEffect
  <2>5. PairStaysDamped'
    BY DEF PairStaysDamped, TuningType, Current, InEffect
  <2> QED
    BY <2>1, <2>2, <2>3, <2>4, <2>5
<1>6. CASE TunedEnds
  <2> USE <1>6 DEF TunedEnds, loopVars, clientVars
  <2>a. /\ params'.version = params.version /\ params'.seed = params.seed + 1
        /\ params'.origin = NoOrigin /\ DOMAIN params' = {"version", "origin", "seed"}
    BY DEF Reseeded, TuningType
  <2>b. slot'.words = config /\ DOMAIN slot' = {"seq", "words"} /\ InEffect' = config
    BY DEF InEffect
  <2>1. TuningType'
    BY <2>a, <2>b DEF TuningType
  <2>2. ReadsAreCurrent'
    <3>1. ASSUME NEW r, Current(r) PROVE Current(r)'
      BY <2>a, <3>1 DEF Current, TuningType
    <3> QED
      BY <3>1 DEF ReadsAreCurrent
  <2>3. SetIsLegal'
    BY DEF SetIsLegal, TuningType, Current, InEffect
  <2>4. OriginInEffect'
    BY <2>a DEF OriginInEffect
  <2>5. PairStaysDamped'
    BY DEF PairStaysDamped, TuningType, Current, InEffect
  <2> QED
    BY <2>1, <2>2, <2>3, <2>4, <2>5
<1>7. CASE AcceptSet
  <2> USE <1>7 DEF AcceptSet, loopVars, clientVars
  <2> DEFINE u == setting.request.update
             after == Applied(slot.words, u)
  <2>a. /\ params'.version = params.version + 1 /\ params'.seed = params.seed
        /\ DOMAIN params' = {"version", "origin", "seed"}
        /\ params'.origin.version = params.version + 1 /\ params'.origin.words = slot'.words
        /\ slot'.words = after /\ DOMAIN slot' = {"seq", "words"}
    BY DEF TuningType
  <2>b. u \in Updates /\ slot.words \in Tunings /\ tuned
    BY DEF TuningType, SetIsLegal
  <2>c. /\ after \in Tunings
        /\ \/ after["damping"] >=
                Floor[Clamp(after["spring"], Least["spring"], Bound["spring"])]
           \/ after["spring"] = slot.words["spring"] /\ after["damping"] = slot.words["damping"]
    BY <2>b, AppliedTunes
  <2> HIDE DEF after, u
  <2>1. TuningType'
    BY <2>a, <2>b, <2>c DEF TuningType
  <2>2. ReadsAreCurrent'
    BY DEF ReadsAreCurrent, TuningType, Current, InEffect
  <2>3. SetIsLegal'
    BY DEF SetIsLegal, TuningType, Current, InEffect
  <2>4. OriginInEffect'
    BY <2>a, <2>b DEF OriginInEffect, InEffect
  <2>5. PairStaysDamped'
    <3>1. CASE after["damping"] >= Floor[Clamp(after["spring"], Least["spring"], Bound["spring"])]
      BY <3>1, <2>a DEF PairStaysDamped
    <3>2. CASE after["spring"] = slot.words["spring"] /\ after["damping"] = slot.words["damping"]
      BY <3>2, <2>a DEF PairStaysDamped
    <3> QED
      BY <3>1, <3>2, <2>c
  <2> QED
    BY <2>1, <2>2, <2>3, <2>4, <2>5
<1>8. CASE ReadSequence
  <2> USE <1>8 DEF ReadSequence, loopVars, clientVars
  <2>1. TuningType'
    BY DEF TuningType, TuningType, Current, InEffect
  <2>2. ReadsAreCurrent'
    BY DEF ReadsAreCurrent, TuningType, Current, InEffect
  <2>3. SetIsLegal'
    BY DEF SetIsLegal, TuningType, Current, InEffect
  <2>4. OriginInEffect'
    BY DEF OriginInEffect, TuningType, Current, InEffect
  <2>5. PairStaysDamped'
    BY DEF PairStaysDamped, TuningType, Current, InEffect
  <2> QED
    BY <2>1, <2>2, <2>3, <2>4, <2>5
<1>9. CASE Cross
  <2> USE <1>9 DEF Cross, loopVars, clientVars
  <2>1. TuningType'
    BY DEF TuningType, TuningType, Current, InEffect
  <2>2. ReadsAreCurrent'
    BY DEF ReadsAreCurrent, TuningType, Current, InEffect
  <2>3. SetIsLegal'
    BY DEF SetIsLegal, TuningType, Current, InEffect
  <2>4. OriginInEffect'
    BY DEF OriginInEffect, TuningType, Current, InEffect
  <2>5. PairStaysDamped'
    BY DEF PairStaysDamped, TuningType, Current, InEffect
  <2> QED
    BY <2>1, <2>2, <2>3, <2>4, <2>5
<1>10. CASE UNCHANGED paramsVars
  BY <1>10 DEF paramsVars, TuningType, ReadsAreCurrent, Current, SetIsLegal, OriginInEffect,
     PairStaysDamped, InEffect
<1> QED
  BY <1>1, <1>2, <1>3, <1>4, <1>5, <1>6, <1>7, <1>8, <1>9, <1>10 DEF ParamsNext

\* What the tuning's invariant says of its promises.
LEMMA TuningShows == TuningInv => NoLostUpdate /\ PairStaysDamped
  BY DEF TuningInv, TuningType, ReadsAreCurrent, Current, SetIsLegal, OriginInEffect, InEffect,
     NoLostUpdate

(* For every set of words, bounds, seeds and changes, and whatever clients read, send and are     *)
(* refused in whatever order: a set is applied to what its sender had read, an origin's values    *)
(* are the ones in effect, and a change leaves no undamped pair that it did not find.             *)
THEOREM TuningIsSafe == NodeSpec => []TuningSafety
<1> DEFINE PartInv == part = "params" => TuningInv
<1>1. NodeInit => PartInv
  BY TuningInitially DEF NodeInit
<1>2. PartInv /\ [NodeNext]_nodeVars => PartInv'
  <2> SUFFICES ASSUME PartInv, [NodeNext]_nodeVars, part' = "params" PROVE TuningInv'
    OBVIOUS
  <2>1. part = "params" /\ [ParamsNext]_paramsVars
    BY DEF NodeNext, nodeVars
  <2> QED
    BY <2>1, TuningStep
<1>3. PartInv => TuningSafety
  BY TuningShows DEF TuningSafety
<1> QED
  BY <1>1, <1>2, <1>3, PTL DEF NodeSpec

\* Only the arm thread's own set ends, and it was confirmed when it began.
LEMMA SetsAreConfirmed ==
    ASSUME TuningInv, [ParamsNext]_paramsVars, setting # NoRequest, setting' = NoRequest,
           NEW w \in DOMAIN ConfirmAt, slot'.words[w] > ConfirmAt[w], slot.words[w] <= ConfirmAt[w]
    PROVE  w \in setting.request.confirm
<1>1. AcceptSet
  BY DEF ParamsNext, ReadParams, AskSet, RefuseSet, TuneSlot, TunedStarts, TunedEnds, ReadSequence,
     Cross, paramsVars
<1>2. slot'.words = Applied(slot.words, setting.request.update)
  BY <1>1 DEF AcceptSet
<1> QED
  BY <1>2 DEF TuningInv, SetIsLegal, Unconfirmed

-----------------------------------------------------------------------------
(* The recording of sessions. *)

Samples == [phase : {"start", "end"}, file : Names \cup {NoEpisode}]

RecordingType ==
    /\ secs \in 1..MaxSecs /\ sessions \in 0..MaxSessions
    /\ DOMAIN disk \subseteq Names /\ \A name \in DOMAIN disk : disk[name] \in Seq(Nat) /\ name.n <= sessions
    /\ episode \in DOMAIN disk \cup {NoEpisode}
    /\ channel \in Seq(Nat) /\ batch \in Seq(Nat)
    /\ pushed \in Nat /\ lost \in Nat /\ cycle \in Nat
    /\ published \in Seq(Samples)

\* What there is of a recording in each phase of its session.
PhaseOfRecording ==
    /\ session = "idle" =>
         /\ episode = NoEpisode /\ ~discarding /\ loop = "off"
         /\ cycle = 0 /\ pushed = 0 /\ lost = 0 /\ channel = <<>> /\ batch = <<>>
    /\ session \in {"closing", "joining", "opened"} => loop = "off"
    /\ session = "joining" => episode # NoEpisode
    /\ discarding => session \in {"closing", "joining"}
    /\ writer = "none" <=> episode = NoEpisode
    /\ session = "opened" => cycle = 0
    /\ ~sender /\ writer # "none" => session = "joining"

\* A file is announced once its session runs, and a discarded one never.
AnnouncedOnDisk ==
    /\ Announced \subseteq DOMAIN disk
    /\ session \in {"opened", "started"} \/ discarding => episode \notin Announced

Increases(s) == \A i, j \in DOMAIN s : i < j => s[i] < s[j]
Before(s, t) == \A i \in DOMAIN s, j \in DOMAIN t : s[i] < t[j]
Within(s, top) == \A i \in DOMAIN s : s[i] <= top
OneAfterAnother(q, r, s, top) ==
    /\ Increases(q) /\ Increases(r) /\ Increases(s) /\ Before(q, r) /\ Before(q, s) /\ Before(r, s)
    /\ Within(q, top) /\ Within(r, top) /\ Within(s, top)

\* The records of a file, a batch and a channel, and those that were dropped.
Counted(q, r, s, gone) == Len(q) + Len(r) + Len(s) + gone

\* What was pushed is in the file, in the batch, in the channel, or counted as lost.
AllAccounted ==
    /\ writer \in {"last", "ended"} => ~sender /\ channel = <<>>
    /\ writer = "ended" => batch = <<>>
    /\ episode # NoEpisode => pushed = (IF loop = "storing" THEN cycle - 1 ELSE cycle)
    /\ writer \in {"asleep", "draining", "writing", "last", "ended"} =>
         /\ Counted(disk[episode], batch, channel, lost) = pushed
         /\ OneAfterAnother(disk[episode], batch, channel, pushed)
    /\ session = "joining" => stats = [pushed |-> pushed, lost |-> lost, file |-> episode]

RecordingInv == RecordingType /\ PhaseOfRecording /\ AnnouncedOnDisk /\ AllAccounted

FilesOf(samples) == {samples[i].file : i \in DOMAIN samples} \ {NoEpisode}

\* One more sample adds its file to those announced.
LEMMA SampleAdds ==
    ASSUME NEW samples \in Seq(Samples), NEW x \in Samples
    PROVE  /\ Append(samples, x) \in Seq(Samples)
           /\ FilesOf(Append(samples, x)) = (FilesOf(samples) \cup {x.file}) \ {NoEpisode}
<1>1. Append(samples, x) \in Seq(Samples) /\ Len(Append(samples, x)) = Len(samples) + 1
  BY DEF Samples
<1>2. Append(samples, x)[Len(samples) + 1] = x
  OBVIOUS
<1>3. \A i \in DOMAIN samples : Append(samples, x)[i] = samples[i]
  OBVIOUS
<1>4. DOMAIN Append(samples, x) = DOMAIN samples \cup {Len(samples) + 1}
  BY <1>1
<1> HIDE DEF Samples
<1>5. {Append(samples, x)[i].file : i \in DOMAIN Append(samples, x)}
        = {samples[i].file : i \in DOMAIN samples} \cup {x.file}
  BY <1>2, <1>3, <1>4
<1> QED
  BY <1>1, <1>5 DEF FilesOf

\* The name `unique' gives is that of no file, and its number one more than the sessions' at most.
LEMMA UniqueIsNew ==
    ASSUME RecordingType, sessions < MaxSessions, NEW stem \in Stems
    PROVE  Unique(stem) \in Names \ DOMAIN disk /\ Unique(stem).n <= sessions + 1
<1> DEFINE free == {n \in 1..(MaxSessions + 1) : [stem |-> stem, n |-> n] \notin DOMAIN disk}
<1>1. sessions + 1 \in free
  <2>1. sessions \in Nat /\ MaxSessions \in Nat
    BY RecordingAssumption DEF RecordingType
  <2>2. [stem |-> stem, n |-> sessions + 1] \notin DOMAIN disk
    BY <2>1 DEF RecordingType
  <2> QED
    BY <2>1, <2>2
<1>2. free \subseteq Nat
  OBVIOUS
<1>3. Unique(stem) = [stem |-> stem, n |-> Min(free)]
  BY DEF Unique
<1>4. PICK x \in free : \A y \in free : x <= y
  <2> HIDE DEF free
  <2> QED
    BY <1>1, <1>2, LeastExists
<1>5. Min(free) \in free /\ \A y \in free : Min(free) <= y
  <2> HIDE DEF free
  <2> QED
    BY <1>4 DEF Min
<1>6. Min(free) <= sessions + 1
  BY <1>1, <1>5
<1>7. Min(free) \in 1..(MaxSessions + 1) /\ [stem |-> stem, n |-> Min(free)] \notin DOMAIN disk
  BY <1>5
<1> QED
  BY <1>3, <1>6, <1>7 DEF Names

\* A record of a later cycle goes behind all there is.
LEMMA PushedInOrder ==
    ASSUME NEW q \in Seq(Nat), NEW r \in Seq(Nat), NEW s \in Seq(Nat), NEW top \in Nat,
           OneAfterAnother(q, r, s, top)
    PROVE  /\ OneAfterAnother(q, r, Append(s, top + 1), top + 1)
           /\ OneAfterAnother(q, r, s, top + 1)
<1> USE DEF OneAfterAnother
<1>1. Within(q, top + 1) /\ Within(r, top + 1) /\ Within(s, top + 1)
  BY DEF Within
<1> DEFINE t == Append(s, top + 1)
<1>2. t \in Seq(Nat) /\ Len(t) = Len(s) + 1 /\ t[Len(s) + 1] = top + 1
        /\ \A i \in DOMAIN s : t[i] = s[i]
  OBVIOUS
<1>3. \A i \in DOMAIN t : i \in DOMAIN s \/ (i = Len(s) + 1 /\ i \notin DOMAIN s)
  BY <1>2
<1> HIDE DEF t
<1>4. Within(t, top + 1)
  <2> SUFFICES ASSUME NEW i \in DOMAIN t PROVE t[i] <= top + 1
    BY DEF Within
  <2>1. CASE i \in DOMAIN s
    BY <1>1, <1>2, <2>1 DEF Within
  <2>2. CASE i = Len(s) + 1
    BY <1>2, <2>2
  <2> QED
    BY <1>3, <2>1, <2>2
<1>5. Increases(t)
  <2> SUFFICES ASSUME NEW i \in DOMAIN t, NEW j \in DOMAIN t, i < j PROVE t[i] < t[j]
    BY DEF Increases
  <2>1. i \in DOMAIN s
    BY <1>2, <1>3
  <2>2. CASE j \in DOMAIN s
    BY <1>2, <2>1, <2>2 DEF Increases
  <2>3. CASE j = Len(s) + 1
    BY <1>2, <2>1, <2>3 DEF Within
  <2> QED
    BY <1>3, <2>2, <2>3
<1>6. ASSUME NEW u \in Seq(Nat), Within(u, top), Before(u, s) PROVE Before(u, t)
  <2> SUFFICES ASSUME NEW i \in DOMAIN u, NEW j \in DOMAIN t PROVE u[i] < t[j]
    BY DEF Before
  <2>1. CASE j \in DOMAIN s
    BY <1>2, <1>6, <2>1 DEF Before
  <2>2. CASE j = Len(s) + 1
    BY <1>2, <1>6, <2>2 DEF Within
  <2> QED
    BY <1>3, <2>1, <2>2
<1>7. Before(q, t) /\ Before(r, t)
  BY <1>6
<1> QED
  BY <1>1, <1>4, <1>5, <1>7 DEF t

\* The first record of the channel goes behind the batch.
LEMMA ReceivedInOrder ==
    ASSUME NEW q \in Seq(Nat), NEW r \in Seq(Nat), NEW s \in Seq(Nat), NEW top \in Nat, s # <<>>,
           OneAfterAnother(q, r, s, top)
    PROVE  OneAfterAnother(q, Append(r, Head(s)), Tail(s), top)
<1> DEFINE t == Append(r, Head(s))
           v == Tail(s)
<1>1. 1 \in DOMAIN s /\ Head(s) = s[1] /\ Head(s) \in Nat
  OBVIOUS
<1>2. t \in Seq(Nat) /\ Len(t) = Len(r) + 1 /\ t[Len(r) + 1] = s[1]
        /\ \A i \in DOMAIN r : t[i] = r[i]
  BY <1>1
<1>3. \A i \in DOMAIN t : i \in DOMAIN r \/ (i = Len(r) + 1 /\ i \notin DOMAIN r)
  BY <1>2
<1>4. v \in Seq(Nat) /\ \A i \in DOMAIN v : i + 1 \in DOMAIN s /\ v[i] = s[i + 1] /\ i + 1 > 1
  OBVIOUS
<1> HIDE DEF t, v
<1> USE DEF OneAfterAnother
<1>5. Increases(t)
  <2> SUFFICES ASSUME NEW i \in DOMAIN t, NEW j \in DOMAIN t, i < j PROVE t[i] < t[j]
    BY DEF Increases
  <2>1. i \in DOMAIN r
    BY <1>2, <1>3
  <2> QED
    BY <1>1, <1>2, <1>3, <2>1 DEF Increases, Before
<1>6. Increases(v)
  <2> SUFFICES ASSUME NEW i \in DOMAIN v, NEW j \in DOMAIN v, i < j PROVE v[i] < v[j]
    BY DEF Increases
  <2>1. i + 1 < j + 1
    BY <1>4
  <2> QED
    BY <1>4, <2>1 DEF Increases
<1>7. Before(q, t)
  BY <1>1, <1>2, <1>3 DEF Before
<1>8. Before(q, v)
  BY <1>4 DEF Before
<1>9. Before(t, v)
  <2> SUFFICES ASSUME NEW i \in DOMAIN t, NEW j \in DOMAIN v PROVE t[i] < v[j]
    BY DEF Before
  <2>1. CASE i \in DOMAIN r
    BY <1>2, <1>4, <2>1 DEF Before
  <2>2. CASE i = Len(r) + 1
    BY <1>1, <1>2, <1>4, <2>2 DEF Increases
  <2> QED
    BY <1>3, <2>1, <2>2
<1>10. Within(t, top)
  BY <1>1, <1>2, <1>3 DEF Within
<1>11. Within(v, top)
  BY <1>4 DEF Within
<1> QED
  BY <1>5, <1>6, <1>7, <1>8, <1>9, <1>10, <1>11 DEF t, v

\* The batch goes behind what the file has.
LEMMA WrittenInOrder ==
    ASSUME NEW q \in Seq(Nat), NEW r \in Seq(Nat), NEW s \in Seq(Nat), NEW top \in Nat,
           OneAfterAnother(q, r, s, top)
    PROVE  OneAfterAnother(q \o r, <<>>, s, top)
<1> DEFINE t == q \o r
<1>1. t \in Seq(Nat) /\ Len(t) = Len(q) + Len(r)
  OBVIOUS
<1>2. \A i \in DOMAIN t : \/ i \in DOMAIN q /\ t[i] = q[i]
                          \/ i > Len(q) /\ i - Len(q) \in DOMAIN r /\ t[i] = r[i - Len(q)]
  OBVIOUS
<1> HIDE DEF t
<1> USE DEF OneAfterAnother
<1>3. Increases(t)
  <2> SUFFICES ASSUME NEW i \in DOMAIN t, NEW j \in DOMAIN t, i < j PROVE t[i] < t[j]
    BY DEF Increases
  <2>1. CASE j \in DOMAIN q /\ t[j] = q[j]
    <3>1. i \in DOMAIN q /\ t[i] = q[i]
      BY <1>1, <1>2, <2>1
    <3> QED
      BY <2>1, <3>1 DEF Increases
  <2>2. CASE j > Len(q) /\ j - Len(q) \in DOMAIN r /\ t[j] = r[j - Len(q)]
    <3>1. CASE i \in DOMAIN q /\ t[i] = q[i]
      BY <2>2, <3>1 DEF Before
    <3>2. CASE i > Len(q) /\ i - Len(q) \in DOMAIN r /\ t[i] = r[i - Len(q)]
      <4>1. i - Len(q) < j - Len(q)
        BY <1>1, <2>2, <3>2
      <4> QED
        BY <2>2, <3>2, <4>1 DEF Increases
    <3> QED
      BY <1>2, <3>1, <3>2
  <2> QED
    BY <1>2, <2>1, <2>2
<1>4. Before(t, s)
  BY <1>2 DEF Before
<1>5. Within(t, top)
  BY <1>2 DEF Within
<1>6. Increases(<<>>) /\ Before(t, <<>>) /\ Before(<<>>, s) /\ Within(<<>>, top)
  BY DEF Increases, Before, Within
<1> QED
  BY <1>3, <1>4, <1>5, <1>6 DEF t

\* Nothing is recorded at the start.
LEMMA RecordingInitially == RecordingInit => RecordingInv
<1> SUFFICES ASSUME RecordingInit PROVE RecordingInv
  OBVIOUS
<1> USE DEF RecordingInit
<1>1. RecordingType
  BY RecordingAssumption DEF RecordingType
<1>2. PhaseOfRecording /\ AllAccounted
  BY DEF PhaseOfRecording, AllAccounted
<1>3. AnnouncedOnDisk
  BY DEF AnnouncedOnDisk, Announced
<1> QED
  BY <1>1, <1>2, <1>3 DEF RecordingInv

\* A record that is dropped, pushed, received, and a batch that is written.
LEMMA CountedOnce ==
    ASSUME NEW q \in Seq(Nat), NEW r \in Seq(Nat), NEW s \in Seq(Nat), NEW x \in Nat, NEW gone \in Nat
    PROVE  /\ Counted(q, r, s, gone) \in Nat
           /\ Counted(q, r, s, gone + 1) = Counted(q, r, s, gone) + 1
           /\ Counted(q, r, Append(s, x), gone) = Counted(q, r, s, gone) + 1
           /\ s # <<>> => Counted(q, Append(r, Head(s)), Tail(s), gone) = Counted(q, r, s, gone)
           /\ Counted(q \o r, <<>>, s, gone) = Counted(q, r, s, gone)
<1> DEFINE a == Len(q)
           b == Len(r)
           c == Len(s)
<1>1. a \in Nat /\ b \in Nat /\ c \in Nat
  OBVIOUS
<1>2. Len(Append(s, x)) = c + 1 /\ Len(q \o r) = a + b /\ Len(<<>>) = 0
  OBVIOUS
<1>3. s # <<>> => Len(Append(r, Head(s))) = b + 1 /\ Len(Tail(s)) = c - 1
  OBVIOUS
<1>4. Counted(q, r, s, gone) = a + b + c + gone /\ Counted(q, r, s, gone + 1) = a + b + c + (gone + 1)
  BY DEF Counted
<1>5. Counted(q, r, Append(s, x), gone) = a + b + (c + 1) + gone
  BY <1>2 DEF Counted
<1>6. s # <<>> => Counted(q, Append(r, Head(s)), Tail(s), gone) = a + (b + 1) + (c - 1) + gone
  BY <1>3 DEF Counted
<1>7. Counted(q \o r, <<>>, s, gone) = (a + b) + 0 + c + gone
  BY <1>2 DEF Counted
<1> HIDE DEF a, b, c
<1> QED
  BY <1>1, <1>4, <1>5, <1>6, <1>7

\* Every step of the arm thread, the loop and the recorder's thread keeps the invariant of the recording.
LEMMA RecordingStep == RecordingInv /\ [RecordingNext]_recordingVars => RecordingInv'
<1> SUFFICES ASSUME RecordingInv, [RecordingNext]_recordingVars PROVE RecordingInv'
  OBVIOUS
<1>0. RecordingType /\ PhaseOfRecording /\ AnnouncedOnDisk /\ AllAccounted
  BY DEF RecordingInv
<1>1. ASSUME OpenEpisode PROVE RecordingInv'
  <2> USE <1>0, <1>1 DEF OpenEpisode, loopOnly, nodeOnly, recorderOnly
  <2>a. PICK t \in Tokens \cup {NoToken} :
           LET name == Unique(IF t = NoToken THEN secs ELSE t)
           IN  /\ token' = t /\ episode' = name
               /\ disk' = [file \in DOMAIN disk \cup {name} |-> IF file = name THEN <<>> ELSE disk[file]]
    OBVIOUS
  <2> DEFINE stem == IF t = NoToken THEN secs ELSE t
  <2>b. stem \in Stems
    BY DEF Stems, RecordingType
  <2>c. Unique(stem) \in Names \ DOMAIN disk /\ Unique(stem).n <= sessions + 1
    BY <2>b, UniqueIsNew
  <2>d. episode' = Unique(stem) 
          /\ disk' = [file \in DOMAIN disk \cup {Unique(stem)} |->
                        IF file = Unique(stem) THEN <<>> ELSE disk[file]]
    BY <2>a
  <2> HIDE DEF stem
  <2>e. DOMAIN disk' = DOMAIN disk \cup {Unique(stem)} /\ disk'[Unique(stem)] = <<>>
          /\ \A name \in DOMAIN disk : disk'[name] = disk[name]
    BY <2>c, <2>d
  <2>f. Announced' = Announced
    BY DEF Announced
  <2>g. episode = NoEpisode /\ Unique(stem) # NoEpisode /\ channel = <<>> /\ batch = <<>>
          /\ pushed = 0 /\ lost = 0 /\ cycle = 0 /\ loop = "off" /\ ~discarding
    BY <2>c, RecordingAssumption DEF PhaseOfRecording
  <2>h. episode' # NoEpisode /\ episode' \notin DOMAIN disk
    BY <2>c, <2>d, <2>g
  <2>1. RecordingType'
    <3>1. sessions' \in 0..MaxSessions /\ sessions' = sessions + 1 /\ sessions \in Nat
      BY RecordingAssumption DEF RecordingType
    <3>2. ASSUME NEW name \in DOMAIN disk' PROVE name \in Names /\ disk'[name] \in Seq(Nat) /\ name.n <= sessions'
      <4>1. CASE name = Unique(stem)
        BY <2>c, <2>e, <3>1, <4>1
      <4>2. CASE name \in DOMAIN disk
        <5>1. name \in Names /\ disk[name] \in Seq(Nat) /\ name.n <= sessions
          BY <4>2 DEF RecordingType
        <5>2. name.n \in Int
          BY <5>1 DEF Names
        <5> QED
          BY <2>e, <3>1, <4>2, <5>1, <5>2
      <4> QED
        BY <2>e, <4>1, <4>2
    <3> QED
      BY <2>d, <2>e, <3>1, <3>2 DEF RecordingType
  <2>2. PhaseOfRecording'
    BY <2>g, <2>h DEF PhaseOfRecording
  <2>3. AnnouncedOnDisk'
    BY <2>d, <2>e, <2>f, <2>h DEF AnnouncedOnDisk
  <2>4. AllAccounted'
    <3>1. disk'[episode'] = <<>>
      BY <2>d, <2>e
    <3>2. OneAfterAnother(<<>>, <<>>, <<>>, 0)
      BY DEF OneAfterAnother, Increases, Before, Within
    <3> QED
      BY <2>g, <3>1, <3>2 DEF AllAccounted, Counted
  <2> QED
    BY <2>1, <2>2, <2>3, <2>4 DEF RecordingInv
<1>2. ASSUME OpenFails PROVE RecordingInv'
  <2> USE <1>0, <1>2 DEF OpenFails, loopOnly, nodeOnly, recorderOnly
  <2>1. RecordingType'
    <3>1. sessions' \in 0..MaxSessions /\ sessions' = sessions + 1 /\ sessions \in Nat
      BY RecordingAssumption DEF RecordingType
    <3>2. \A name \in DOMAIN disk : name.n \in Int /\ name.n <= sessions
      BY DEF RecordingType, Names
    <3>3. \A name \in DOMAIN disk : name.n <= sessions'
      BY <3>1, <3>2
    <3> QED
      BY <3>1, <3>3 DEF RecordingType
  <2>2. PhaseOfRecording'
    BY DEF PhaseOfRecording
  <2>3. AnnouncedOnDisk'
    BY DEF AnnouncedOnDisk, Announced, PhaseOfRecording
  <2>4. AllAccounted'
    BY DEF AllAccounted, PhaseOfRecording
  <2> QED
    BY <2>1, <2>2, <2>3, <2>4 DEF RecordingInv
<1>3. ASSUME LoopStarts PROVE RecordingInv'
  <2> USE <1>0, <1>3 DEF LoopStarts, loopOnly, nodeOnly, recorderOnly
  <2>1. RecordingType'
    BY DEF RecordingType
  <2>2. PhaseOfRecording'
    BY DEF PhaseOfRecording
  <2>3. AnnouncedOnDisk'
    BY DEF AnnouncedOnDisk, Announced, PhaseOfRecording
  <2>4. AllAccounted'
    BY DEF AllAccounted, PhaseOfRecording
  <2> QED
    BY <2>1, <2>2, <2>3, <2>4 DEF RecordingInv
<1>4. ASSUME StartFails PROVE RecordingInv'
  <2> USE <1>0, <1>4 DEF StartFails, loopOnly, nodeOnly, recorderOnly
  <2>1. RecordingType'
    BY DEF RecordingType
  <2>2. PhaseOfRecording'
    BY DEF PhaseOfRecording
  <2>3. AnnouncedOnDisk'
    BY DEF AnnouncedOnDisk, Announced, PhaseOfRecording
  <2>4. AllAccounted'
    BY DEF AllAccounted, PhaseOfRecording
  <2> QED
    BY <2>1, <2>2, <2>3, <2>4 DEF RecordingInv
<1>5. ASSUME BeginEpisode PROVE RecordingInv'
  <2> USE <1>0, <1>5 DEF BeginEpisode, loopOnly, nodeOnly, recorderOnly
  <2>a. [phase |-> "start", file |-> episode] \in Samples
    BY DEF Samples, RecordingType
  <2>b. published' \in Seq(Samples)
          /\ FilesOf(published') = (FilesOf(published) \cup {episode}) \ {NoEpisode}
    BY <2>a, SampleAdds DEF RecordingType
  <2>c. Announced' \subseteq Announced \cup (DOMAIN disk \cap {episode})
    BY <2>b DEF FilesOf, Announced, RecordingType
  <2>1. RecordingType'
    BY <2>b DEF RecordingType
  <2>2. PhaseOfRecording'
    BY DEF PhaseOfRecording
  <2>3. AnnouncedOnDisk'
    BY <2>c DEF AnnouncedOnDisk, PhaseOfRecording
  <2>4. AllAccounted'
    BY DEF AllAccounted, PhaseOfRecording
  <2> QED
    BY <2>1, <2>2, <2>3, <2>4 DEF RecordingInv
<1>6. ASSUME ReadTime PROVE RecordingInv'
  <2> USE <1>0, <1>6 DEF ReadTime, loopOnly, nodeOnly, recorderOnly
  <2>1. RecordingType'
    BY DEF RecordingType
  <2>2. PhaseOfRecording'
    BY DEF PhaseOfRecording
  <2>3. AnnouncedOnDisk'
    BY DEF AnnouncedOnDisk, Announced, PhaseOfRecording
  <2>4. AllAccounted'
    BY DEF AllAccounted, PhaseOfRecording
  <2> QED
    BY <2>1, <2>2, <2>3, <2>4 DEF RecordingInv
<1>7. ASSUME LogRow PROVE RecordingInv'
  <2> USE <1>0, <1>7 DEF LogRow, loopOnly, nodeOnly, recorderOnly
  <2>1. RecordingType'
    BY DEF RecordingType
  <2>2. PhaseOfRecording'
    BY DEF PhaseOfRecording
  <2>3. AnnouncedOnDisk'
    BY DEF AnnouncedOnDisk, Announced, PhaseOfRecording
  <2>4. AllAccounted'
    BY DEF AllAccounted, PhaseOfRecording
  <2> QED
    BY <2>1, <2>2, <2>3, <2>4 DEF RecordingInv
<1>8. ASSUME SessionEnds PROVE RecordingInv'
  <2> USE <1>0, <1>8 DEF SessionEnds, loopOnly, nodeOnly, recorderOnly
  <2>1. RecordingType'
    BY DEF RecordingType
  <2>2. PhaseOfRecording'
    BY DEF PhaseOfRecording
  <2>3. AnnouncedOnDisk'
    BY DEF AnnouncedOnDisk, Announced, PhaseOfRecording
  <2>4. AllAccounted'
    BY DEF AllAccounted, PhaseOfRecording
  <2> QED
    BY <2>1, <2>2, <2>3, <2>4 DEF RecordingInv
<1>9. ASSUME FinishDrops PROVE RecordingInv'
  <2> USE <1>0, <1>9 DEF FinishDrops, loopOnly, nodeOnly, recorderOnly
  <2>1. RecordingType'
    BY DEF RecordingType
  <2>2. PhaseOfRecording'
    BY DEF PhaseOfRecording
  <2>3. AnnouncedOnDisk'
    BY DEF AnnouncedOnDisk, Announced, PhaseOfRecording
  <2>4. AllAccounted'
    BY DEF AllAccounted, PhaseOfRecording
  <2> QED
    BY <2>1, <2>2, <2>3, <2>4 DEF RecordingInv
<1>10. ASSUME SessionIsOver PROVE RecordingInv'
  <2> USE <1>0, <1>10 DEF SessionIsOver, loopOnly, nodeOnly, recorderOnly
  <2>a. \/ ~discarding /\ disk' = disk
        \/ discarding /\ disk' = Restrict(disk, DOMAIN disk \ {episode})
             /\ published' = published
        \/ discarding /\ episode = NoEpisode /\ disk' = disk /\ published' = published
    OBVIOUS
  <2>b. /\ DOMAIN disk' \subseteq DOMAIN disk /\ \A name \in DOMAIN disk' : disk'[name] = disk[name]
        /\ DOMAIN disk \ {episode} \subseteq DOMAIN disk'
    BY <2>a DEF Restrict
  <2>c. [phase |-> "end", file |-> episode] \in Samples
    BY DEF Samples, RecordingType
  <2>d. ASSUME ~discarding PROVE published' \in Seq(Samples) /\ Announced' \subseteq DOMAIN disk'
    <3>1. published' \in Seq(Samples)
            /\ FilesOf(published') = (FilesOf(published) \cup {episode}) \ {NoEpisode}
      BY <2>c, <2>d, SampleAdds DEF RecordingType
    <3>2. Announced' \subseteq DOMAIN disk'
      BY <2>a, <2>d, <3>1 DEF FilesOf, Announced, RecordingType, AnnouncedOnDisk
    <3> QED
      BY <3>1, <3>2
  <2>e. ASSUME discarding PROVE published' \in Seq(Samples) /\ Announced' \subseteq DOMAIN disk'
    <3>1. published' = published
      BY <2>e
    <3>2. Announced' = Announced /\ episode \notin Announced
      BY <2>e, <3>1 DEF Announced, AnnouncedOnDisk
    <3> QED
      BY <2>b, <3>1, <3>2 DEF AnnouncedOnDisk, RecordingType
  <2>f. published' \in Seq(Samples) /\ Announced' \subseteq DOMAIN disk'
    BY <2>d, <2>e
  <2>1. RecordingType'
    <3>1. <<>> \in Seq(Nat) /\ channel' = <<>> /\ batch' = <<>> /\ pushed' = 0 /\ lost' = 0 /\ cycle' = 0
            /\ episode' = NoEpisode /\ sessions' = sessions /\ secs' = secs
      OBVIOUS
    <3>2. \A name \in DOMAIN disk' : disk'[name] \in Seq(Nat) /\ name.n <= sessions
      BY <2>b DEF RecordingType
    <3>3. DOMAIN disk' \subseteq Names
      BY <2>b DEF RecordingType
    <3>4. secs \in 1..MaxSecs /\ sessions \in 0..MaxSessions
      BY DEF RecordingType
    <3> HIDE <1>0, <1>10 DEF SessionIsOver
    <3> QED
      BY <2>f, <3>1, <3>2, <3>3, <3>4 DEF RecordingType
  <2>2. PhaseOfRecording'
    BY DEF PhaseOfRecording
  <2>3. AnnouncedOnDisk'
    BY <2>f DEF AnnouncedOnDisk
  <2>4. AllAccounted'
    BY DEF AllAccounted, PhaseOfRecording
  <2> QED
    BY <2>1, <2>2, <2>3, <2>4 DEF RecordingInv
<1>11. ASSUME StoreTime PROVE RecordingInv'
  <2> USE <1>0, <1>11 DEF StoreTime, loopOnly, nodeOnly, recorderOnly
  <2>1. RecordingType'
    BY DEF RecordingType
  <2>2. PhaseOfRecording'
    BY DEF PhaseOfRecording
  <2>3. AnnouncedOnDisk'
    BY DEF AnnouncedOnDisk, Announced, PhaseOfRecording
  <2>4. AllAccounted'
    <3>1. cycle \in Nat /\ pushed \in Nat /\ cycle' = cycle + 1 /\ loop' = "storing" /\ loop = "waiting"
      BY DEF RecordingType
    <3>2. UNCHANGED <<writer, sender, channel, batch, disk, episode, pushed, lost, session, stats>>
      OBVIOUS
    <3> HIDE <1>11 DEF StoreTime
    <3> QED
      BY <3>1, <3>2 DEF AllAccounted
  <2> QED
    BY <2>1, <2>2, <2>3, <2>4 DEF RecordingInv
<1>12. ASSUME Push PROVE RecordingInv'
  <2> USE <1>0, <1>12 DEF Push, loopOnly, nodeOnly, recorderOnly
  <2>a. cycle \in Nat /\ pushed \in Nat /\ lost \in Nat /\ Len(channel) \in Nat
    BY DEF RecordingType
  <2>1. RecordingType'
    <3>1. channel' \in Seq(Nat)
      <4>1. channel' = channel \/ channel' = Append(channel, cycle)
        OBVIOUS
      <4>2. channel \in Seq(Nat) /\ cycle \in Nat
        BY DEF RecordingType
      <4>3. Append(channel, cycle) \in Seq(Nat)
        BY <4>2
      <4> QED
        BY <4>1, <4>2, <4>3
    <3>2. pushed' \in Nat /\ lost' \in Nat
      BY <2>a
    <3>3. UNCHANGED <<secs, nodeOnly, cycle, batch, disk>>
      OBVIOUS
    <3> HIDE <1>12 DEF Push
    <3> QED
      BY <3>1, <3>2, <3>3 DEF RecordingType
  <2>2. PhaseOfRecording'
    BY DEF PhaseOfRecording
  <2>3. AnnouncedOnDisk'
    BY DEF AnnouncedOnDisk, Announced, PhaseOfRecording
  <2>4. AllAccounted'
    <3>1. CASE episode = NoEpisode
      BY <3>1 DEF AllAccounted, PhaseOfRecording
    <3>2. CASE episode # NoEpisode
      <4>1. cycle = pushed + 1 /\ pushed' = pushed + 1 /\ session # "joining"
        BY <2>a, <3>2 DEF AllAccounted, PhaseOfRecording
      <4>2. sender /\ ~(writer \in {"last", "ended"})
        BY <3>2, <4>1 DEF AllAccounted, PhaseOfRecording
      <4>3. ASSUME writer \in {"asleep", "draining", "writing"}
            PROVE  /\ Counted(disk[episode], batch, channel', lost') = pushed'
                   /\ OneAfterAnother(disk[episode], batch, channel', pushed')
        <5>1. disk[episode] \in Seq(Nat) /\ batch \in Seq(Nat) /\ channel \in Seq(Nat)
          BY <3>2 DEF RecordingType
        <5>2. /\ Counted(disk[episode], batch, channel, lost) = pushed
              /\ OneAfterAnother(disk[episode], batch, channel, pushed)
          BY <4>3 DEF AllAccounted
        <5>3. /\ OneAfterAnother(disk[episode], batch, Append(channel, cycle), pushed + 1)
              /\ OneAfterAnother(disk[episode], batch, channel, pushed + 1)
          BY <2>a, <4>1, <5>1, <5>2, PushedInOrder
        <5>4. /\ Counted(disk[episode], batch, channel, lost + 1) = pushed + 1
              /\ Counted(disk[episode], batch, Append(channel, cycle), lost) = pushed + 1
          BY <2>a, <5>1, <5>2, CountedOnce
        <5>5. pushed' = pushed + 1
          BY <4>1
        <5>6. \/ channel' = channel /\ lost' = lost + 1
              \/ channel' = Append(channel, cycle) /\ lost' = lost
          BY <3>2
        <5> QED
          BY ONLY <5>3, <5>4, <5>5, <5>6
      <4> QED
        BY <2>a, <4>1, <4>2, <4>3 DEF AllAccounted
    <3> QED
      BY <3>1, <3>2
  <2> QED
    BY <2>1, <2>2, <2>3, <2>4 DEF RecordingInv
<1>13. ASSUME LoopEnds PROVE RecordingInv'
  <2> USE <1>0, <1>13 DEF LoopEnds, loopOnly, nodeOnly, recorderOnly
  <2>1. RecordingType'
    BY DEF RecordingType
  <2>2. PhaseOfRecording'
    BY DEF PhaseOfRecording
  <2>3. AnnouncedOnDisk'
    BY DEF AnnouncedOnDisk, Announced, PhaseOfRecording
  <2>4. AllAccounted'
    BY DEF AllAccounted, PhaseOfRecording
  <2> QED
    BY <2>1, <2>2, <2>3, <2>4 DEF RecordingInv
<1>14. ASSUME Wake PROVE RecordingInv'
  <2> USE <1>0, <1>14 DEF Wake, loopOnly, nodeOnly, recorderOnly
  <2>1. RecordingType'
    BY DEF RecordingType
  <2>2. PhaseOfRecording'
    BY DEF PhaseOfRecording
  <2>3. AnnouncedOnDisk'
    BY DEF AnnouncedOnDisk, Announced, PhaseOfRecording
  <2>4. AllAccounted'
    BY DEF AllAccounted, PhaseOfRecording
  <2> QED
    BY <2>1, <2>2, <2>3, <2>4 DEF RecordingInv
<1>15. ASSUME Receive PROVE RecordingInv'
  <2> USE <1>0, <1>15 DEF Receive, loopOnly, nodeOnly, recorderOnly
  <2>1. RecordingType'
    <3>1. Head(channel) \in Nat /\ Tail(channel) \in Seq(Nat)
      BY DEF RecordingType
    <3> QED
      BY <3>1 DEF RecordingType
  <2>2. PhaseOfRecording'
    BY DEF PhaseOfRecording
  <2>3. AnnouncedOnDisk'
    BY DEF AnnouncedOnDisk, Announced, PhaseOfRecording
  <2>4. AllAccounted'
    <3>1. episode # NoEpisode /\ disk[episode] \in Seq(Nat) /\ batch \in Seq(Nat)
            /\ channel \in Seq(Nat) /\ pushed \in Nat /\ lost \in Nat
      BY DEF RecordingType, PhaseOfRecording
    <3>2. /\ Counted(disk[episode], batch, channel, lost) = pushed
          /\ OneAfterAnother(disk[episode], batch, channel, pushed)
      BY DEF AllAccounted
    <3>3. OneAfterAnother(disk[episode], batch', channel', pushed)
      BY <3>1, <3>2, ReceivedInOrder
    <3>4. Counted(disk[episode], batch', channel', lost) = pushed
      <4>1. Counted(disk[episode], Append(batch, Head(channel)), Tail(channel), lost)
              = Counted(disk[episode], batch, channel, lost)
        <5> DEFINE q == disk[episode]
        <5>1. q \in Seq(Nat) /\ batch \in Seq(Nat) /\ channel \in Seq(Nat) /\ lost \in Nat /\ channel # <<>>
          BY <3>1
        <5> HIDE DEF q
        <5>2. channel # <<>> => Counted(q, Append(batch, Head(channel)), Tail(channel), lost)
                                  = Counted(q, batch, channel, lost)
          BY ONLY <5>1, CountedOnce
        <5> QED
          BY ONLY <5>1, <5>2 DEF q
      <4>2. batch' = Append(batch, Head(channel)) /\ channel' = Tail(channel)
        OBVIOUS
      <4> QED
        BY ONLY <3>2, <4>1, <4>2
    <3>5. UNCHANGED <<disk, episode, pushed, lost, session, stats, loop, cycle>> /\ writer' = "draining"
      OBVIOUS
    <3> HIDE <1>15 DEF Receive
    <3> QED
      BY <3>3, <3>4, <3>5 DEF AllAccounted
  <2> QED
    BY <2>1, <2>2, <2>3, <2>4 DEF RecordingInv
<1>16. ASSUME DrainEnds PROVE RecordingInv'
  <2> USE <1>0, <1>16 DEF DrainEnds, loopOnly, nodeOnly, recorderOnly
  <2>1. RecordingType'
    BY DEF RecordingType
  <2>2. PhaseOfRecording'
    BY DEF PhaseOfRecording
  <2>3. AnnouncedOnDisk'
    BY DEF AnnouncedOnDisk, Announced, PhaseOfRecording
  <2>4. AllAccounted'
    BY DEF AllAccounted, PhaseOfRecording
  <2> QED
    BY <2>1, <2>2, <2>3, <2>4 DEF RecordingInv
<1>17. ASSUME WriteBatch PROVE RecordingInv'
  <2> USE <1>0, <1>17 DEF WriteBatch, loopOnly, nodeOnly, recorderOnly
  <2>a. episode \in DOMAIN disk /\ disk[episode] \in Seq(Nat) /\ batch \in Seq(Nat) /\ episode # NoEpisode
          /\ channel \in Seq(Nat) /\ pushed \in Nat /\ lost \in Nat
    BY DEF RecordingType, PhaseOfRecording
  <2>b. DOMAIN disk' = DOMAIN disk /\ disk'[episode] = disk[episode] \o batch
          /\ \A name \in DOMAIN disk : name # episode => disk'[name] = disk[name]
    BY <2>a
  <2>c. disk[episode] \o batch \in Seq(Nat) /\ Len(disk[episode] \o batch) = Len(disk[episode]) + Len(batch)
    BY <2>a
  <2>1. RecordingType'
    <3>1. \A name \in DOMAIN disk : disk'[name] \in Seq(Nat)
      BY <2>b, <2>c DEF RecordingType
    <3>2. <<>> \in Seq(Nat)
      OBVIOUS
    <3> QED
      BY <2>b, <3>1, <3>2 DEF RecordingType
  <2>2. PhaseOfRecording'
    BY DEF PhaseOfRecording
  <2>3. AnnouncedOnDisk'
    BY <2>b DEF AnnouncedOnDisk, Announced
  <2>4. AllAccounted'
    <3>1. /\ Counted(disk[episode], batch, channel, lost) = pushed
          /\ OneAfterAnother(disk[episode], batch, channel, pushed)
      BY DEF AllAccounted
    <3>2. OneAfterAnother(disk'[episode], <<>>, channel, pushed)
      BY <2>a, <2>b, <3>1, WrittenInOrder
    <3>3. Counted(disk'[episode], <<>>, channel, lost) = pushed
      BY <2>a, <2>b, <3>1, CountedOnce
    <3> QED
      BY <3>2, <3>3 DEF AllAccounted, PhaseOfRecording
  <2> QED
    BY <2>1, <2>2, <2>3, <2>4 DEF RecordingInv
<1>18. ASSUME WriteFails PROVE RecordingInv'
  <2> USE <1>0, <1>18 DEF WriteFails, loopOnly, nodeOnly, recorderOnly
  <2>1. RecordingType'
    BY DEF RecordingType
  <2>2. PhaseOfRecording'
    BY DEF PhaseOfRecording
  <2>3. AnnouncedOnDisk'
    BY DEF AnnouncedOnDisk, Announced, PhaseOfRecording
  <2>4. AllAccounted'
    BY DEF AllAccounted, PhaseOfRecording
  <2> QED
    BY <2>1, <2>2, <2>3, <2>4 DEF RecordingInv
<1>19. ASSUME SecondPasses PROVE RecordingInv'
  <2> USE <1>0, <1>19 DEF SecondPasses, loopOnly, nodeOnly, recorderOnly
  <2>1. RecordingType'
    BY RecordingAssumption DEF RecordingType
  <2>2. PhaseOfRecording'
    BY DEF PhaseOfRecording
  <2>3. AnnouncedOnDisk'
    BY DEF AnnouncedOnDisk, Announced, PhaseOfRecording
  <2>4. AllAccounted'
    BY DEF AllAccounted, PhaseOfRecording
  <2> QED
    BY <2>1, <2>2, <2>3, <2>4 DEF RecordingInv
<1>20. CASE UNCHANGED recordingVars
  BY <1>0, <1>20 DEF recordingVars, RecordingInv, RecordingType, PhaseOfRecording, AnnouncedOnDisk, Announced,
     AllAccounted
<1> QED
  BY <1>1, <1>2, <1>3, <1>4, <1>5, <1>6, <1>7, <1>8, <1>9, <1>10, <1>11, <1>12, <1>13, <1>14, <1>15,
     <1>16, <1>17, <1>18, <1>19, <1>20 DEF RecordingNext, ArmThread, LoopThread, RecorderThread

\* Once the thread has ended, the file has what was pushed and not lost.
LEMMA RecordingShows == RecordingInv => RecordsAccounted
<1> SUFFICES ASSUME RecordingInv, session = "joining", writer = "ended"
             PROVE  LET written == disk[stats.file]
                    IN  /\ stats.pushed = cycle
                        /\ Len(written) + stats.lost = stats.pushed
                        /\ \A i, j \in 1..Len(written) : i < j => written[i] < written[j]
  BY DEF RecordsAccounted
<1>1. episode # NoEpisode /\ loop = "off" /\ stats = [pushed |-> pushed, lost |-> lost, file |-> episode]
        /\ batch = <<>> /\ channel = <<>> /\ pushed = cycle
  BY DEF RecordingInv, AllAccounted, PhaseOfRecording
<1>2. disk[episode] \in Seq(Nat) /\ lost \in Nat
  BY <1>1 DEF RecordingInv, RecordingType
<1>3. Counted(disk[episode], <<>>, <<>>, lost) = pushed
        /\ OneAfterAnother(disk[episode], <<>>, <<>>, pushed)
  BY <1>1 DEF RecordingInv, AllAccounted
<1>4. Len(disk[episode]) + lost = pushed
  <2> DEFINE n == Len(disk[episode])
  <2>1. n \in Nat /\ n + 0 + 0 + lost = pushed
    BY <1>2, <1>3 DEF Counted
  <2> HIDE DEF n
  <2>2. n + lost = pushed
    BY <1>2, <2>1
  <2> QED
    BY <2>2 DEF n
<1>5. \A i, j \in 1..Len(disk[episode]) : i < j => disk[episode][i] < disk[episode][j]
  BY <1>2, <1>3 DEF OneAfterAnother, Increases
<1> QED
  BY <1>1, <1>4, <1>5, Zenon

-----------------------------------------------------------------------------
(* The flight logger. *)

\* What holds of zero and of the next of every number it holds of holds of every number.
LEMMA Upward ==
    ASSUME NEW T, T \subseteq Nat, 0 \in T, \A m \in T : m + 1 \in T
    PROVE  \A m \in Nat : m \in T
<1> SUFFICES ASSUME ~(\A m \in Nat : m \in T) PROVE FALSE
  OBVIOUS
<1> DEFINE D == Nat \ T
<1>1. PICK x \in D : \A y \in D : x <= y
  <2>1. D \subseteq Nat /\ D # {}
    OBVIOUS
  <2> HIDE DEF D
  <2> QED
    BY <2>1, LeastExists
<1>2. x \in Nat /\ x # 0
  OBVIOUS
<1>3. x - 1 \in Nat /\ ~(x <= x - 1)
  BY <1>2
<1>4. x - 1 \in T
  BY <1>1, <1>3
<1>5. (x - 1) + 1 = x
  BY <1>2
<1> QED
  BY <1>4, <1>5

LEMMA LargestOf ==
    ASSUME NEW i \in Nat, NEW s \in SUBSET (1..i), i \in s
    PROVE  Max(s) = i
<1>1. \A y \in s : i >= y
  OBVIOUS
<1>2. \A x \in s : (\A y \in s : x >= y) => x = i
  OBVIOUS
<1> QED
  BY <1>1, <1>2 DEF Max

\* The recursion of a fold, over the sets of places of a batch.
Folding(f, s0, b, m) ==
    f = [s \in SUBSET (1..m) |->
           IF s = {} THEN s0 ELSE LogRecord(f[s \ {Max(s)}], b[Max(s)])]

LEMMA FoldingStarts ==
    ASSUME NEW f, NEW s0, NEW b, NEW m, Folding(f, s0, b, m), NEW s, s = {}
    PROVE  f[s] = s0
<1>1. s \in SUBSET (1..m)
  OBVIOUS
<1>2. f[s] = IF s = {} THEN s0 ELSE LogRecord(f[s \ {Max(s)}], b[Max(s)])
  BY <1>1, Zenon DEF Folding
<1> QED
  BY <1>2

LEMMA FoldingExists ==
    ASSUME NEW s0, NEW b, NEW n \in Nat
    PROVE  \E f : Folding(f, s0, b, n)
<1> DEFINE T == {m \in Nat : \E f : Folding(f, s0, b, m)}
<1>1. 0 \in T
  <2> DEFINE f == [s \in SUBSET (1..0) |-> s0]
  <2>1. \A s \in SUBSET (1..0) : s = {}
    OBVIOUS
  <2>2. f = [s \in SUBSET (1..0) |->
               IF s = {} THEN s0 ELSE LogRecord(f[s \ {Max(s)}], b[Max(s)])]
    BY <2>1
  <2> QED
    BY <2>2 DEF Folding
<1>2. ASSUME NEW m \in T PROVE m + 1 \in T
  <2>1. PICK f : Folding(f, s0, b, m)
    OBVIOUS
  <2> DEFINE g == [s \in SUBSET (1..m + 1) |->
                     IF m + 1 \in s THEN LogRecord(f[s \ {m + 1}], b[m + 1]) ELSE f[s]]
             G(s) == IF s = {} THEN s0 ELSE LogRecord(g[s \ {Max(s)}], b[Max(s)])
  <2>2. m \in Nat /\ m + 1 \in Nat
    OBVIOUS
  <2>3. ASSUME NEW s \in SUBSET (1..m + 1) PROVE g[s] = G(s)
    <3>1. CASE m + 1 \in s
      <4>1. Max(s) = m + 1
        BY <2>2, <3>1, LargestOf
      <4>2. s \ {m + 1} \in SUBSET (1..m + 1) /\ m + 1 \notin s \ {m + 1} /\ s # {}
        BY <3>1
      <4>3. g[s \ {m + 1}] = f[s \ {m + 1}]
        BY <4>2
      <4> QED
        BY <3>1, <4>1, <4>2, <4>3
    <3>2. CASE m + 1 \notin s
      <4>1. s \in SUBSET (1..m)
        BY <2>2, <3>2
      <4>2. f[s] = IF s = {} THEN s0 ELSE LogRecord(f[s \ {Max(s)}], b[Max(s)])
        BY <2>1, <4>1, Zenon DEF Folding
      <4>3. s \ {Max(s)} \in SUBSET (1..m + 1) /\ m + 1 \notin s \ {Max(s)}
        BY <3>2
      <4>4. g[s \ {Max(s)}] = f[s \ {Max(s)}] /\ g[s] = f[s]
        BY <3>2, <4>3
      <4> QED
        BY <4>2, <4>4
    <3> QED
      BY <3>1, <3>2
  <2>4. g = [s \in SUBSET (1..m + 1) |-> G(s)]
    <3>1. g = [s \in SUBSET (1..m + 1) |-> g[s]]
      OBVIOUS
    <3> HIDE DEF g
    <3> QED
      BY <3>1, <2>3
  <2>5. Folding(g, s0, b, m + 1)
    BY <2>4 DEF Folding
  <2> QED
    BY <2>2, <2>5
<1>3. T \subseteq Nat
  OBVIOUS
<1> HIDE DEF T
<1>4. n \in T
  BY <1>1, <1>2, <1>3, Upward
<1> QED
  BY <1>4 DEF T

\* A batch is logged record by record.
Logged(s, b) == FoldLeft(LogRecord, s, b)
InTurn(st, s0, b, n) ==
    /\ st[0] = s0 /\ st[n] = Logged(s0, b)
    /\ \A i \in 1..n : st[i] = LogRecord(st[i - 1], b[i])

LEMMA LoggedInTurn ==
    ASSUME NEW s0, NEW n \in Nat, NEW b, DOMAIN b = 1..n
    PROVE  \E st : InTurn(st, s0, b, n)
<1> DEFINE c == CHOOSE g : Folding(g, s0, b, n)
           st == [i \in 0..n |-> c[1..i]]
<1>1. Logged(s0, b) = c[1..n]
  BY DEF Logged, FoldLeft, MapThenFoldSet, Folding
<1>2. Folding(c, s0, b, n)
  BY FoldingExists
<1> HIDE DEF c
<1>3. c[{}] = s0
  BY <1>2, FoldingStarts
<1>4. ASSUME NEW i \in 1..n PROVE c[1..i] = LogRecord(c[1..(i - 1)], b[i])
  <2>n. i \in Nat /\ i >= 1 /\ i <= n
    OBVIOUS
  <2>i. i \in 1..i
    BY <2>n
  <2>1. i \in Nat /\ i \in 1..i /\ 1..i # {}
    BY <2>n, <2>i, Zenon
  <2>a. ASSUME NEW j \in 1..i PROVE j \in 1..n
    BY <2>n
  <2>b. 1..i \in SUBSET (1..n) /\ 1..i \in SUBSET (1..i)
    BY <2>a, Zenon
  <2>2. Max(1..i) = i
    BY <2>1, <2>b, LargestOf, Zenon
  <2>3. (1..i) \ {i} = 1..(i - 1)
    OBVIOUS
  <2>4. c[1..i] = LogRecord(c[(1..i) \ {Max(1..i)}], b[Max(1..i)])
    BY <1>2, <2>1, <2>b, Zenon DEF Folding
  <2> QED
    BY <2>2, <2>3, <2>4
<1>5. 1..0 = {}
  OBVIOUS
<1>6. st[0] = s0 /\ st[n] = Logged(s0, b)
  BY <1>1, <1>3, <1>5
<1>7. ASSUME NEW i \in 1..n PROVE st[i] = LogRecord(st[i - 1], b[i])
  <2>1. i \in 0..n /\ i - 1 \in 0..n
    OBVIOUS
  <2> QED
    BY <1>4, <2>1
<1> QED
  BY <1>6, <1>7, Zenon DEF InTurn

LEMMA TurnsWithin ==
    ASSUME NEW m \in Nat \ {0}, NEW x \in Int, NEW k \in Int, 0 <= x - m * k, x - m * k < m
    PROVE  x % m = x - m * k
<1> DEFINE p == x \div m
           u == x % m
<1>1. p \in Int /\ u \in 0..(m - 1) /\ x = m * p + u
  OBVIOUS
<1> HIDE DEF p, u
<1>2. m * (p - k) < m /\ m * (p - k) > -m
  BY <1>1
<1>3. p = k
  <2> DEFINE d == p - k
  <2>1. d \in Int /\ m * d < m /\ m * d > -m
    BY <1>1, <1>2
  <2> HIDE DEF d
  <2>2. d >= 1 => m * d >= m * 1
    BY <2>1
  <2>3. d <= -1 => m * d <= m * (-1)
    BY <2>1
  <2>4. d = 0
    BY <2>1, <2>2, <2>3
  <2> QED
    BY <1>1, <2>4 DEF d
<1> QED
  BY <1>1, <1>3 DEF u

Spellings == 0..(2 * Turn - 1)

LEMMA ApartIs ==
    ASSUME NEW p \in Spellings, NEW q \in Spellings
    PROVE  Apart(p, q) = LET d == IF p >= q THEN p - q ELSE p - q + 2 * Turn
                         IN  IF d <= Turn THEN d ELSE 2 * Turn - d
<1>1. Turn \in Nat \ {0} /\ 2 * Turn \in Nat \ {0} /\ p \in Int /\ q \in Int /\ p - q \in Int
  BY FlightAssumption DEF Spellings
<1>2. p >= q => (p - q) % (2 * Turn) = p - q
  <2>1. p >= q => 0 <= (p - q) - (2 * Turn) * 0 /\ (p - q) - (2 * Turn) * 0 < 2 * Turn
    BY <1>1 DEF Spellings
  <2>2. (p - q) - (2 * Turn) * 0 = p - q
    BY <1>1
  <2> QED
    BY <1>1, <2>1, <2>2, TurnsWithin
<1>3. p < q => (p - q) % (2 * Turn) = p - q + 2 * Turn
  <2>1. p < q => 0 <= (p - q) - (2 * Turn) * (-1) /\ (p - q) - (2 * Turn) * (-1) < 2 * Turn
    BY <1>1 DEF Spellings
  <2>2. (p - q) - (2 * Turn) * (-1) = p - q + 2 * Turn
    BY <1>1
  <2>3. -1 \in Int
    OBVIOUS
  <2> QED
    BY <1>1, <2>1, <2>2, <2>3, TurnsWithin
<1> QED
  BY <1>1, <1>2, <1>3 DEF Apart

LEMMA TheNearer ==
    ASSUME NEW q \in Orientations, NEW last \in Orientations
    PROVE  /\ Quaternion(q, last) \in Orientations
           /\ (Quaternion(q, last) = NoTurn) <=> (q = NoTurn)
           /\ q # NoTurn /\ last # NoTurn => 2 * Apart(last, Quaternion(q, last)) <= Turn
<1>1. Turn \in Nat \ {0} /\ 2 * Turn \in Nat \ {0}
  BY FlightAssumption
<1>2. NoTurn \notin Spellings
  BY FlightAssumption DEF Spellings
<1>3. CASE q = NoTurn \/ last = NoTurn
  BY <1>3, <1>2 DEF Quaternion
<1>4. CASE q # NoTurn /\ last # NoTurn
  <2>1. q \in Spellings /\ last \in Spellings /\ q \in Int /\ last \in Int
    BY <1>4 DEF Orientations, Spellings
  <2>2. Apart(q, last) = LET d == IF q >= last THEN q - last ELSE q - last + 2 * Turn
                         IN  IF d <= Turn THEN d ELSE 2 * Turn - d
    BY <2>1, ApartIs
  <2>3. CASE 2 * Apart(q, last) > Turn
    <3> DEFINE p == IF q + Turn < 2 * Turn THEN q + Turn ELSE q + Turn - 2 * Turn
    <3>1. (q + Turn) % (2 * Turn) = p
      <4>1. q + Turn < 2 * Turn =>
               0 <= (q + Turn) - (2 * Turn) * 0 /\ (q + Turn) - (2 * Turn) * 0 < 2 * Turn
        BY <1>1, <2>1 DEF Spellings
      <4>2. ~(q + Turn < 2 * Turn) =>
               0 <= (q + Turn) - (2 * Turn) * 1 /\ (q + Turn) - (2 * Turn) * 1 < 2 * Turn
        BY <1>1, <2>1 DEF Spellings
      <4>3. (q + Turn) - (2 * Turn) * 0 = q + Turn /\ (q + Turn) - (2 * Turn) * 1 = q + Turn - 2 * Turn
        BY <1>1, <2>1
      <4>4. q + Turn \in Int /\ 0 \in Int /\ 1 \in Int
        BY <1>1, <2>1
      <4>5. q + Turn < 2 * Turn => (q + Turn) % (2 * Turn) = (q + Turn) - (2 * Turn) * 0
        BY <1>1, <4>1, <4>4, TurnsWithin
      <4>6. ~(q + Turn < 2 * Turn) => (q + Turn) % (2 * Turn) = (q + Turn) - (2 * Turn) * 1
        BY <1>1, <4>2, <4>4, TurnsWithin
      <4> QED
        BY <4>3, <4>5, <4>6
    <3>2. Quaternion(q, last) = p
      BY <1>4, <2>3, <3>1 DEF Quaternion
    <3>3. p \in Spellings /\ p \in Int
      BY <1>1, <2>1 DEF Spellings
    <3>4. Apart(last, p) = LET d == IF last >= p THEN last - p ELSE last - p + 2 * Turn
                           IN  IF d <= Turn THEN d ELSE 2 * Turn - d
      BY <2>1, <3>3, ApartIs
    <3>5. 2 * Apart(last, p) <= Turn
      BY <1>1, <2>1, <2>2, <2>3, <3>3, <3>4 DEF Spellings
    <3> QED
      BY <1>2, <1>4, <3>2, <3>3, <3>5 DEF Spellings, Orientations
  <2>4. CASE ~(2 * Apart(q, last) > Turn)
    <3>1. Quaternion(q, last) = q
      BY <2>4 DEF Quaternion
    <3>2. Apart(last, q) = LET d == IF last >= q THEN last - q ELSE last - q + 2 * Turn
                           IN  IF d <= Turn THEN d ELSE 2 * Turn - d
      BY <2>1, ApartIs
    <3>3. 2 * Apart(last, q) <= Turn
      BY <1>1, <2>1, <2>2, <2>4, <3>2 DEF Spellings
    <3> QED
      BY <1>4, <3>1, <3>3
  <2> QED
    BY <2>3, <2>4
<1> QED
  BY <1>3, <1>4

\* What a reader of a whole log would tell of a record of it.
EdgesOf(l) == {i \in DOMAIN l : l[i].contact /\ (i = 1 \/ ~l[i - 1].contact)}
ChangesOf(l, f) == {i \in 2..Len(l) : l[i][f] # l[i - 1][f]}
Tells(l, i, e) ==
    \/ e = "start" /\ i = 1
    \/ e = "errors" /\ (IF i = 1 THEN l[1].errors ELSE l[i].errors # l[i - 1].errors)
    \/ e = "mode" /\ i # 1 /\ l[i].mode # l[i - 1].mode
    \/ e = "contact" /\ l[i].contact /\ \A k \in 1..(i - 1) : ~l[k].contact
ToldOf(l) == {p \in (DOMAIN l) \X Happenings : Tells(l, p[1], p[2])}

\* The series goes on from its last orientation.
Continues(turns, last) ==
    /\ turns \in Seq(Orientations) /\ last \in Orientations
    /\ last = NoTurn => \A i \in DOMAIN turns : turns[i] = NoTurn
    /\ last # NoTurn =>
         \E i \in DOMAIN turns : turns[i] = last /\ \A k \in (i + 1)..Len(turns) : turns[k] = NoTurn
    /\ \A i, j \in DOMAIN turns :
         i < j /\ turns[i] # NoTurn /\ turns[j] # NoTurn
           /\ (\A k \in (i+1)..(j-1) : turns[k] = NoTurn) => 2 * Apart(turns[i], turns[j]) <= Turn

\* What the logger keeps after a log is what the next record is to be compared with.
LoggerIs(s, l) ==
    /\ l \in Seq(FlightRecords)
    /\ s.any = (l # <<>>)
    /\ l # <<>> => s.errors = l[Len(l)].errors /\ s.mode = l[Len(l)].mode
                   /\ s.contact = l[Len(l)].contact
    /\ l = <<>> => s.errors = FALSE /\ s.contact = FALSE
    /\ s.seen = (\E i \in DOMAIN l : l[i].contact)
    /\ s.shown \in BOOLEAN
    /\ s.errorChanges = Cardinality(ChangesOf(l, "errors"))
    /\ s.modeChanges = Cardinality(ChangesOf(l, "mode"))
    /\ s.contacts = Cardinality(EdgesOf(l))
    /\ s.events = ToldOf(l)
    /\ s.drawn = {i \in DOMAIN l : (i - 1) % Every = 0}
    /\ Len(s.turns) = Len(l) /\ Continues(s.turns, s.last)
    /\ s.marks \in Seq({"estimate", "clear", "none"}) /\ Len(s.marks) = Len(l)

\* A log that grew by a record.
LEMMA Grown ==
    ASSUME NEW l \in Seq(FlightRecords), NEW r \in FlightRecords, NEW m, m = Append(l, r)
    PROVE  /\ m \in Seq(FlightRecords) /\ Len(l) \in Nat /\ Len(m) = Len(l) + 1 /\ m # <<>>
           /\ DOMAIN l = 1..Len(l) /\ DOMAIN m = 1..(Len(l) + 1) /\ m[Len(l) + 1] = r
           /\ (l # <<>>) <=> (Len(l) >= 1)
           /\ \A i \in 1..Len(l) : m[i] = l[i]
  OBVIOUS

\* A record's fields.
LEMMA RecordIs ==
    ASSUME NEW r \in FlightRecords
    PROVE  /\ r.time \in Int /\ r.errors \in BOOLEAN /\ r.mode \in BOOLEAN /\ r.contact \in BOOLEAN
           /\ r.loud \in BOOLEAN /\ r.turn \in Orientations
           /\ r["errors"] = r.errors /\ r["mode"] = r.mode
  BY FlightAssumption

\* One more of what is counted, if the record is one of those.
LEMMA CountsOn ==
    ASSUME NEW n \in Nat, NEW S, S \subseteq 1..n, NEW b \in BOOLEAN, NEW R,
           R = S \cup (IF b THEN {n + 1} ELSE {})
    PROVE  Cardinality(S) \in Nat /\ Cardinality(R) = Cardinality(S) + One(b)
<1>1. IsFiniteSet(S)
  <2>1. 1 \in Int /\ n \in Int
    OBVIOUS
  <2>2. IsFiniteSet(1..n)
    BY <2>1, FS_Interval
  <2> QED
    BY <2>2, FS_Subset
<1>2. Cardinality(S) \in Nat
  BY <1>1, FS_CardinalityType
<1>3. CASE b
  <2>1. n + 1 \notin S /\ R = S \cup {n + 1}
    BY <1>3
  <2>2. Cardinality(R) = Cardinality(S) + 1
    BY <1>1, <2>1, FS_AddElement
  <2> QED
    BY <1>2, <1>3, <2>2 DEF One
<1>4. CASE ~b
  <2>1. R = S
    BY <1>4
  <2> QED
    BY <1>2, <1>4, <2>1 DEF One
<1> QED
  BY <1>3, <1>4

LEMMA ChangesGrow ==
    ASSUME NEW l \in Seq(FlightRecords), NEW r \in FlightRecords, NEW f
    PROVE  /\ ChangesOf(l, f) \subseteq 1..Len(l)
           /\ ChangesOf(Append(l, r), f) =
                ChangesOf(l, f) \cup (IF l # <<>> /\ r[f] # l[Len(l)][f] THEN {Len(l) + 1} ELSE {})
<1> DEFINE m == Append(l, r)
<1>1. /\ Len(l) \in Nat /\ Len(m) = Len(l) + 1 /\ m[Len(l) + 1] = r
      /\ (l # <<>>) <=> (Len(l) >= 1)
      /\ \A i \in 1..Len(l) : m[i] = l[i]
  BY Grown
<1> HIDE DEF m
<1>2. ChangesOf(m, f) = {i \in 2..(Len(l) + 1) : m[i][f] # m[i - 1][f]}
  BY <1>1 DEF ChangesOf
<1>3. \A i \in 2..Len(l) : i \in 1..Len(l) /\ i - 1 \in 1..Len(l)
  BY <1>1
<1>4. \A i \in 2..Len(l) : m[i][f] # m[i - 1][f] <=> l[i][f] # l[i - 1][f]
  BY <1>1, <1>3
<1>5. l # <<>> => Len(l) + 1 \in 2..(Len(l) + 1) /\ (Len(l) + 1) - 1 = Len(l) /\ Len(l) \in 1..Len(l)
  BY <1>1
<1>6. ChangesOf(l, f) \subseteq 1..Len(l)
  BY <1>1 DEF ChangesOf
<1>7. \A i \in 2..(Len(l) + 1) : i \in 2..Len(l) \/ (i = Len(l) + 1 /\ l # <<>>)
  BY <1>1
<1>8. \A i \in 2..Len(l) : i \in 2..(Len(l) + 1)
  BY <1>1
<1>9. l # <<>> => (m[Len(l) + 1][f] # m[(Len(l) + 1) - 1][f] <=> r[f] # l[Len(l)][f])
  BY <1>1, <1>5
<1> QED
  BY <1>2, <1>4, <1>5, <1>6, <1>7, <1>8, <1>9 DEF ChangesOf, m

LEMMA EdgesGrow ==
    ASSUME NEW l \in Seq(FlightRecords), NEW r \in FlightRecords
    PROVE  /\ EdgesOf(l) \subseteq 1..Len(l)
           /\ EdgesOf(Append(l, r)) =
                EdgesOf(l) \cup (IF r.contact /\ (l = <<>> \/ ~l[Len(l)].contact) THEN {Len(l) + 1} ELSE {})
<1> DEFINE m == Append(l, r)
<1>1. /\ Len(l) \in Nat /\ Len(m) = Len(l) + 1 /\ m[Len(l) + 1] = r
      /\ (l # <<>>) <=> (Len(l) >= 1)
      /\ DOMAIN l = 1..Len(l) /\ DOMAIN m = 1..(Len(l) + 1)
      /\ \A i \in 1..Len(l) : m[i] = l[i]
  BY Grown
<1> HIDE DEF m
<1>2. EdgesOf(m) = {i \in 1..(Len(l) + 1) : m[i].contact /\ (i = 1 \/ ~m[i - 1].contact)}
  BY <1>1 DEF EdgesOf
<1>3. EdgesOf(l) = {i \in 1..Len(l) : l[i].contact /\ (i = 1 \/ ~l[i - 1].contact)}
  BY <1>1 DEF EdgesOf
<1>4. \A i \in 1..Len(l) : i = 1 \/ i - 1 \in 1..Len(l)
  BY <1>1
<1>5. \A i \in 1..Len(l) : m[i].contact /\ (i = 1 \/ ~m[i - 1].contact)
                            <=> l[i].contact /\ (i = 1 \/ ~l[i - 1].contact)
  BY <1>1, <1>4
<1>6. l # <<>> => (Len(l) + 1) - 1 = Len(l) /\ Len(l) \in 1..Len(l) /\ Len(l) + 1 # 1
  BY <1>1
<1>7. l = <<>> => Len(l) + 1 = 1
  BY <1>1
<1>8. m[Len(l) + 1].contact /\ (Len(l) + 1 = 1 \/ ~m[(Len(l) + 1) - 1].contact)
        <=> r.contact /\ (l = <<>> \/ ~l[Len(l)].contact)
  BY <1>1, <1>6, <1>7
<1>9. \A i \in 1..(Len(l) + 1) : i \in 1..Len(l) \/ i = Len(l) + 1
  BY <1>1
<1>10. Len(l) + 1 \in 1..(Len(l) + 1) /\ \A i \in 1..Len(l) : i \in 1..(Len(l) + 1)
  BY <1>1
<1> QED
  BY <1>2, <1>3, <1>5, <1>8, <1>9, <1>10 DEF m

LEMMA ToldGrow ==
    ASSUME NEW s, NEW l, LoggerIs(s, l), NEW r \in FlightRecords
    PROVE  ToldOf(Append(l, r)) = ToldOf(l) \cup ({Len(l) + 1} \X Happened(s, r))
<1> DEFINE m == Append(l, r)
           n == Len(l)
<1>0. l \in Seq(FlightRecords)
  BY DEF LoggerIs
<1>1. /\ n \in Nat /\ m[n + 1] = r
      /\ (l # <<>>) <=> (n >= 1)
      /\ DOMAIN l = 1..n /\ DOMAIN m = 1..(n + 1) /\ \A i \in 1..n : m[i] = l[i]
  BY <1>0, Grown
<1>2. /\ s.any = (l # <<>>)
      /\ l # <<>> => s.errors = l[n].errors /\ s.mode = l[n].mode /\ s.contact = l[n].contact
      /\ l = <<>> => s.errors = FALSE /\ s.contact = FALSE
      /\ s.seen = (\E i \in 1..n : l[i].contact)
  BY <1>1 DEF LoggerIs
<1> HIDE DEF m, n
<1>3. ASSUME NEW i \in 1..n, NEW e \in Happenings PROVE Tells(m, i, e) <=> Tells(l, i, e)
  <2>1. i = 1 \/ i - 1 \in 1..n
    BY <1>1
  <2>2. m[i] = l[i] /\ (i = 1 => m[1] = l[1]) /\ (i # 1 => m[i - 1] = l[i - 1])
    BY <1>1, <2>1
  <2>3. \A k \in 1..(i - 1) : k \in 1..n
    BY <1>1
  <2>4. \A k \in 1..(i - 1) : m[k] = l[k]
    BY <1>1, <2>3
  <2> QED
    BY <2>2, <2>4 DEF Tells
<1>4. ASSUME NEW e \in Happenings PROVE Tells(m, n + 1, e) <=> e \in Happened(s, r)
  <2>1. (n + 1) - 1 = n /\ (n + 1 = 1 <=> l = <<>>) /\ n \in Nat
    BY <1>1
  <2>2. n + 1 # 1 => n \in 1..n /\ m[n] = l[n]
    BY <1>1
  <2>3. (\A k \in 1..((n + 1) - 1) : ~m[k].contact) <=> ~s.seen
    BY <1>1, <1>2, <2>1
  <2>4. (n + 1 = 1) <=> ~s.any
    BY <1>2, <2>1
  <2>5. s.contact => s.seen
    BY <1>2, <2>1, <2>2
  <2>6. CASE e = "start"
    BY <2>4, <2>6, Zenon DEF Tells, Happened
  <2>7. CASE e = "errors"
    <3>1. m[n + 1].errors = r.errors
      BY <1>1
    <3>2. n + 1 = 1 => m[1].errors = r.errors
      BY <1>1
    <3>3. s.any => (m[n + 1].errors # m[(n + 1) - 1].errors <=> r.errors # s.errors)
      BY <1>1, <1>2, <2>1, <2>2, <3>1
    <3> QED
      BY <2>4, <2>7, <3>2, <3>3, Zenon DEF Tells, Happened
  <2>8. CASE e = "mode"
    <3>1. s.any => (m[n + 1].mode # m[(n + 1) - 1].mode <=> r.mode # s.mode)
      BY <1>1, <1>2, <2>1, <2>2
    <3> QED
      BY <2>4, <2>8, <3>1, Zenon DEF Tells, Happened
  <2>9. CASE e = "contact"
    <3>1. m[n + 1].contact <=> r.contact
      BY <1>1
    <3> QED
      BY <2>3, <2>5, <2>9, <3>1, Zenon DEF Tells, Happened, Rises
  <2> QED
    BY <2>6, <2>7, <2>8, <2>9 DEF Happenings
<1>5. Happened(s, r) \subseteq Happenings
  BY DEF Happened
<1>6. ASSUME NEW p PROVE p \in ToldOf(m) <=> p \in ToldOf(l) \cup ({n + 1} \X Happened(s, r))
  <2>1. p \in ToldOf(m) <=> p \in (1..(n + 1)) \X Happenings /\ Tells(m, p[1], p[2])
    BY <1>1 DEF ToldOf
  <2>2. p \in ToldOf(l) <=> p \in (1..n) \X Happenings /\ Tells(l, p[1], p[2])
    BY <1>1 DEF ToldOf
  <2>3. p \in (1..n) \X Happenings => p \in (1..(n + 1)) \X Happenings
    BY <1>1
  <2>4. p \in (1..(n + 1)) \X Happenings => p \in (1..n) \X Happenings \/ p[1] = n + 1
    BY <1>1
  <2>5. p \in {n + 1} \X Happened(s, r) => p \in (1..(n + 1)) \X Happenings /\ p[1] = n + 1
    BY <1>1, <1>5
  <2>6. p \in (1..(n + 1)) \X Happenings /\ p[1] = n + 1 =>
          (Tells(m, p[1], p[2]) <=> p \in {n + 1} \X Happened(s, r))
    <3> SUFFICES ASSUME p \in (1..(n + 1)) \X Happenings, p[1] = n + 1
                 PROVE  Tells(m, p[1], p[2]) <=> p \in {n + 1} \X Happened(s, r)
      OBVIOUS
    <3>1. p = <<p[1], p[2]>> /\ p[2] \in Happenings
      OBVIOUS
    <3>2. Tells(m, n + 1, p[2]) <=> p[2] \in Happened(s, r)
      BY <1>4, <3>1
    <3>3. p \in {n + 1} \X Happened(s, r) <=> p[2] \in Happened(s, r)
      BY <3>1
    <3> QED
      BY <3>2, <3>3
  <2>7. p \in (1..n) \X Happenings => (Tells(m, p[1], p[2]) <=> Tells(l, p[1], p[2]))
    <3>1. p \in (1..n) \X Happenings => p[1] \in 1..n /\ p[2] \in Happenings
      OBVIOUS
    <3> QED
      BY <1>3, <3>1
  <2>8. p \in (1..n) \X Happenings => p[1] # n + 1
    BY <1>1
  <2> QED
    BY <2>1, <2>2, <2>3, <2>4, <2>5, <2>6, <2>7, <2>8, Zenon
<1>7. ToldOf(m) = ToldOf(l) \cup ({n + 1} \X Happened(s, r))
  BY <1>6, Zenon
<1> QED
  BY <1>7 DEF m, n

\* The series goes on with the nearer spelling of the next orientation.
LEMMA SeriesGoesOn ==
    ASSUME NEW turns, NEW last, Continues(turns, last), NEW turn \in Orientations
    PROVE  Continues(Append(turns, Quaternion(turn, last)),
                     Continued(Quaternion(turn, last), last))
<1> DEFINE q == Quaternion(turn, last)
           more == Append(turns, q)
           n == Len(turns)
           next == Continued(q, last)
<1>1. turns \in Seq(Orientations) /\ last \in Orientations
  BY DEF Continues
<1>2. q \in Orientations /\ (last # NoTurn /\ q # NoTurn => 2 * Apart(last, q) <= Turn)
  BY <1>1, TheNearer
<1> HIDE DEF q
<1>3. /\ n \in Nat /\ more \in Seq(Orientations) /\ Len(more) = n + 1 /\ more[n + 1] = q
      /\ DOMAIN turns = 1..n /\ DOMAIN more = 1..(n + 1) /\ \A i \in 1..n : more[i] = turns[i]
  BY <1>1, <1>2
<1>4. next = IF q = NoTurn THEN last ELSE q
  BY DEF Continued
<1> HIDE DEF more, n, next
<1>5. \A i \in 1..(n + 1) : i \in 1..n \/ i = n + 1
  BY <1>3
<1>6. last = NoTurn => \A i \in 1..n : turns[i] = NoTurn
  BY <1>3 DEF Continues
<1>7. last # NoTurn => \E i \in 1..n : turns[i] = last /\ \A k \in (i + 1)..n : turns[k] = NoTurn
  BY <1>3 DEF Continues, n
<1>8. next \in Orientations /\ (next = NoTurn => \A i \in 1..(n + 1) : more[i] = NoTurn)
  BY <1>1, <1>2, <1>3, <1>4, <1>5, <1>6
<1>9. next # NoTurn =>
        \E i \in 1..(n + 1) : more[i] = next /\ \A k \in (i + 1)..(n + 1) : more[k] = NoTurn
  <2>1. CASE q # NoTurn
    <3>1. n + 1 \in 1..(n + 1) /\ more[n + 1] = next
      BY <1>3, <1>4, <2>1
    <3>2. \A k \in ((n + 1) + 1)..(n + 1) : more[k] = NoTurn
      BY <1>3
    <3> QED
      BY <3>1, <3>2
  <2>2. CASE q = NoTurn /\ last # NoTurn
    <3>1. PICK i \in 1..n : turns[i] = last /\ \A k \in (i + 1)..n : turns[k] = NoTurn
      BY <1>7, <2>2
    <3>2. i \in 1..(n + 1) /\ more[i] = next
      BY <1>3, <1>4, <2>2, <3>1
    <3>3. ASSUME NEW k \in (i + 1)..(n + 1) PROVE more[k] = NoTurn
      <4>1. (k \in (i + 1)..n /\ k \in 1..n) \/ k = n + 1
        BY <1>3
      <4> QED
        BY <1>3, <2>2, <3>1, <4>1
    <3> QED
      BY <3>2, <3>3
  <2> QED
    BY <1>4, <2>1, <2>2
<1>10. ASSUME NEW i \in 1..(n + 1), NEW j \in 1..(n + 1), i < j, more[i] # NoTurn,
              more[j] # NoTurn, \A k \in (i+1)..(j-1) : more[k] = NoTurn
       PROVE  2 * Apart(more[i], more[j]) <= Turn
  <2>1. i \in 1..n
    BY <1>3, <1>10
  <2>2. CASE j \in 1..n
    <3>1. \A k \in (i+1)..(j-1) : k \in 1..n
      BY <1>3, <2>1, <2>2
    <3>2. \A k \in (i+1)..(j-1) : turns[k] = NoTurn
      BY <1>3, <1>10, <3>1
    <3>3. 2 * Apart(turns[i], turns[j]) <= Turn
      BY <1>3, <1>10, <2>1, <2>2, <3>2 DEF Continues
    <3> QED
      BY <1>3, <2>1, <2>2, <3>3
  <2>3. CASE j = n + 1
    <3>1. q # NoTurn /\ turns[i] # NoTurn
      BY <1>3, <1>10, <2>1, <2>3
    <3>2. last # NoTurn
      BY <1>6, <2>1, <3>1
    <3>3. PICK h \in 1..n : turns[h] = last /\ \A k \in (h + 1)..n : turns[k] = NoTurn
      BY <1>7, <3>2
    <3>4. h = i
      <4>1. ~(h < i)
        BY <1>3, <2>1, <3>1, <3>3
      <4>2. h > i => h \in (i + 1)..(j - 1)
        BY <1>3, <2>1, <2>3
      <4>3. ~(h > i)
        BY <1>3, <1>10, <3>2, <3>3, <4>2
      <4> QED
        BY <1>3, <2>1, <4>1, <4>3
    <3>5. more[i] = last /\ more[j] = q
      BY <1>3, <2>1, <2>3, <3>3, <3>4
    <3> QED
      BY <1>2, <3>1, <3>2, <3>5
  <2> QED
    BY <1>5, <2>2, <2>3
<1>11. Continues(more, next)
  BY <1>3, <1>8, <1>9, <1>10, Zenon DEF Continues
<1> QED
  BY <1>11 DEF q, more, next

\* A record more, and the logger is what the longer log makes of it.
LEMMA RecordKeeps ==
    ASSUME NEW s, NEW l, LoggerIs(s, l), NEW r \in FlightRecords
    PROVE  LoggerIs(LogRecord(s, r), Append(l, r))
<1> DEFINE m == Append(l, r)
           t == LogRecord(s, r)
           n == Len(l)
           mark == Mark(s, r, Len(s.marks))
<1>0. l \in Seq(FlightRecords) /\ Len(s.marks) = n /\ Len(s.turns) = n
  BY DEF LoggerIs
<1>1. /\ m \in Seq(FlightRecords) /\ n \in Nat /\ Len(m) = n + 1 /\ m # <<>> /\ m[n + 1] = r
      /\ DOMAIN l = 1..n /\ DOMAIN m = 1..(n + 1) /\ \A i \in 1..n : m[i] = l[i]
      /\ (l # <<>>) <=> (n >= 1)
  BY <1>0, Grown
<1>2. /\ r.errors \in BOOLEAN /\ r.mode \in BOOLEAN /\ r.contact \in BOOLEAN /\ r.turn \in Orientations
      /\ r["errors"] = r.errors /\ r["mode"] = r.mode
  BY RecordIs
<1>3. mark \in {"estimate", "clear", "none"}
  BY DEF Mark
<1>4. /\ t.any = TRUE /\ t.errors = r.errors /\ t.mode = r.mode /\ t.contact = r.contact
      /\ t.seen = (s.seen \/ Rises(s, r)) /\ t.shown = (mark = "estimate")
      /\ t.errorChanges = s.errorChanges + One(s.any /\ r.errors # s.errors)
      /\ t.modeChanges = s.modeChanges + One(s.any /\ r.mode # s.mode)
      /\ t.contacts = s.contacts + One(Rises(s, r))
      /\ t.events = s.events \cup ({Len(s.marks) + 1} \X Happened(s, r))
      /\ t.drawn = (IF Len(s.marks) % Every = 0 THEN s.drawn \cup {Len(s.marks) + 1} ELSE s.drawn)
      /\ t.turns = Append(s.turns, Quaternion(r.turn, s.last))
      /\ t.last = Continued(Quaternion(r.turn, s.last), s.last)
      /\ t.marks = Append(s.marks, mark)
  BY DEF LogRecord
<1> HIDE DEF m, t, n, mark
<1>5. /\ s.any = (l # <<>>)
      /\ l # <<>> => s.errors = l[n].errors /\ s.mode = l[n].mode /\ s.contact = l[n].contact
      /\ l = <<>> => s.errors = FALSE /\ s.contact = FALSE
      /\ s.seen = (\E i \in 1..n : l[i].contact)
  BY <1>1 DEF LoggerIs, n
<1>6. l # <<>> => n \in 1..n /\ l[n] \in FlightRecords
  BY <1>0, <1>1
<1>7. l # <<>> => l[n]["errors"] = l[n].errors /\ l[n]["mode"] = l[n].mode /\ l[n].errors \in BOOLEAN
                  /\ l[n].contact \in BOOLEAN
  BY <1>6, RecordIs
<1>8. t.errorChanges = Cardinality(ChangesOf(m, "errors"))
  <2> DEFINE b == l # <<>> /\ r.errors # s.errors
  <2>1. ChangesOf(l, "errors") \subseteq 1..n
    BY <1>0, ChangesGrow DEF n
  <2>2. ChangesOf(m, "errors") = ChangesOf(l, "errors") \cup (IF b THEN {n + 1} ELSE {})
    BY <1>0, <1>2, <1>5, <1>7, ChangesGrow DEF m, n
  <2>3. b \in BOOLEAN
    OBVIOUS
  <2>4. b = (s.any /\ r.errors # s.errors)
    BY <1>5
  <2> HIDE DEF b
  <2>5. Cardinality(ChangesOf(m, "errors")) = Cardinality(ChangesOf(l, "errors")) + One(b)
    BY <1>1, <2>1, <2>2, <2>3, CountsOn
  <2> QED
    BY <1>4, <2>4, <2>5 DEF LoggerIs
<1>9. t.modeChanges = Cardinality(ChangesOf(m, "mode"))
  <2> DEFINE b == l # <<>> /\ r.mode # s.mode
  <2>1. ChangesOf(l, "mode") \subseteq 1..n
    BY <1>0, ChangesGrow DEF n
  <2>2. ChangesOf(m, "mode") = ChangesOf(l, "mode") \cup (IF b THEN {n + 1} ELSE {})
    BY <1>0, <1>2, <1>5, <1>7, ChangesGrow DEF m, n
  <2>3. b \in BOOLEAN
    OBVIOUS
  <2>4. b = (s.any /\ r.mode # s.mode)
    BY <1>5
  <2> HIDE DEF b
  <2>5. Cardinality(ChangesOf(m, "mode")) = Cardinality(ChangesOf(l, "mode")) + One(b)
    BY <1>1, <2>1, <2>2, <2>3, CountsOn
  <2> QED
    BY <1>4, <2>4, <2>5 DEF LoggerIs
<1>10. t.contacts = Cardinality(EdgesOf(m))
  <2> DEFINE b == r.contact /\ (l = <<>> \/ ~l[n].contact)
  <2>1. EdgesOf(l) \subseteq 1..n
    BY <1>0, EdgesGrow DEF n
  <2>2. EdgesOf(m) = EdgesOf(l) \cup (IF b THEN {n + 1} ELSE {})
    BY <1>0, EdgesGrow DEF m, n
  <2>3. b \in BOOLEAN
    OBVIOUS
  <2>4. b = Rises(s, r)
    BY <1>2, <1>5, <1>7 DEF Rises
  <2> HIDE DEF b
  <2>5. Cardinality(EdgesOf(m)) = Cardinality(EdgesOf(l)) + One(b)
    BY <1>1, <2>1, <2>2, <2>3, CountsOn
  <2> QED
    BY <1>4, <2>4, <2>5 DEF LoggerIs
<1>11. t.events = ToldOf(m)
  <2>1. ToldOf(m) = ToldOf(l) \cup ({n + 1} \X Happened(s, r))
    BY ToldGrow DEF m, n
  <2> QED
    BY <1>0, <1>4, <2>1 DEF LoggerIs
<1>12. t.drawn = {i \in DOMAIN m : (i - 1) % Every = 0}
  <2>1. s.drawn = {i \in 1..n : (i - 1) % Every = 0}
    BY <1>1 DEF LoggerIs
  <2>2. (n + 1) - 1 = n /\ \A i \in 1..(n + 1) : i \in 1..n \/ i = n + 1
    BY <1>1
  <2>3. n + 1 \in 1..(n + 1) /\ \A i \in 1..n : i \in 1..(n + 1)
    BY <1>1
  <2> DEFINE Due(i) == (i - 1) % Every = 0
  <2>4. Due(n + 1) <=> n % Every = 0
    BY <2>2
  <2>5. t.drawn = IF Due(n + 1) THEN s.drawn \cup {n + 1} ELSE s.drawn
    BY <1>0, <1>4, <2>4
  <2>6. s.drawn = {i \in 1..n : Due(i)}
    BY <2>1
  <2> HIDE DEF Due
  <2>7. t.drawn = {i \in 1..(n + 1) : Due(i)}
    BY <2>2, <2>3, <2>5, <2>6
  <2> QED
    BY <1>1, <2>7 DEF Due
<1>13. t.seen = (\E i \in DOMAIN m : m[i].contact)
  <2>1. \A i \in 1..(n + 1) : i \in 1..n \/ i = n + 1
    BY <1>1
  <2>2. n + 1 \in 1..(n + 1) /\ \A i \in 1..n : i \in 1..(n + 1)
    BY <1>1
  <2>3. s.contact => s.seen
    BY <1>5, <1>6
  <2>4. (s.seen \/ Rises(s, r)) <=> (s.seen \/ r.contact)
    BY <2>3 DEF Rises
  <2>5. (\E i \in 1..(n + 1) : m[i].contact) <=> ((\E i \in 1..n : l[i].contact) \/ r.contact)
    BY <1>1, <2>1, <2>2
  <2>6. (s.seen \/ Rises(s, r)) \in BOOLEAN
    OBVIOUS
  <2> QED
    BY <1>1, <1>4, <1>5, <2>4, <2>5, <2>6
<1>14. Len(t.turns) = Len(m) /\ Continues(t.turns, t.last)
  <2>1. Continues(s.turns, s.last)
    BY DEF LoggerIs
  <2>2. Continues(t.turns, t.last)
    BY <1>2, <1>4, <2>1, SeriesGoesOn
  <2>3. s.turns \in Seq(Orientations) /\ s.last \in Orientations
    BY <2>1 DEF Continues
  <2>4. Quaternion(r.turn, s.last) \in Orientations
    BY <1>2, <2>3, TheNearer
  <2> QED
    BY <1>0, <1>1, <1>4, <2>2, <2>3, <2>4
<1>15. t.marks \in Seq({"estimate", "clear", "none"}) /\ Len(t.marks) = Len(m)
  <2>1. s.marks \in Seq({"estimate", "clear", "none"})
    BY DEF LoggerIs
  <2> QED
    BY <1>0, <1>1, <1>3, <1>4, <2>1
<1>16. /\ m \in Seq(FlightRecords) /\ t.any = (m # <<>>)
       /\ m # <<>> => t.errors = m[Len(m)].errors /\ t.mode = m[Len(m)].mode
                      /\ t.contact = m[Len(m)].contact
       /\ m = <<>> => t.errors = FALSE /\ t.contact = FALSE
       /\ t.shown \in BOOLEAN
  BY <1>1, <1>4
<1>17. LoggerIs(t, m)
  BY <1>8, <1>9, <1>10, <1>11, <1>12, <1>13, <1>14, <1>15, <1>16, Zenon DEF LoggerIs
<1> QED
  BY <1>17 DEF t, m

\* However the log was cut.
LEMMA BatchKeeps ==
    ASSUME NEW s, NEW l, LoggerIs(s, l), NEW b \in Seq(FlightRecords)
    PROVE  LoggerIs(Logged(s, b), l \o b)
<1> DEFINE n == Len(b)
<1>1. n \in Nat /\ DOMAIN b = 1..n
  OBVIOUS
<1>2. PICK st : InTurn(st, s, b, n)
  BY <1>1, LoggedInTurn
<1>3. l \in Seq(FlightRecords)
  BY DEF LoggerIs
<1> DEFINE upTo(i) == l \o SubSeq(b, 1, i)
           T == {i \in Nat : i <= n => LoggerIs(st[i], upTo(i))}
<1>4. 0 \in T
  <2>1. upTo(0) = l
    BY <1>3
  <2> QED
    BY <1>2, <2>1 DEF InTurn
<1>5. ASSUME NEW i \in T PROVE i + 1 \in T
  <2> SUFFICES ASSUME i + 1 <= n PROVE LoggerIs(st[i + 1], upTo(i + 1))
    OBVIOUS
  <2>1. i \in Nat /\ i <= n /\ i + 1 \in 1..n /\ (i + 1) - 1 = i
    BY <1>1
  <2>2. LoggerIs(st[i], upTo(i))
    BY <2>1
  <2>3. b[i + 1] \in FlightRecords
    BY <1>1, <2>1
  <2>4. st[i + 1] = LogRecord(st[i], b[i + 1])
    BY <1>2, <2>1 DEF InTurn
  <2>5. upTo(i + 1) = Append(upTo(i), b[i + 1])
    BY <1>3, <2>1
  <2> HIDE DEF upTo
  <2> QED
    BY <2>2, <2>3, <2>4, <2>5, RecordKeeps
<1>6. T \subseteq Nat
  OBVIOUS
<1>7. n \in T
  <2> HIDE DEF T
  <2> QED
    BY <1>1, <1>4, <1>5, <1>6, Upward
<1>8. upTo(n) = l \o b
  <2>1. SubSeq(b, 1, n) = b
    BY <1>1
  <2> QED
    BY <2>1
<1> HIDE DEF n, upTo
<1>9. n <= n
  BY <1>1
<1> QED
  BY <1>2, <1>7, <1>8, <1>9 DEF InTurn, T

\* The first batch decides on what the timeline is, for good.
TimesInv ==
    /\ timebase \in {"undecided", "robot", "index"}
    /\ stamped \in Seq(Int) /\ Len(stamped) = Len(log)
    /\ timebase = "undecided" => log = <<>>
    /\ timebase = "index" => \A k \in DOMAIN log : stamped[k] = k - 1
    /\ timebase = "robot" => \A k \in DOMAIN log : stamped[k] = log[k].time
    /\ InOrder(log)

FlightInv == LoggerIs(logger, log) /\ Len(log) <= MaxLog /\ TimesInv

\* One sequence after another.
Join(a, b, c, S) ==
    /\ c \in Seq(S) /\ Len(c) = Len(a) + Len(b) /\ DOMAIN c = 1..(Len(a) + Len(b))
    /\ \A k \in 1..Len(a) : c[k] = a[k]
    /\ \A k \in 1..Len(b) : c[Len(a) + k] = b[k]

LEMMA Joined ==
    ASSUME NEW S, NEW a \in Seq(S), NEW b \in Seq(S)
    PROVE  Join(a, b, a \o b, S)
<1>1. a \o b \in Seq(S) /\ Len(a \o b) = Len(a) + Len(b) /\ Len(a) \in Nat /\ Len(b) \in Nat
  OBVIOUS
<1>2. DOMAIN (a \o b) = 1..(Len(a) + Len(b))
  BY <1>1
<1>3. ASSUME NEW k \in 1..Len(a) PROVE (a \o b)[k] = a[k]
  BY <1>1
<1>4. ASSUME NEW k \in 1..Len(b) PROVE (a \o b)[Len(a) + k] = b[k]
  BY <1>1
<1> QED
  BY <1>1, <1>2, <1>3, <1>4 DEF Join

LEMMA FlightBegins == FlightInit => FlightInv
<1> SUFFICES ASSUME FlightInit PROVE FlightInv
  OBVIOUS
<1>1. log = <<>> /\ stamped = <<>> /\ timebase = "undecided"
  BY DEF FlightInit
<1>2. /\ logger.any = FALSE /\ logger.errors = FALSE /\ logger.contact = FALSE /\ logger.seen = FALSE
      /\ logger.last = NoTurn /\ logger.shown = FALSE /\ logger.errorChanges = 0
      /\ logger.modeChanges = 0 /\ logger.contacts = 0 /\ logger.events = {} /\ logger.turns = <<>>
      /\ logger.drawn = {} /\ logger.marks = <<>>
  BY DEF FlightInit
<1>3. <<>> \in Seq(FlightRecords) /\ Len(<<>>) = 0 /\ DOMAIN <<>> = {} /\ <<>> \in Seq(Int)
      /\ <<>> \in Seq(Orientations) /\ <<>> \in Seq({"estimate", "clear", "none"})
  OBVIOUS
<1>4. EdgesOf(<<>>) = {} /\ ChangesOf(<<>>, "errors") = {} /\ ChangesOf(<<>>, "mode") = {}
      /\ ToldOf(<<>>) = {}
  BY <1>3 DEF EdgesOf, ChangesOf, ToldOf
<1>5. Cardinality({}) = 0
  BY FS_EmptySet
<1>6. NoTurn \in Orientations
  BY DEF Orientations
<1>7. Continues(<<>>, NoTurn)
  BY <1>3, <1>6 DEF Continues
<1>8. LoggerIs(logger, log)
  BY <1>1, <1>2, <1>3, <1>4, <1>5, <1>7 DEF LoggerIs
<1>9. TimesInv
  BY <1>1, <1>3 DEF TimesInv, InOrder
<1>10. Len(log) <= MaxLog
  BY <1>1, <1>3, FlightAssumption
<1> QED
  BY <1>8, <1>9, <1>10 DEF FlightInv

LEMMA FlightSteps == FlightInv /\ [FlightNext]_flightVars => FlightInv'
<1> SUFFICES ASSUME FlightInv, [FlightNext]_flightVars PROVE FlightInv'
  OBVIOUS
<1>1. CASE UNCHANGED flightVars
  BY <1>1 DEF flightVars, FlightInv, TimesInv
<1>2. CASE FlightNext
  <2>0. PICK n \in 1..MaxBatch :
          \E b \in [1..n -> FlightRecords] : InOrder(log \o b) /\ LogBatch(b)
    BY <1>2 DEF FlightNext
  <2>1. PICK cut \in [1..n -> FlightRecords] : InOrder(log \o cut) /\ LogBatch(cut)
    BY <2>0
  <2>2. n \in Nat /\ n >= 1 /\ cut \in Seq(FlightRecords) /\ Len(cut) = n /\ DOMAIN cut = 1..n
    BY FlightAssumption
  <2>3. /\ LoggerIs(logger, log) /\ TimesInv /\ log \in Seq(FlightRecords) /\ Len(log) \in Nat
        /\ DOMAIN log = 1..Len(log)
    BY DEF FlightInv, LoggerIs
  <2>4. /\ log' = log \o cut /\ Len(log) + Len(cut) <= MaxLog /\ timebase' = Decided(cut)
        /\ logger' = Logged(logger, cut)
    BY <2>1, Zenon DEF LogBatch, Logged
  <2>5. LoggerIs(logger', log')
    BY <2>2, <2>3, <2>4, BatchKeeps
  <2>6. /\ Len(log') = Len(log) + n /\ log' \in Seq(FlightRecords) /\ DOMAIN log' = 1..(Len(log) + n)
        /\ \A k \in 1..Len(log) : log'[k] = log[k]
        /\ \A k \in 1..n : log'[Len(log) + k] = cut[k]
    <3>1. Join(log, cut, log \o cut, FlightRecords)
      BY <2>2, <2>3, Joined
    <3> QED
      BY <2>2, <2>4, <3>1 DEF Join
  <2> DEFINE Stamp(i) == IF Decided(cut) = "index" THEN Len(log) + i - 1 ELSE cut[i].time
  <2>7. stamped' = stamped \o [i \in 1..n |-> Stamp(i)]
    BY <2>1, <2>2 DEF LogBatch
  <2>8. \A i \in 1..n : Stamp(i) \in Int
    BY <2>2, <2>3, RecordIs
  <2> HIDE DEF Stamp
  <2>9. PICK times \in Seq(Int) :
          /\ Len(times) = n /\ stamped' = stamped \o times
          /\ \A i \in 1..n : times[i] = Stamp(i)
    <3>1. /\ [i \in 1..n |-> Stamp(i)] \in Seq(Int) /\ Len([i \in 1..n |-> Stamp(i)]) = n
          /\ \A j \in 1..n : [i \in 1..n |-> Stamp(i)][j] = Stamp(j)
      BY <2>2, <2>8
    <3> QED
      BY <2>7, <3>1, Zenon
  <2>10. stamped \in Seq(Int) /\ Len(stamped) = Len(log)
    BY <2>3 DEF TimesInv
  <2>11. /\ stamped' \in Seq(Int) /\ Len(stamped') = Len(log) + n
         /\ \A k \in 1..Len(log) : stamped'[k] = stamped[k]
         /\ \A k \in 1..n : stamped'[Len(log) + k] = Stamp(k)
    <3>1. Join(stamped, times, stamped \o times, Int)
      BY <2>10, Joined
    <3> QED
      BY <2>9, <2>10, <3>1 DEF Join
  <2>12. Decided(cut) \in {"robot", "index"}
         /\ (timebase # "undecided" => Decided(cut) = timebase)
    BY <2>3 DEF TimesInv, Decided
  <2>13. ASSUME NEW k \in 1..(Len(log) + n)
         PROVE  k \in 1..Len(log) \/ \E i \in 1..n : k = Len(log) + i
    <3>1. k \in Int /\ n \in Int /\ Len(log) \in Int /\ k <= Len(log) + n /\ k >= 1
      BY <2>2, <2>3
    <3>2. k \notin 1..Len(log) => k - Len(log) \in 1..n /\ k = Len(log) + (k - Len(log))
      BY <3>1
    <3> QED
      BY <3>2
  <2>14. timebase' = "index" => \A k \in DOMAIN log' : stamped'[k] = k - 1
    <3> SUFFICES ASSUME timebase' = "index", NEW k \in 1..(Len(log) + n) PROVE stamped'[k] = k - 1
      BY <2>6
    <3>1. CASE k \in 1..Len(log)
      <4>1. timebase = "index"
        BY <2>3, <2>4, <2>12, <3>1 DEF TimesInv
      <4> QED
        BY <2>3, <2>11, <3>1, <4>1 DEF TimesInv
    <3>2. CASE \E i \in 1..n : k = Len(log) + i
      <4>1. PICK i \in 1..n : k = Len(log) + i
        BY <3>2
      <4>2. stamped'[k] = Len(log) + i - 1
        BY <2>4, <2>11, <4>1 DEF Stamp
      <4> QED
        BY <2>3, <4>1, <4>2
    <3> QED
      BY <2>13, <3>1, <3>2
  <2>15. timebase' = "robot" => \A k \in DOMAIN log' : stamped'[k] = log'[k].time
    <3> SUFFICES ASSUME timebase' = "robot", NEW k \in 1..(Len(log) + n)
                 PROVE  stamped'[k] = log'[k].time
      BY <2>6
    <3>1. CASE k \in 1..Len(log)
      <4>1. timebase = "robot"
        BY <2>3, <2>4, <2>12, <3>1 DEF TimesInv
      <4> QED
        BY <2>3, <2>6, <2>11, <3>1, <4>1 DEF TimesInv
    <3>2. CASE \E i \in 1..n : k = Len(log) + i
      <4>1. PICK i \in 1..n : k = Len(log) + i
        BY <3>2
      <4>2. stamped'[k] = cut[i].time
        BY <2>4, <2>11, <4>1 DEF Stamp
      <4> QED
        BY <2>6, <4>1, <4>2
    <3> QED
      BY <2>13, <3>1, <3>2
  <2>16. TimesInv'
    BY <2>1, <2>4, <2>6, <2>11, <2>12, <2>14, <2>15 DEF TimesInv
  <2> QED
    BY <2>2, <2>4, <2>5, <2>6, <2>16 DEF FlightInv
<1> QED
  BY <1>1, <1>2

LEMMA FlightShows == FlightInv => EventsMatchLog /\ TimelineForward /\ OrientationContinues
<1> SUFFICES ASSUME FlightInv PROVE EventsMatchLog /\ TimelineForward /\ OrientationContinues
  OBVIOUS
<1>1. LoggerIs(logger, log) /\ TimesInv
  BY DEF FlightInv
<1>2. log \in Seq(FlightRecords) /\ Len(log) \in Nat /\ DOMAIN log = 1..Len(log)
  BY <1>1 DEF LoggerIs
<1>3. TimelineForward
  <2>1. DOMAIN stamped = DOMAIN log
    BY <1>1, <1>2 DEF TimesInv
  <2>2. CASE timebase = "index"
    <3>1. \A k \in DOMAIN stamped : k \in Int /\ stamped[k] = k - 1
      BY <1>1, <1>2, <2>1, <2>2 DEF TimesInv
    <3> QED
      BY <3>1 DEF TimelineForward
  <2>3. CASE timebase = "robot"
    <3>1. \A k \in DOMAIN stamped : stamped[k] = log[k].time
      BY <1>1, <2>1, <2>3 DEF TimesInv
    <3> QED
      BY <1>1, <2>1, <3>1 DEF TimelineForward, TimesInv, InOrder
  <2>4. CASE timebase = "undecided"
    <3>1. DOMAIN stamped = {}
      BY <1>1, <1>2, <2>1, <2>4 DEF TimesInv
    <3> QED
      BY <3>1 DEF TimelineForward
  <2> QED
    BY <1>1, <2>2, <2>3, <2>4 DEF TimesInv
<1>4. OrientationContinues
  <2>1. Continues(logger.turns, logger.last)
    BY <1>1 DEF LoggerIs
  <2> QED
    BY <2>1, Zenon DEF Continues, OrientationContinues
<1>5. Changed("errors") = ChangesOf(log, "errors") /\ Changed("mode") = ChangesOf(log, "mode")
      /\ Edges = EdgesOf(log)
  BY DEF Changed, ChangesOf, Edges, EdgesOf
<1>6. ASSUME NEW i \in DOMAIN log
      PROVE  (log[i].contact /\ \A k \in 1..(i - 1) : ~log[k].contact)
               <=> (i \in Edges /\ \A k \in Edges : i <= k)
  <2>1. i \in 1..Len(log) /\ i \in Nat /\ (i # 1 => i - 1 \in 1..(i - 1))
    BY <1>2
  <2>2. ASSUME log[i].contact, \A k \in 1..(i - 1) : ~log[k].contact
        PROVE  i \in Edges /\ \A k \in Edges : i <= k
    <3>1. i \in Edges
      BY <2>1, <2>2 DEF Edges
    <3>2. ASSUME NEW k \in Edges PROVE i <= k
      <4>1. k \in 1..Len(log) /\ log[k].contact
        BY <1>2 DEF Edges
      <4>2. k < i => k \in 1..(i - 1)
        BY <1>2, <2>1, <4>1
      <4> QED
        BY <1>2, <2>1, <2>2, <4>1, <4>2
    <3> QED
      BY <3>1, <3>2
  <2>3. ASSUME i \in Edges, \A k \in Edges : i <= k
        PROVE  log[i].contact /\ \A k \in 1..(i - 1) : ~log[k].contact
    <3>1. log[i].contact
      BY <2>3 DEF Edges
    <3> SUFFICES ASSUME ~(\A k \in 1..(i - 1) : ~log[k].contact) PROVE FALSE
      BY <3>1
    <3> DEFINE D == {k \in 1..(i - 1) : log[k].contact}
    <3>2. D \subseteq Nat /\ D # {}
      OBVIOUS
    <3>3. PICK k \in D : \A j \in D : k <= j
      <4> HIDE DEF D
      <4> QED
        BY <3>2, LeastExists
    <3>4. k \in 1..Len(log) /\ log[k].contact /\ k < i /\ k \in Int /\ k <= i - 1
      BY <1>2, <2>1
    <3>5. k # 1 => ~log[k - 1].contact
      <4> SUFFICES ASSUME k # 1, log[k - 1].contact PROVE FALSE
        BY <3>4
      <4>1. k - 1 \in 1..(i - 1) /\ ~(k <= k - 1)
        BY <2>1, <3>4
      <4>2. k - 1 \in D
        BY <4>1
      <4> QED
        BY <3>3, <4>1, <4>2
    <3>6. k \in Edges
      BY <1>2, <3>4, <3>5 DEF Edges
    <3> QED
      BY <2>1, <2>3, <3>4, <3>6
  <2> QED
    BY <2>2, <2>3
<1>7. logger.events = AtStart \cup (Changed("errors") \X {"errors"})
                       \cup (Changed("mode") \X {"mode"})
                       \cup ({i \in Edges : \A k \in Edges : i <= k} \X {"contact"})
  <2> DEFINE told == AtStart \cup (Changed("errors") \X {"errors"})
                       \cup (Changed("mode") \X {"mode"})
                       \cup ({i \in Edges : \A k \in Edges : i <= k} \X {"contact"})
  <2>1. ASSUME NEW i \in DOMAIN log, NEW e \in Happenings
        PROVE  Tells(log, i, e) <=> <<i, e>> \in told
    <3>1. i \in 1..Len(log) /\ (i # 1 <=> i \in 2..Len(log)) /\ i \in Int
      BY <1>2
    <3>2. <<i, e>> \in AtStart <=> i = 1 /\ (e = "start" \/ (e = "errors" /\ log[1].errors))
      BY <3>1 DEF AtStart
    <3>3. \A f : i \in Changed(f) <=> i # 1 /\ log[i][f] # log[i - 1][f]
      BY <3>1 DEF Changed
    <3>4. CASE e = "start"
      BY <3>2, <3>4 DEF Tells
    <3>5. CASE e = "errors"
      <4>1. i # 1 => i - 1 \in DOMAIN log
        BY <1>2, <3>1
      <4>2. log[i]["errors"] = log[i].errors /\ (i # 1 => log[i - 1]["errors"] = log[i - 1].errors)
        OBVIOUS
      <4> QED
        BY <3>2, <3>3, <3>5, <4>2 DEF Tells
    <3>6. CASE e = "mode"
      <4>2. log[i]["mode"] = log[i].mode /\ (i # 1 => log[i - 1]["mode"] = log[i - 1].mode)
        OBVIOUS
      <4> QED
        BY <3>2, <3>3, <3>6, <4>2 DEF Tells
    <3>7. CASE e = "contact"
      BY <1>6, <3>2, <3>7 DEF Tells
    <3> QED
      BY <3>4, <3>5, <3>6, <3>7 DEF Happenings
  <2>2. told \subseteq (DOMAIN log) \X Happenings
    <3>1. Changed("errors") \subseteq DOMAIN log /\ Changed("mode") \subseteq DOMAIN log
          /\ Edges \subseteq DOMAIN log
      BY <1>2 DEF Changed, Edges
    <3>2. AtStart \subseteq (DOMAIN log) \X Happenings
      BY DEF AtStart, Happenings
    <3> QED
      BY <3>1, <3>2 DEF Happenings
  <2>3. logger.events = {p \in (DOMAIN log) \X Happenings : Tells(log, p[1], p[2])}
    BY <1>1 DEF LoggerIs, ToldOf
  <2> HIDE DEF told
  <2>4. ASSUME NEW p PROVE p \in logger.events <=> p \in told
    <3>1. CASE p \in (DOMAIN log) \X Happenings
      <4>1. p = <<p[1], p[2]>> /\ p[1] \in DOMAIN log /\ p[2] \in Happenings
        BY <3>1
      <4>2. Tells(log, p[1], p[2]) <=> p \in told
        BY <2>1, <4>1
      <4> QED
        BY <2>3, <3>1, <4>2
    <3>2. CASE p \notin (DOMAIN log) \X Happenings
      BY <2>2, <2>3, <3>2
    <3> QED
      BY <3>1, <3>2
  <2> QED
    BY <2>4 DEF told
<1>8. /\ logger.errorChanges = Cardinality(Changed("errors"))
      /\ logger.modeChanges = Cardinality(Changed("mode"))
      /\ logger.contacts = Cardinality(Edges)
      /\ logger.drawn = {i \in DOMAIN log : (i - 1) % Every = 0}
  BY <1>1, <1>5 DEF LoggerIs
<1>9. EventsMatchLog
  BY <1>7, <1>8, Zenon DEF EventsMatchLog
<1> QED
  BY <1>3, <1>4, <1>9

(* Whatever the channel's capacity, and however the loop's pushes, the recorder's drains and      *)
(* writes and the arm thread's close fall together: a recording that closed has in its file every *)
(* record that was pushed and not counted as lost, once and in order. And however its thread cuts *)
(* it into batches, what the flight logger tells of a log is what a reader of the whole would     *)
(* tell, on a timeline that does not go back and with orientations that do not jump.              *)
THEOREM RecordsAreAccounted == NodeSpec => []RecordingSafety
<1> DEFINE PartInv == (part = "recording" => RecordingInv) /\ (part = "flight" => FlightInv)
<1>1. NodeInit => PartInv
  BY RecordingInitially, FlightBegins DEF NodeInit
<1>2. PartInv /\ [NodeNext]_nodeVars => PartInv'
  <2>1. ASSUME PartInv, [NodeNext]_nodeVars, part' = "recording" PROVE RecordingInv'
    <3>1. part = "recording" /\ [RecordingNext]_recordingVars
      BY <2>1 DEF NodeNext, nodeVars
    <3> QED
      BY <2>1, <3>1, RecordingStep
  <2>2. ASSUME PartInv, [NodeNext]_nodeVars, part' = "flight" PROVE FlightInv'
    <3>1. part = "flight" /\ [FlightNext]_flightVars
      BY <2>2 DEF NodeNext, nodeVars
    <3> QED
      BY <2>2, <3>1, FlightSteps
  <2> QED
    BY <2>1, <2>2
<1>3. PartInv => RecordingSafety
  BY RecordingShows, FlightShows DEF RecordingSafety
<1> QED
  BY <1>1, <1>2, <1>3, PTL DEF NodeSpec

-----------------------------------------------------------------------------
(* What a step may never take back. *)

\* A sequence is a prefix of itself and of what continues it.
LEMMA PrefixOfLonger ==
    ASSUME NEW q \in Seq(Nat), NEW r \in Seq(Nat)
    PROVE  IsPrefix(q, q) /\ IsPrefix(q, q \o r)
<1>1. Len(q \o r) = Len(q) + Len(r) /\ Len(q) \in Nat /\ Len(r) \in Nat
  OBVIOUS
<1>2. Len(q) <= Len(q \o r)
  BY <1>1
<1>3. SubSeq(q, 1, Len(q)) = SubSeq(q \o r, 1, Len(q))
  <2>1. SubSeq(q, 1, Len(q)) = [i \in 1..Len(q) |-> q[i]]
    OBVIOUS
  <2>2. SubSeq(q \o r, 1, Len(q)) = [i \in 1..Len(q) |-> (q \o r)[i]]
    OBVIOUS
  <2>3. \A i \in 1..Len(q) : (q \o r)[i] = q[i]
    OBVIOUS
  <2> QED
    BY <2>1, <2>2, <2>3
<1> QED
  BY <1>1, <1>2, <1>3 DEF IsPrefix

\* A file is made under a new name, written to by its own recording, and removed unannounced.
LEMMA AnnouncedStays ==
    ASSUME RecordingInv, [RecordingNext]_recordingVars, NEW name \in Announced
    PROVE  /\ name \in DOMAIN disk'
           /\ name # episode => disk'[name] = disk[name]
           /\ IsPrefix(disk[name], disk'[name])
<1>1. name \in DOMAIN disk /\ disk[name] \in Seq(Nat) /\ RecordingType
  BY DEF RecordingInv, AnnouncedOnDisk, RecordingType
<1>2. IsPrefix(disk[name], disk[name])
  BY <1>1, PrefixOfLonger
<1>3. CASE disk' = disk
  BY <1>1, <1>2, <1>3
<1>4. CASE OpenEpisode
  <2>1. PICK stem \in Stems :
          disk' = [file \in DOMAIN disk \cup {Unique(stem)} |->
                     IF file = Unique(stem) THEN <<>> ELSE disk[file]]
    BY <1>1, <1>4 DEF OpenEpisode, Stems, RecordingType
  <2>2. Unique(stem) \notin DOMAIN disk
    BY <1>1, <1>4, UniqueIsNew DEF OpenEpisode
  <2>3. name \in DOMAIN disk' /\ disk'[name] = disk[name]
    BY <1>1, <2>1, <2>2
  <2> QED
    BY <1>2, <2>3
<1>5. CASE WriteBatch
  <2>1. DOMAIN disk' = DOMAIN disk /\ \A file \in DOMAIN disk : file # episode => disk'[file] = disk[file]
    BY <1>5 DEF WriteBatch
  <2>2. CASE name = episode
    <3>1. disk'[name] = disk[name] \o batch
      BY <1>1, <1>5, <2>2 DEF WriteBatch
    <3>2. batch \in Seq(Nat)
      BY <1>1 DEF RecordingType
    <3> QED
      BY <1>1, <2>1, <2>2, <3>1, <3>2, PrefixOfLonger
  <2> QED
    BY <1>1, <1>2, <2>1, <2>2
<1>6. CASE SessionIsOver
  <2>1. CASE discarding /\ episode # NoEpisode
    <3>1. disk' = Restrict(disk, DOMAIN disk \ {episode})
      BY <1>6, <2>1 DEF SessionIsOver
    <3>2. name # episode
      BY <2>1 DEF RecordingInv, AnnouncedOnDisk
    <3>3. name \in DOMAIN disk' /\ disk'[name] = disk[name]
      BY <1>1, <3>1, <3>2 DEF Restrict
    <3> QED
      BY <1>2, <3>3
  <2>2. CASE ~(discarding /\ episode # NoEpisode)
    <3>1. disk' = disk
      BY <1>6, <2>2 DEF SessionIsOver
    <3> QED
      BY <1>3, <3>1
  <2> QED
    BY <2>1, <2>2
<1> QED
  BY <1>3, <1>4, <1>5, <1>6 DEF RecordingNext, ArmThread, LoopThread, RecorderThread, recordingVars,
     recorderOnly, OpenFails, LoopStarts, StartFails, BeginEpisode, ReadTime, LogRow, SessionEnds,
     FinishDrops, StoreTime, Push, LoopEnds, Wake, Receive, DrainEnds, WriteFails, SecondPasses

(* For every value of the constants: no file that was announced loses a record or changes but by  *)
(* its own recording, no knob passes its threshold unless the client that set it confirmed it,    *)
(* and what a stop of the gripper dropped is not run later.                                       *)
THEOREM NothingIsTakenBack == NodeSpec => NothingTakenBack
<1> DEFINE PartInv == /\ part = "recording" => RecordingInv
                      /\ part = "params" => TuningInv
                      /\ part = "gripper" => HandInv
<1>1. NodeInit => PartInv
  BY RecordingInitially, TuningInitially, HandInitially DEF NodeInit
<1>2. PartInv /\ [NodeNext]_nodeVars => PartInv'
  <2> SUFFICES ASSUME PartInv, [NodeNext]_nodeVars PROVE PartInv'
    OBVIOUS
  <2>1. ASSUME part' = "recording" PROVE RecordingInv'
    <3>1. part = "recording" /\ [RecordingNext]_recordingVars
      BY <2>1 DEF NodeNext, nodeVars
    <3> QED
      BY <3>1, RecordingStep
  <2>2. ASSUME part' = "params" PROVE TuningInv'
    <3>1. part = "params" /\ [ParamsNext]_paramsVars
      BY <2>2 DEF NodeNext, nodeVars
    <3> QED
      BY <3>1, TuningStep
  <2>3. ASSUME part' = "gripper" PROVE HandInv'
    <3>1. part = "gripper" /\ [Next]_vars
      BY <2>3 DEF NodeNext, nodeVars
    <3> QED
      BY <3>1, HandStep
  <2> QED
    BY <2>1, <2>2, <2>3
<1>3. PartInv /\ [NodeNext]_nodeVars =>
        [\A name \in Announced :
           /\ name \in DOMAIN disk'
           /\ (name # episode => disk'[name] = disk[name])
           /\ IsPrefix(disk[name], disk'[name])]_recordingVars
  <2> SUFFICES ASSUME PartInv, [NodeNext]_nodeVars, ~UNCHANGED recordingVars, NEW name \in Announced
               PROVE  /\ name \in DOMAIN disk'
                      /\ (name # episode => disk'[name] = disk[name])
                      /\ IsPrefix(disk[name], disk'[name])
    OBVIOUS
  <2>1. part = "recording" /\ [RecordingNext]_recordingVars
    BY DEF NodeNext, nodeVars
  <2> QED
    BY <2>1, AnnouncedStays
<1>4. PartInv /\ [NodeNext]_nodeVars =>
        [setting # NoRequest /\ setting' = NoRequest =>
           \A w \in DOMAIN ConfirmAt :
             slot'.words[w] > ConfirmAt[w] /\ slot.words[w] <= ConfirmAt[w]
               => w \in setting.request.confirm]_paramsVars
  <2> SUFFICES ASSUME PartInv, [NodeNext]_nodeVars, ~UNCHANGED paramsVars,
                      setting # NoRequest, setting' = NoRequest, NEW w \in DOMAIN ConfirmAt,
                      slot'.words[w] > ConfirmAt[w], slot.words[w] <= ConfirmAt[w]
               PROVE  w \in setting.request.confirm
    OBVIOUS
  <2>1. part = "params" /\ [ParamsNext]_paramsVars
    BY DEF NodeNext, nodeVars
  <2> QED
    BY <2>1, SetsAreConfirmed
<1>5. PartInv /\ [NodeNext]_nodeVars =>
        [\A k \in {"move", "grasp"} : Dequeues(k) => k \notin dropped]_vars
  <2> SUFFICES ASSUME PartInv, [NodeNext]_nodeVars, ~UNCHANGED vars,
                      NEW k \in {"move", "grasp"}, Dequeues(k)
               PROVE  k \notin dropped
    OBVIOUS
  <2>1. part = "gripper" /\ [Next]_vars
    BY DEF NodeNext, nodeVars
  <2> QED
    BY <2>1, HandStaysStopped
<1>6. NodeSpec => AnnouncedFilesStay
  BY <1>1, <1>2, <1>3, PTL DEF NodeSpec, AnnouncedFilesStay
<1>7. NodeSpec => ConfirmedOnly
  BY <1>1, <1>2, <1>4, PTL DEF NodeSpec, ConfirmedOnly
<1>8. NodeSpec => StoppedStaysStopped
  BY <1>1, <1>2, <1>5, PTL DEF NodeSpec, StoppedStaysStopped
<1> QED
  BY <1>6, <1>7, <1>8 DEF NothingTakenBack

-----------------------------------------------------------------------------
(* The types of the parts of the node. *)

\* What the gate's type says beside GateType: the arm stays where an arm can be.
GateRest ==
    /\ kind \in {"cartesian", "joints"} /\ gate.last <= MaxTargetSeq
    /\ place \in Places /\ snapshot \in Places /\ now \in 0..MaxNow /\ sent \in [GateClients -> 0..MaxTargetSeq]

\* A session's gate starts with no target, at time zero.
LEMMA GateRestStarts == GateInit => GateRest
  BY GateAssumption DEF GateInit, GateRest

\* The gate's steps, the network's and the arm's keep it.
LEMMA GateRestStays == GateInv /\ GateRest /\ [GateNext]_gateVars => GateRest'
<1> SUFFICES ASSUME GateInv, GateRest, [GateNext]_gateVars PROVE GateRest'
  OBVIOUS
<1>1. ASSUME NEW m \in wire, Accept(m) PROVE GateRest'
  <2>1. m.seq \in 1..MaxTargetSeq
    BY DEF GateInv, GateType, Targets
  <2>2. gate'.last = m.seq
    BY <1>1 DEF Accept, GateInv, GateType
  <2> QED
    BY <1>1, <2>1, <2>2, GateAssumption DEF Accept, GateRest
<1>2. ASSUME NEW m \in wire, Refuse(m) PROVE GateRest'
  BY <1>2 DEF Refuse, GateRest, GateInv, GateType
<1>3. CASE SendTarget
  <2>1. PICK m \in Targets : m.seq = sent[m.client] + 1 /\ sent' = [sent EXCEPT ![m.client] = @ + 1]
    BY <1>3 DEF SendTarget
  <2>2. m.client \in GateClients /\ m.seq \in 1..MaxTargetSeq
    BY DEF Targets
  <2>3. sent' \in [GateClients -> 0..MaxTargetSeq]
    BY <2>1, <2>2, GateAssumption DEF GateRest
  <2> QED
    BY <1>3, <2>3 DEF SendTarget, GateRest
<1>4. CASE NetworkDrops
  BY <1>4 DEF NetworkDrops, GateRest
<1>5. CASE Follow
  <2>1. gate.previous \in Places /\ place \in Places /\ Places \subseteq Int
    BY GateAssumption DEF GateInv, GateType, GateRest
  <2>2. gate.previous..place \subseteq Places /\ place..gate.previous \subseteq Places
    BY <2>1, GateAssumption
  <2>3. place' \in (gate.previous..place) \cup (place..gate.previous)
    <3>1. gate.previous \in Int /\ place \in Int /\ place # gate.previous
      BY <1>5, <2>1 DEF Follow
    <3>2. CASE gate.previous > place
      BY <1>5, <3>1, <3>2 DEF Follow
    <3>3. CASE ~(gate.previous > place)
      BY <1>5, <3>1, <3>3 DEF Follow
    <3> QED
      BY <3>2, <3>3
  <2> QED
    BY <1>5, <2>2, <2>3 DEF Follow, GateRest
<1>6. CASE HandPushes
  BY <1>6 DEF HandPushes, GateRest
<1>7. CASE GateTick
  BY <1>7, GateAssumption DEF GateTick, GateRest
<1>8. CASE StateTick
  BY <1>8 DEF StateTick, GateRest
<1>9. CASE UNCHANGED gateVars
  BY <1>9 DEF gateVars, GateRest
<1> QED
  BY <1>1, <1>2, <1>3, <1>4, <1>5, <1>6, <1>7, <1>8, <1>9 DEF GateNext

\* The two together are the gate's types.
LEMMA GateIsTyped == GateInv /\ GateRest => GateTypeOK
<1> SUFFICES ASSUME GateInv, GateRest PROVE GateTypeOK
  OBVIOUS
<1>1. gate.last \in 0..MaxTargetSeq
  BY GateAssumption DEF GateInv, GateType, GateRest
<1> QED
  BY <1>1 DEF GateInv, GateType, GateRest, GateTypeOK

\* What the logger's invariant says of its types.
LEMMA FlightIsTyped == FlightInv => FlightTypeOK
<1> SUFFICES ASSUME FlightInv PROVE FlightTypeOK
  OBVIOUS
<1> USE DEF FlightInv, LoggerIs, TimesInv, Continues
<1>1. log \in Seq(FlightRecords) /\ Len(log) <= MaxLog /\ Len(stamped) = Len(log)
      /\ timebase \in {"undecided", "robot", "index"}
  OBVIOUS
<1>2. \A i \in DOMAIN log : log[i] \in FlightRecords
  BY <1>1
<1>3. \A i \in DOMAIN log : log[i].errors \in BOOLEAN /\ log[i].contact \in BOOLEAN
  BY <1>2, FlightAssumption
<1>4. log # <<>> => Len(log) \in DOMAIN log
  BY <1>1
<1>5. logger.errors \in BOOLEAN /\ logger.contact \in BOOLEAN
  <2>1. CASE log = <<>>
    BY <2>1
  <2>2. CASE log # <<>>
    BY <2>2, <1>3, <1>4
  <2> QED
    BY <2>1, <2>2
<1>6. logger.seen \in BOOLEAN /\ logger.shown \in BOOLEAN /\ logger.any = (log # <<>>)
  OBVIOUS
<1>7. logger.events \subseteq (DOMAIN log) \X Happenings /\ logger.drawn \subseteq DOMAIN log
  BY DEF ToldOf
<1>8. /\ logger.turns \in Seq(Orientations) /\ Len(logger.turns) = Len(log)
      /\ logger.last \in Orientations
      /\ logger.marks \in Seq({"estimate", "clear", "none"}) /\ Len(logger.marks) = Len(log)
  OBVIOUS
<1> QED
  BY <1>1, <1>5, <1>6, <1>7, <1>8 DEF FlightTypeOK

\* What the driver's type says beside HandType.
HandRest ==
    /\ grasp \in BOOLEAN /\ homer \in {"idle", "waiting"} /\ stopper \in {"idle", "dropped"}
    /\ dropper \in {"idle", "quit", "joining"} /\ stops \in 0..MaxStops
    /\ dropped \subseteq {"move", "grasp", "home"}

\* Nobody waits for a driver that starts.
LEMMA HandRestStarts == Init => HandRest
<1> SUFFICES ASSUME Init PROVE HandRest
  OBVIOUS
<1>1. stops \in 0..MaxStops
  BY StopsAssumption DEF Init
<1>2. grasp \in BOOLEAN /\ homer = "idle" /\ stopper = "idle" /\ dropper = "idle" /\ dropped = {}
  BY DEF Init
<1> QED
  BY <1>1, <1>2 DEF HandRest

\* The callers, the worker and the hand keep it.
LEMMA HandRestStays == HandRest /\ [Next]_vars => HandRest'
<1> SUFFICES ASSUME HandRest, [Next]_vars PROVE HandRest'
  OBVIOUS
<1> USE DEF HandRest, orders, threads, outside, history
<1>1. ASSUME NEW w \in Widths, Command(w) PROVE HandRest'
  BY <1>1 DEF Command
<1>2. CASE GraspCall \/ HomeCall \/ HomeTimesOut \/ StopDrops \/ DropQuits \/ DropNotifies
  BY <1>2 DEF GraspCall, HomeCall, HomeTimesOut, StopDrops, DropQuits, DropNotifies, Pending
<1>3. CASE StopSpawns
  BY <1>3, StopsAssumption DEF StopSpawns
<1>4. CASE Worker
  BY <1>4 DEF Worker, NextQuits, NextHome, NextGrasp, NextMove, NextNothing, Wait, Start, Finish
<1>5. CASE HandAnswers
  BY <1>5 DEF HandAnswers
<1>6. CASE HandStops
  BY <1>6, StopsAssumption DEF HandStops
<1>7. CASE UNCHANGED vars
  BY <1>7 DEF vars
<1> QED
  BY <1>1, <1>2, <1>3, <1>4, <1>5, <1>6, <1>7 DEF Next, Calls

\* The two together are the driver's types.
LEMMA HandIsTyped == HandInv /\ HandRest => TypeOK
  BY DEF HandInv, HandType, HandRest, TypeOK

\* What the recording's type says beside RecordingType, and what it takes: a row is read for the
\* file of the session that runs, a record is of a cycle that has begun, and what is counted lost
\* was pushed.
RecordingRest ==
    /\ session \in {"idle", "opened", "started", "running", "closing", "joining"}
    /\ token \in Tokens \cup {NoToken} /\ discarding \in BOOLEAN
    /\ stamps \in [time : Cycles, host : Cycles] /\ row \in -1..MaxCycles
    /\ rows \subseteq [file : Names, time : Cycles, host : Cycles]
    /\ row # -1 => session = "running" /\ episode # NoEpisode
    /\ loop \in {"off", "waiting", "storing"} /\ cycle \in Cycles
    /\ loop = "storing" => cycle >= 1
    /\ channel \in Seq(1..MaxCycles) /\ Len(channel) <= Capacity /\ batch \in Seq(1..MaxCycles)
    /\ sender \in BOOLEAN /\ receiver \in BOOLEAN /\ pushed \in Cycles /\ lost <= pushed
    /\ writer \in {"none", "asleep", "draining", "writing", "last", "ended", "failed"}
    /\ \A n \in DOMAIN disk : disk[n] \in Seq(1..MaxCycles)

\* Nothing is recorded before the first session.
LEMMA RecordingRestStarts == RecordingInit => RecordingRest
<1> SUFFICES ASSUME RecordingInit PROVE RecordingRest
  OBVIOUS
<1>1. MaxCycles \in Nat /\ Capacity \in Nat
  BY RecordingAssumption
<1>2. <<>> \in Seq(1..MaxCycles) /\ Len(<<>>) = 0 /\ DOMAIN <<>> = {}
  OBVIOUS
<1>3. 0 \in Cycles /\ [time |-> 0, host |-> 0] \in [time : Cycles, host : Cycles]
      /\ -1 \in -1..MaxCycles
  BY <1>1 DEF Cycles
<1>4. /\ session = "idle" /\ token = NoToken /\ discarding = FALSE /\ stamps = [time |-> 0, host |-> 0]
      /\ row = -1 /\ rows = {} /\ loop = "off" /\ cycle = 0 /\ channel = <<>> /\ batch = <<>>
      /\ sender = FALSE /\ receiver = FALSE /\ pushed = 0 /\ lost = 0 /\ writer = "none"
      /\ disk = <<>>
  BY DEF RecordingInit
<1>5. Len(channel) <= Capacity /\ lost <= pushed
  BY <1>1, <1>2, <1>4
<1> QED
  BY <1>2, <1>3, <1>4, <1>5 DEF RecordingRest

\* The arm thread's steps, but for the one that opens a file and the one that ends the session.
LEMMA ArmThreadRests ==
    ASSUME RecordingInv, RecordingRest,
           \/ OpenFails \/ LoopStarts \/ StartFails \/ BeginEpisode \/ ReadTime \/ LogRow
           \/ SessionEnds \/ FinishDrops
    PROVE  RecordingRest'
<1> USE DEF RecordingRest, loopOnly, nodeOnly, recorderOnly
<1>1. CASE OpenFails
  BY <1>1 DEF OpenFails
<1>2. CASE LoopStarts
  BY <1>2 DEF LoopStarts
<1>3. CASE StartFails
  BY <1>3 DEF StartFails
<1>4. CASE BeginEpisode
  BY <1>4 DEF BeginEpisode
<1>5. CASE ReadTime
  BY <1>5 DEF ReadTime, Cycles
<1>6. CASE LogRow
  <2>1. episode \in Names
    BY <1>6 DEF LogRow, RecordingInv, RecordingType
  <2>2. row \in Cycles /\ stamps.host \in Cycles
    BY <1>6 DEF LogRow, Cycles
  <2>3. rows' \subseteq [file : Names, time : Cycles, host : Cycles]
    BY <1>6, <2>1, <2>2 DEF LogRow
  <2>4. row' = -1 /\ -1 \in -1..MaxCycles
    BY <1>6, RecordingAssumption DEF LogRow
  <2> QED
    BY <1>6, <2>3, <2>4 DEF LogRow
<1>7. CASE SessionEnds
  BY <1>7 DEF SessionEnds
<1>8. CASE FinishDrops
  BY <1>8 DEF FinishDrops
<1> QED
  BY <1>1, <1>2, <1>3, <1>4, <1>5, <1>6, <1>7, <1>8

\* A session that opens its file, and one that is over.
LEMMA SessionRests ==
    ASSUME RecordingInv, RecordingRest, OpenEpisode \/ SessionIsOver
    PROVE  RecordingRest'
<1>0. <<>> \in Seq(1..MaxCycles) /\ Len(<<>>) = 0 /\ MaxCycles \in Nat /\ Capacity \in Nat
  BY RecordingAssumption
<1>1. CASE OpenEpisode
  <2>1. PICK t \in Tokens \cup {NoToken} :
          token' = t /\ \E name : disk' = [file \in DOMAIN disk \cup {name} |->
                                             IF file = name THEN <<>> ELSE disk[file]]
    BY <1>1 DEF OpenEpisode
  <2>2. \A n \in DOMAIN disk' : disk'[n] \in Seq(1..MaxCycles)
    BY <1>0, <2>1 DEF RecordingRest
  <2>3. row = -1
    BY <1>1 DEF OpenEpisode, RecordingRest
  <2> QED
    BY <1>1, <2>1, <2>2, <2>3 DEF OpenEpisode, RecordingRest, loopOnly
<1>2. CASE SessionIsOver
  <2>1. loop = "off" /\ row = -1
    BY <1>2 DEF SessionIsOver, RecordingRest, RecordingInv, PhaseOfRecording
  <2>2. \A n \in DOMAIN disk' : disk'[n] \in Seq(1..MaxCycles)
    BY <1>2 DEF SessionIsOver, RecordingRest, Restrict
  <2>3. 0 \in Cycles /\ [time |-> 0, host |-> 0] \in [time : Cycles, host : Cycles]
    BY <1>0 DEF Cycles
  <2> QED
    <3>1. /\ session' = "idle" /\ discarding' = FALSE /\ token' = NoToken
          /\ stamps' = [time |-> 0, host |-> 0] /\ cycle' = 0 /\ pushed' = 0 /\ lost' = 0
          /\ channel' = <<>> /\ sender' = FALSE /\ receiver' = FALSE /\ writer' = "none"
          /\ batch' = <<>> /\ row' = row /\ rows' = rows /\ loop' = loop
      BY <1>2 DEF SessionIsOver
    <3>2. Len(channel') <= Capacity /\ lost' <= pushed' /\ channel' \in Seq(1..MaxCycles)
      BY <1>0, <3>1
    <3> QED
      BY <1>0, <2>1, <2>2, <2>3, <3>1, <3>2 DEF RecordingRest
<1> QED
  BY <1>1, <1>2

\* The loop's record of a cycle goes into the channel, or is lost.
LEMMA LoopRests ==
    ASSUME RecordingInv, RecordingRest, LoopThread
    PROVE  RecordingRest'
<1>0. MaxCycles \in Nat /\ Capacity \in Nat /\ cycle \in Cycles /\ cycle \in Int
  BY RecordingAssumption DEF RecordingRest, Cycles
<1>1. CASE StoreTime
  <2>1. cycle' \in Cycles /\ cycle' >= 1 /\ cycle + 1 \in Cycles
    BY <1>0, <1>1 DEF StoreTime, Cycles
  <2>2. stamps' \in [time : Cycles, host : Cycles]
    BY <1>1, <2>1 DEF StoreTime, RecordingRest
  <2> QED
    BY <1>1, <2>1, <2>2 DEF StoreTime, RecordingRest, nodeOnly, recorderOnly
<1>2. CASE Push
  <2>1. CASE episode = NoEpisode
    BY <1>2, <2>1 DEF Push, RecordingRest, nodeOnly
  <2>2. CASE episode # NoEpisode
    <3>1. cycle \in 1..MaxCycles /\ pushed = cycle - 1
      BY <1>0, <1>2, <2>2 DEF Push, RecordingRest, RecordingInv, AllAccounted, Cycles
    <3>2. stamps' \in [time : Cycles, host : Cycles]
      BY <1>0, <1>2, <2>2 DEF Push, RecordingRest
    <3>3. pushed' \in Cycles /\ lost \in Nat /\ lost <= pushed /\ pushed' = pushed + 1 /\ pushed \in Nat
      BY <1>0, <1>2, <2>2, <3>1 DEF Push, RecordingRest, RecordingInv, RecordingType, Cycles
    <3>4. lost' <= pushed'
      BY <1>2, <2>2, <3>3 DEF Push
    <3>5. channel' \in Seq(1..MaxCycles) /\ Len(channel') <= Capacity
      <4>1. channel \in Seq(1..MaxCycles) /\ Len(channel) <= Capacity /\ Len(channel) \in Nat
        BY DEF RecordingRest
      <4>2. Append(channel, cycle) \in Seq(1..MaxCycles) /\ Len(Append(channel, cycle)) = Len(channel) + 1
        BY <3>1, <4>1
      <4>3. CASE receiver /\ Len(channel) < Capacity
        BY <1>0, <1>2, <2>2, <4>1, <4>2, <4>3 DEF Push
      <4>4. CASE ~(receiver /\ Len(channel) < Capacity)
        BY <1>2, <2>2, <4>1, <4>4 DEF Push
      <4> QED
        BY <4>3, <4>4
    <3> QED
      BY <1>2, <2>2, <3>2, <3>3, <3>4, <3>5 DEF Push, RecordingRest, nodeOnly
  <2> QED
    BY <2>1, <2>2
<1>3. CASE LoopEnds
  BY <1>3 DEF LoopEnds, RecordingRest, nodeOnly, recorderOnly
<1> QED
  BY <1>1, <1>2, <1>3 DEF LoopThread

\* The first of a queue, and the rest of it.
LEMMA QueueShrinks ==
    ASSUME NEW S, NEW q \in Seq(S), q # <<>>
    PROVE  Head(q) \in S /\ Tail(q) \in Seq(S) /\ Len(Tail(q)) = Len(q) - 1 /\ Len(q) \in Nat
  OBVIOUS

\* The recorder's thread moves records along.
LEMMA RecorderRests ==
    ASSUME RecordingInv, RecordingRest, RecorderThread
    PROVE  RecordingRest'
<1> USE DEF nodeOnly, loopOnly
<1>0. /\ channel \in Seq(1..MaxCycles) /\ batch \in Seq(1..MaxCycles) /\ Len(channel) <= Capacity
      /\ <<>> \in Seq(1..MaxCycles) /\ Len(<<>>) = 0 /\ Capacity \in Nat
  BY RecordingAssumption DEF RecordingRest
<1>1. CASE Wake
  BY <1>1 DEF Wake, RecordingRest
<1>2. CASE Receive
  <2>1. /\ Head(channel) \in 1..MaxCycles /\ Tail(channel) \in Seq(1..MaxCycles)
        /\ Len(Tail(channel)) = Len(channel) - 1 /\ Len(channel) \in Nat
    <3>1. channel # <<>>
      BY <1>2 DEF Receive
    <3> QED
      BY <1>0, <3>1, QueueShrinks
  <2>2. Append(batch, Head(channel)) \in Seq(1..MaxCycles)
    BY <1>0, <2>1
  <2>3. batch' = Append(batch, Head(channel)) /\ channel' = Tail(channel)
    BY <1>2 DEF Receive
  <2>4. Len(channel') <= Capacity
    BY <1>0, <2>1, <2>3
  <2> QED
    BY <1>2, <2>1, <2>2, <2>3, <2>4 DEF Receive, RecordingRest
<1>3. CASE DrainEnds
  BY <1>3 DEF DrainEnds, RecordingRest
<1>4. CASE WriteBatch
  <2>1. \A n \in DOMAIN disk' : disk'[n] \in Seq(1..MaxCycles)
    <3>1. \A n \in DOMAIN disk : disk[n] \in Seq(1..MaxCycles)
      BY DEF RecordingRest
    <3>2. \A n \in DOMAIN disk : disk[n] \o batch \in Seq(1..MaxCycles)
      BY <1>0, <3>1
    <3> QED
      BY <1>4, <3>1, <3>2 DEF WriteBatch
  <2> QED
    BY <1>0, <1>4, <2>1 DEF WriteBatch, RecordingRest
<1>5. CASE WriteFails
  <2>1. channel' = <<>> /\ batch' = <<>> /\ Len(channel') <= Capacity
    BY <1>0, <1>5 DEF WriteFails
  <2>2. writer' = "failed" /\ receiver' = FALSE
    BY <1>5 DEF WriteFails
  <2> QED
    BY <1>0, <1>5, <2>1, <2>2 DEF WriteFails, RecordingRest
<1> QED
  BY <1>1, <1>2, <1>3, <1>4, <1>5 DEF RecorderThread

\* All steps of a recording keep it.
LEMMA RecordingRestStays == RecordingInv /\ RecordingRest /\ [RecordingNext]_recordingVars => RecordingRest'
<1> SUFFICES ASSUME RecordingInv, RecordingRest, [RecordingNext]_recordingVars PROVE RecordingRest'
  OBVIOUS
<1>1. CASE SecondPasses
  BY <1>1 DEF SecondPasses, RecordingRest, nodeOnly, loopOnly, recorderOnly
<1>2. CASE UNCHANGED recordingVars
  BY <1>2 DEF recordingVars, RecordingRest
<1> QED
  BY <1>1, <1>2, ArmThreadRests, SessionRests, LoopRests, RecorderRests DEF RecordingNext, ArmThread

\* The two together are the recording's types.
LEMMA RecordingIsTyped == RecordingInv /\ RecordingRest => RecordingTypeOK
<1> SUFFICES ASSUME RecordingInv, RecordingRest PROVE RecordingTypeOK
  OBVIOUS
<1>1. lost \in 0..pushed
  BY DEF RecordingInv, RecordingType, RecordingRest, Cycles
<1> QED
  BY <1>1 DEF RecordingInv, RecordingType, RecordingRest, RecordingTypeOK

\* What is declared of an arm are entities of its, and not all of them before the last is declared.
LifeRest ==
    /\ \A a \in ArmsOfNode : served[a] \subseteq Range(Entities) /\ IsFiniteSet(served[a])
    /\ main.at = "declare" => Cardinality(served[main.arm]) < Len(Entities)

\* Nothing is declared at first.
LEMMA LifeRestStarts == LifeInit => LifeRest
  BY FS_EmptySet DEF LifeInit, LifeRest

\* Declarations come one at a time, for an arm that had none.
LEMMA LifeRestStays == LifeInv /\ LifeRest /\ [LifeNext]_lifeVars => LifeRest'
<1> SUFFICES ASSUME LifeInv, LifeRest, [LifeNext]_lifeVars PROVE LifeRest'
  OBVIOUS
<1>0. /\ main \in [at : MainPlaces, arm : Nat] /\ DOMAIN served = ArmsOfNode
      /\ arms \in [ArmsOfNode -> ArmPlaces] /\ tearing \in Seq(ArmsOfNode)
  BY DEF LifeInv, LifeType
<1>1. ASSUME served' = served, main' = main PROVE LifeRest'
  BY <1>1 DEF LifeRest
<1>2. ASSUME served' = served, main'.at # "declare" PROVE LifeRest'
  BY <1>2 DEF LifeRest
<1>3. CASE SpawnArm
  <2>1. main.at = "spawn" /\ main'.arm = main.arm /\ main.arm \in ArmsOfNode /\ served' = served
    BY <1>0, <1>3 DEF SpawnArm, LifeInv, SpawnedSoFar
  <2>2. arms[main.arm] = "none"
    <3>1. ~(main.arm < main.arm)
      BY <1>0
    <3> QED
      BY <2>1, <3>1 DEF LifeInv, SpawnedSoFar
  <2>3. served[main.arm] = {}
    BY <2>1, <2>2 DEF LifeInv, ServedByThreads
  <2>4. Cardinality(served'[main'.arm]) = 0 /\ Len(Entities) = 5
    BY <2>1, <2>3, FS_EmptySet DEF Entities
  <2> QED
    BY <2>1, <2>4 DEF LifeRest
<1>4. CASE Declare
  <2> DEFINE a == main.arm
             n == Cardinality(served[a])
             e == Entities[n + 1]
  <2>1. main.at = "declare" /\ a \in ArmsOfNode /\ Len(Entities) = 5
    BY <1>4 DEF Declare, LifeInv, SpawnedSoFar, Entities
  <2>2. IsFiniteSet(served[a]) /\ n \in Nat /\ n < 5 /\ served[a] \subseteq Range(Entities)
    BY <2>1, FS_CardinalityType DEF LifeRest
  <2>3. n + 1 \in DOMAIN Entities
    BY <2>2 DEF Entities
  <2>4. e \in Range(Entities)
    BY <2>3 DEF Range
  <2>5. served' = [served EXCEPT ![a] = @ \cup {e}]
    BY <1>4 DEF Declare, Declared
  <2>6. served'[a] = served[a] \cup {e} /\ \A b \in ArmsOfNode : b # a => served'[b] = served[b]
    BY <1>0, <2>1, <2>5
  <2>7. /\ IsFiniteSet(served'[a]) /\ Cardinality(served'[a]) \in {n, n + 1}
    <3> HIDE DEF e
    <3> QED
      BY <2>2, <2>6, FS_AddElement
  <2>8. \A b \in ArmsOfNode : served'[b] \subseteq Range(Entities) /\ IsFiniteSet(served'[b])
    <3> HIDE DEF e
    <3>1. served'[a] \subseteq Range(Entities)
      BY <2>2, <2>4, <2>6
    <3>2. ASSUME NEW b \in ArmsOfNode, b # a
          PROVE  served'[b] \subseteq Range(Entities) /\ IsFiniteSet(served'[b])
      BY <2>6, <3>2 DEF LifeRest
    <3> QED
      BY <2>7, <3>1, <3>2
  <2>9. main'.at = "declare" => main' = main /\ n + 1 < 5
    <3>1. main' = IF n + 1 < 5 THEN main ELSE AfterArm
      BY <1>4, <2>1 DEF Declare, Declared
    <3>2. AfterArm.at # "declare"
      BY <1>0 DEF AfterArm
    <3> QED
      BY <3>1, <3>2
  <2>10. main'.at = "declare" => Cardinality(served'[main'.arm]) < Len(Entities)
    BY <2>1, <2>2, <2>7, <2>9
  <2> QED
    BY <2>8, <2>10 DEF LifeRest
<1>5. CASE Undeclare
  <2>1. main' = main /\ main.at = "unwind"
    BY <1>5 DEF Undeclare
  <2>2. PICK b, x : served' = [served EXCEPT ![b] = @ \ {x}]
    BY <1>5 DEF Undeclare
  <2>3. \A c \in ArmsOfNode : served'[c] \subseteq served[c]
    BY <1>0, <2>2
  <2>4. \A c \in ArmsOfNode : served'[c] \subseteq Range(Entities) /\ IsFiniteSet(served'[c])
    BY <2>3, FS_Subset DEF LifeRest
  <2> QED
    BY <2>1, <2>4 DEF LifeRest
<1>6. CASE OpenNodeSession \/ ConnectRobot \/ BuildGripper \/ StartStatus \/ SetHandler \/ NodeFails
             \/ CloseNodeSession
  <2>1. served' = served /\ main'.at # "declare"
    BY <1>0, <1>6 DEF OpenNodeSession, ConnectRobot, BuildGripper, StartStatus, SetHandler, NodeFails,
       CloseNodeSession
  <2> QED
    BY <1>2, <2>1
<1>7. CASE EndStatus \/ SendShutdown \/ JoinArm \/ PublishStatus
  BY <1>1, <1>7 DEF EndStatus, SendShutdown, JoinArm, PublishStatus
<1>8. CASE SignalComes
  <2>1. served' = served /\ (main' = main \/ main'.at # "declare")
    BY <1>0, <1>8 DEF SignalComes
  <2> QED
    BY <1>1, <1>2, <2>1
<1>9. ASSUME NEW c \in NodeCalls, SendCall(c) PROVE LifeRest'
  BY <1>1, <1>9 DEF SendCall
<1>10. ASSUME NEW c \in NodeCalls, NEW a \in ArmsOfNode, Ask(c, a) PROVE LifeRest'
  BY <1>1, <1>10 DEF Ask
<1>11. ASSUME NEW a \in ArmsOfNode, ArmSteps(a) \/ SessionFaults(a) PROVE LifeRest'
  BY <1>1, <1>11 DEF ArmSteps, HandleCall, HandleShutdown, ArmStops, DrainCall, LastLook, ArmEnds,
     SessionFaults
<1>12. CASE UNCHANGED lifeVars
  BY <1>1, <1>12 DEF lifeVars
<1> QED
  BY <1>3, <1>4, <1>5, <1>6, <1>7, <1>8, <1>9, <1>10, <1>11, <1>12 DEF LifeNext, MainThread, ArmRuns

\* The two together are the life's types.
LEMMA LifeIsTyped == LifeInv /\ LifeRest => LifeTypeOK
<1> SUFFICES ASSUME LifeInv, LifeRest PROVE LifeTypeOK
  OBVIOUS
<1>1. main.at \in MainPlaces /\ status.thread \in {"none", "runs", "ended"}
  BY DEF LifeInv, LifeType
<1>2. ASSUME NEW a \in ArmsOfNode
      PROVE  /\ served[a] \subseteq Range(Entities) /\ arms[a] \in ArmPlaces
             /\ loops[a].begun - loops[a].ended = (IF loops[a].runs THEN 1 ELSE 0)
  <2>1. loops[a].begun \in Nat /\ loops[a].ended \in Nat
        /\ loops[a].begun = loops[a].ended + (IF loops[a].runs THEN 1 ELSE 0)
    BY DEF LifeInv, EpisodesMatch
  <2>2. loops[a].begun - loops[a].ended = (IF loops[a].runs THEN 1 ELSE 0)
    BY <2>1
  <2> QED
    BY <2>2 DEF LifeRest, LifeInv, LifeType
<1> QED
  BY <1>1, <1>2 DEF LifeTypeOK, MainPlaces, ArmPlaces

\* Of two numbers Max is one, and no smaller than either.
LEMMA MaxOfTwo ==
    ASSUME NEW a \in Int, NEW b \in Int
    PROVE  Max({a, b}) \in {a, b} /\ Max({a, b}) >= a /\ Max({a, b}) >= b
<1>1. \E x \in {a, b} : \A y \in {a, b} : x >= y
  <2>1. CASE a >= b
    BY <2>1
  <2>2. CASE b >= a
    BY <2>2
  <2> QED
    BY <2>1, <2>2
<1> QED
  BY <1>1 DEF Max

\* The words stay between the table's bounds, or the config's own value where that is outside.
Low(w) == Min({Least[w], config[w]})
High(w) == Max({Bound[w], config[w]})
Bounded(v) == \A w \in Tunables : Low(w) <= v[w] /\ v[w] <= High(w)

\* Those bounds are numbers, around the table's and the config's.
LEMMA BoundsOfWords ==
    ASSUME config \in Tunings, NEW w \in Tunables
    PROVE  /\ Low(w) \in Nat /\ High(w) \in Nat /\ Least[w] \in Nat /\ Bound[w] \in Nat
           /\ Low(w) <= Least[w] /\ Least[w] <= Bound[w] /\ Bound[w] <= High(w)
           /\ Low(w) <= config[w] /\ config[w] <= High(w)
<1>1. Least[w] \in Nat /\ Bound[w] \in Nat /\ config[w] \in Nat /\ Least[w] <= Bound[w]
  BY TuningAssumption DEF Tunings
<1>2. /\ Low(w) \in {Least[w], config[w]} /\ Low(w) <= Least[w] /\ Low(w) <= config[w]
  <2> DEFINE a == Least[w]
             b == config[w]
  <2>1. a \in Int /\ b \in Int /\ Low(w) = Min({a, b})
    BY <1>1 DEF Low
  <2> HIDE DEF a, b
  <2>2. Low(w) \in {a, b} /\ Low(w) <= a /\ Low(w) <= b
    BY <2>1, MinOfTwo
  <2> QED
    BY <2>2 DEF a, b
<1>3. /\ High(w) \in {Bound[w], config[w]} /\ High(w) >= Bound[w] /\ High(w) >= config[w]
  <2> DEFINE a == Bound[w]
             b == config[w]
  <2>1. a \in Int /\ b \in Int /\ High(w) = Max({a, b})
    BY <1>1 DEF High
  <2> HIDE DEF a, b
  <2>2. High(w) \in {a, b} /\ High(w) >= a /\ High(w) >= b
    BY <2>1, MaxOfTwo
  <2> QED
    BY <2>2 DEF a, b
<1> QED
  BY <1>1, <1>2, <1>3

\* A set leaves the words within the bounds.
LEMMA AppliedStays ==
    ASSUME config \in Tunings, NEW words \in Tunings, Bounded(words), NEW u \in Updates
    PROVE  Bounded(Applied(words, u))
<1> DEFINE over == [w \in Tunables |-> IF w \in DOMAIN u THEN u[w] ELSE words[w]]
           spring == IF "spring" \in DOMAIN u THEN Clamp(u["spring"], Least["spring"], Bound["spring"])
                     ELSE words["spring"]
           floor == Floor[Clamp(spring, Least["spring"], Bound["spring"])]
           high == IF "damping" \in DOMAIN u THEN Bound["damping"] ELSE over["damping"] + floor
           after == Applied(words, u)
<1>1. /\ "spring" \in Tunables /\ "damping" \in Tunables
      /\ \A w \in Tunables : words[w] \in Nat
      /\ DOMAIN u \subseteq Tunables /\ \A w \in DOMAIN u : u[w] \in Nat
  BY TuningAssumption DEF Tunings
<1>2. over \in Tunings
  BY <1>1 DEF Tunings
<1>3. ASSUME NEW w \in Tunables, NEW x \in Nat
      PROVE  Low(w) <= Clamp(x, Least[w], Bound[w]) /\ Clamp(x, Least[w], Bound[w]) <= High(w)
             /\ Clamp(x, Least[w], Bound[w]) \in Nat /\ Clamp(x, Least[w], Bound[w]) <= Bound[w]
  BY BoundsOfWords DEF Clamp
<1>4. spring \in Nat /\ Low("spring") <= spring /\ spring <= High("spring")
  <2>1. CASE "spring" \in DOMAIN u
    BY <2>1, <1>1, <1>3
  <2>2. CASE "spring" \notin DOMAIN u
    BY <2>2, <1>1 DEF Bounded
  <2> QED
    BY <2>1, <2>2
<1>5. floor \in 0..Bound["damping"]
  <2>1. Clamp(spring, Least["spring"], Bound["spring"]) \in 0..Bound["spring"]
    <3> HIDE DEF spring
    <3> QED
      BY <1>1, <1>3, <1>4
  <2> HIDE DEF spring
  <2> QED
    BY <2>1, FloorIsDamping
<1>6. after = [w \in Tunables |->
           CASE w = "spring" -> spring
             [] w = "damping" -> IF {"spring", "damping"} \cap DOMAIN u = {} THEN over[w]
                                 ELSE Clamp(over[w], floor, high)
             [] OTHER -> IF w \in DOMAIN u THEN Clamp(u[w], Least[w], Bound[w]) ELSE words[w]]
  BY DEF Applied
<1>7. after["spring"] = spring
  BY <1>1, <1>6
<1>8. after["damping"] = IF {"spring", "damping"} \cap DOMAIN u = {} THEN over["damping"]
                         ELSE Clamp(over["damping"], floor, high)
  BY <1>1, <1>6
<1>9. Low("damping") = 0 /\ Bound["damping"] <= High("damping") /\ High("damping") \in Nat
      /\ Bound["damping"] \in Nat
  BY <1>1, BoundsOfWords, WordsAssumption
<1>10. over["damping"] \in Nat
  BY <1>1, <1>2 DEF Tunings
<1>11. "damping" \notin DOMAIN u => over["damping"] = words["damping"] /\ words["damping"] <= High("damping")
  BY <1>1 DEF Bounded
<1>12. 0 <= Clamp(over["damping"], floor, high) /\ Clamp(over["damping"], floor, high) <= High("damping")
  <2> HIDE DEF floor, over
  <2>1. CASE "damping" \in DOMAIN u
    BY <2>1, <1>5, <1>9, <1>10 DEF Clamp
  <2>2. CASE "damping" \notin DOMAIN u
    BY <2>2, <1>5, <1>9, <1>10, <1>11 DEF Clamp
  <2> QED
    BY <2>1, <2>2
<1> SUFFICES ASSUME NEW w \in Tunables PROVE Low(w) <= after[w] /\ after[w] <= High(w)
  BY DEF Bounded
<1>13. CASE w = "spring"
  BY <1>4, <1>7, <1>13
<1>14. CASE w = "damping"
  <2>1. CASE {"spring", "damping"} \cap DOMAIN u = {}
    <3>1. "damping" \notin DOMAIN u
      BY <2>1
    <3>2. after["damping"] = over["damping"]
      BY <1>8, <2>1
    <3> QED
      BY <1>9, <1>10, <1>11, <1>14, <3>1, <3>2
  <2>2. CASE {"spring", "damping"} \cap DOMAIN u # {}
    <3>1. after["damping"] = Clamp(over["damping"], floor, high)
      BY <1>8, <2>2
    <3> HIDE DEF after, over, floor, high
    <3> QED
      BY <1>9, <1>12, <1>14, <3>1
  <2> QED
    BY <2>1, <2>2
<1>15. CASE w \notin {"spring", "damping"}
  <2>1. after[w] = IF w \in DOMAIN u THEN Clamp(u[w], Least[w], Bound[w]) ELSE words[w]
    BY <1>6, <1>15
  <2> HIDE DEF after
  <2>2. CASE w \in DOMAIN u
    BY <1>1, <1>3, <2>1, <2>2
  <2>3. CASE w \notin DOMAIN u
    BY <2>1, <2>3 DEF Bounded
  <2> QED
    BY <2>2, <2>3
<1> QED
  BY <1>13, <1>14, <1>15

\* A slewed value does not leave the way to its target.
LEMMA SlewedIsBetween ==
    ASSUME NEW x \in Nat, NEW goal \in Nat
    PROVE  /\ Slewed(x, goal) \in Nat
           /\ \/ x <= Slewed(x, goal) /\ Slewed(x, goal) <= goal
              \/ goal <= Slewed(x, goal) /\ Slewed(x, goal) <= x
<1> DEFINE next == IF x < goal THEN x + (goal - x) \div 2 ELSE x - (x - goal) \div 2
<1>0. \A d \in Nat : d \div 2 \in Nat /\ d \div 2 <= d
  OBVIOUS
<1>1. /\ next \in Int
      /\ (x <= next /\ next <= goal) \/ (goal <= next /\ next <= x)
  <2>1. CASE x < goal
    <3>1. goal - x \in Nat /\ (goal - x) \div 2 \in Nat /\ (goal - x) \div 2 <= goal - x
      BY <1>0, <2>1
    <3> QED
      BY <2>1, <3>1
  <2>2. CASE ~(x < goal)
    <3>1. x - goal \in Nat /\ (x - goal) \div 2 \in Nat /\ (x - goal) \div 2 <= x - goal
      BY <1>0, <2>2
    <3> QED
      BY <2>2, <3>1
  <2> QED
    BY <2>1, <2>2
<1>2. Slewed(x, goal) = IF next = x THEN goal ELSE next
  BY DEF Slewed
<1> HIDE DEF next
<1> QED
  BY <1>1, <1>2

\* A cycle of the crossing leaves the values in force within the bounds.
LEMMA SlewStays ==
    ASSUME config \in Tunings, NEW from \in Tunings, Bounded(from), NEW to \in Tunings, Bounded(to)
    PROVE  Slew(from, to) \in Tunings /\ Bounded(Slew(from, to))
<1> DEFINE after == Slew(from, to)
<1>0. after = [w \in Tunables |->
                 IF Gated(w) THEN Max({to[w], from[w] - from[RateWord[w]]})
                 ELSE Slewed(from[w], to[w])]
  BY DEF Slew
<1>1. ASSUME NEW w \in Tunables
      PROVE  after[w] \in Nat /\ Low(w) <= after[w] /\ after[w] <= High(w)
  <2>1. /\ from[w] \in Nat /\ to[w] \in Nat /\ Low(w) \in Nat /\ High(w) \in Nat
        /\ Low(w) <= from[w] /\ from[w] <= High(w) /\ Low(w) <= to[w] /\ to[w] <= High(w)
    BY BoundsOfWords DEF Tunings, Bounded
  <2>2. CASE Gated(w)
    <3>1. from[RateWord[w]] \in Nat
      BY <2>2, WordsAssumption DEF Tunings
    <3> DEFINE lowered == from[w] - from[RateWord[w]]
    <3>2. lowered \in Int /\ lowered <= from[w]
      BY <2>1, <3>1
    <3>3. after[w] = Max({to[w], lowered})
      BY <1>0, <2>2
    <3> HIDE DEF lowered, after
    <3>4. after[w] \in {to[w], lowered} /\ after[w] >= to[w]
      BY <2>1, <3>2, <3>3, MaxOfTwo
    <3>5. CASE after[w] = to[w]
      BY <2>1, <3>5
    <3>6. CASE after[w] = lowered
      BY <2>1, <3>2, <3>4, <3>6
    <3> QED
      BY <3>4, <3>5, <3>6
  <2>3. CASE ~Gated(w)
    <3>1. after[w] = Slewed(from[w], to[w])
      BY <1>0, <2>3
    <3> DEFINE s == Slewed(from[w], to[w])
    <3>2. /\ s \in Nat
          /\ \/ from[w] <= s /\ s <= to[w]
             \/ to[w] <= s /\ s <= from[w]
      BY <2>1, SlewedIsBetween
    <3> HIDE DEF after, s
    <3>3. ASSUME from[w] <= s, s <= to[w] PROVE Low(w) <= s /\ s <= High(w)
      BY <2>1, <3>2, <3>3
    <3>4. ASSUME to[w] <= s, s <= from[w] PROVE Low(w) <= s /\ s <= High(w)
      BY <2>1, <3>2, <3>4
    <3>5. s \in Nat /\ Low(w) <= s /\ s <= High(w)
      BY <3>2, <3>3, <3>4
    <3> QED
      BY <3>1, <3>5 DEF s
  <2> QED
    BY <2>2, <2>3
<1> QED
  BY <1>0, <1>1 DEF Tunings, Bounded

\* What the tuning's type says beside TuningType, and what it takes: the words of the slot, of the
\* loop's copy and in force stay within the bounds, and a version is a set that was asked for.
Asking == {c \in TuningClients : requests[c] # NoRequest}
InTheMiddle == IF setting # NoRequest THEN 1 ELSE 0

TunedWords ==
    /\ config \in SeedValues /\ slot.words \in Tunings /\ inForce \in Tunings /\ copied \in Tunings
    /\ Bounded(slot.words) /\ Bounded(inForce) /\ Bounded(copied)

Conversation ==
    /\ known \in [TuningClients -> Reads] /\ requests \in [TuningClients -> Asked \cup {NoRequest}]
    /\ setting \in Settings \cup {NoRequest}

Versions ==
    /\ IsFiniteSet(Asking) /\ sets \in 0..MaxSets
    /\ Cardinality(Asking) + params.version + InTheMiddle <= sets

SlotSequence ==
    /\ tuned \in BOOLEAN /\ seeds \in 0..MaxSeeds /\ slot.seq \in Nat
    /\ slot.seq % 2 = 1 <=> setting # NoRequest
    /\ crossing.at \in {"top", "loading"} /\ DOMAIN crossing = {"at", "seen", "sequence"}

ParamsRest == TunedWords /\ Conversation /\ Versions /\ SlotSequence

\* Before the first session the config's words are everywhere.
LEMMA ParamsRestStarts == ParamsInit => ParamsRest
<1> SUFFICES ASSUME ParamsInit PROVE ParamsRest
  OBVIOUS
<1>1. config \in Tunings /\ config \in SeedValues
  BY TuningAssumption DEF ParamsInit
<1>2. Bounded(config)
  BY <1>1, BoundsOfWords DEF Bounded
<1>3. TunedWords
  BY <1>1, <1>2 DEF ParamsInit, TunedWords
<1>4. [version |-> 0, seed |-> 0, words |-> config] \in Reads
  BY <1>1 DEF Reads
<1>5. Conversation
  BY <1>4 DEF ParamsInit, Conversation
<1>6. Asking = {}
  BY DEF ParamsInit, Asking
<1>7. Versions
  <2>1. InTheMiddle = 0 /\ params.version = 0 /\ sets = 0
    BY DEF ParamsInit, InTheMiddle
  <2>2. IsFiniteSet(Asking) /\ Cardinality(Asking) = 0
    BY <1>6, FS_EmptySet
  <2>3. MaxSets \in Nat
    BY TuningAssumption
  <2> QED
    BY <2>1, <2>2, <2>3 DEF Versions
<1>8. SlotSequence
  <2>1. /\ tuned = FALSE /\ seeds = 0 /\ setting = NoRequest /\ slot.seq = 0
        /\ crossing.at = "top" /\ DOMAIN crossing = {"at", "seen", "sequence"}
    BY DEF ParamsInit
  <2>2. seeds \in 0..MaxSeeds /\ slot.seq \in Nat /\ slot.seq % 2 = 0
    BY <2>1, TuningAssumption
  <2>3. ~(slot.seq % 2 = 1)
    BY <2>2
  <2>4. tuned \in BOOLEAN /\ crossing.at \in {"top", "loading"}
    BY <2>1
  <2> QED
    BY <2>1, <2>2, <2>3, <2>4, Zenon DEF SlotSequence
<1> QED
  BY <1>3, <1>5, <1>7, <1>8 DEF ParamsRest

\* The words: a session seeds them, a set changes them, a crossing takes them.
LEMMA WordsStay ==
    ASSUME TuningInv, ParamsRest, [ParamsNext]_paramsVars
    PROVE  TunedWords'
<1>0. config \in Tunings /\ TunedWords
  BY TuningAssumption DEF ParamsRest, TunedWords
<1>b. ASSUME config' = config, NEW v, Bounded(v) PROVE Bounded(v)'
  BY <1>b DEF Bounded, Low, High
<1>1. ASSUME config' = config, slot'.words = slot.words, inForce' = inForce, copied' = copied
      PROVE  TunedWords'
  BY <1>0, <1>1 DEF TunedWords, Bounded, Low, High
<1>2. ASSUME config' = config, slot'.words = config, inForce' = config, copied' = config
      PROVE  TunedWords'
  <2>1. Bounded(config)
    BY <1>0, BoundsOfWords DEF Bounded
  <2> QED
    BY <1>0, <1>2, <2>1 DEF TunedWords, Bounded, Low, High
<1>3. CASE TunedStarts \/ TunedEnds
  BY <1>2, <1>3 DEF TunedStarts, TunedEnds
<1>4. CASE AcceptSet
  <2> DEFINE after == Applied(slot.words, setting.request.update)
  <2>1. setting.request.update \in Updates
    BY <1>4 DEF AcceptSet, TuningInv, TuningType
  <2>2. after \in Tunings /\ Bounded(after)
    BY <1>0, <2>1, AppliedTunes, AppliedStays DEF TunedWords
  <2>3. slot'.words = after /\ config' = config /\ inForce' = inForce /\ copied' = copied
    BY <1>4 DEF AcceptSet, loopVars
  <2> HIDE DEF after
  <2> QED
    BY <1>0, <2>2, <2>3 DEF TunedWords, Bounded, Low, High
<1>5. CASE Cross
  <2>1. PICK to \in {slot.words, copied} : copied' = to /\ inForce' = Slew(inForce, to)
    BY <1>5 DEF Cross
  <2>2. to \in Tunings /\ Bounded(to)
    BY <1>0, <2>1 DEF TunedWords
  <2>3. Slew(inForce, to) \in Tunings /\ Bounded(Slew(inForce, to))
    BY <1>0, <2>2, SlewStays DEF TunedWords
  <2>4. config' = config /\ slot' = slot
    BY <1>5 DEF Cross
  <2> QED
    BY <1>0, <2>1, <2>2, <2>3, <2>4 DEF TunedWords, Bounded, Low, High
<1>6. ASSUME NEW c \in TuningClients, ReadParams(c) \/ AskSet(c) \/ RefuseSet(c) PROVE TunedWords'
  BY <1>1, <1>6 DEF ReadParams, AskSet, RefuseSet, loopVars
<1>7. ASSUME NEW c \in TuningClients, TuneSlot(c) PROVE TunedWords'
  <2>1. slot'.words = slot.words
    BY <1>7 DEF TuneSlot, TuningInv, TuningType
  <2> QED
    BY <1>1, <1>7, <2>1 DEF TuneSlot, loopVars
<1>8. CASE ReadSequence \/ UNCHANGED paramsVars
  BY <1>1, <1>8 DEF ReadSequence, paramsVars
<1> QED
  BY <1>3, <1>4, <1>5, <1>6, <1>7, <1>8 DEF ParamsNext

\* What a client reads, asks for and what the arm thread is in the middle of.
LEMMA ConversationStays ==
    ASSUME TuningInv, ParamsRest, [ParamsNext]_paramsVars
    PROVE  Conversation'
<1>0. config \in Tunings /\ TunedWords /\ Conversation
  BY TuningAssumption DEF ParamsRest, TunedWords
<1>1. ASSUME NEW c \in TuningClients, ReadParams(c) PROVE Conversation'
  <2> DEFINE r == [version |-> params.version, seed |-> params.seed, words |-> InEffect]
  <2>1. params.version \in Nat /\ params.seed \in Nat /\ InEffect \in Tunings
    BY <1>0 DEF TuningInv, TuningType, InEffect, TunedWords
  <2>2. r \in Reads
    BY <2>1 DEF Reads
  <2>3. known' = [known EXCEPT ![c] = r] /\ requests' = requests /\ setting' = setting
    BY <1>1 DEF ReadParams
  <2> HIDE DEF r
  <2> QED
    BY <1>0, <2>2, <2>3 DEF Conversation
<1>2. ASSUME NEW c \in TuningClients, AskSet(c) PROVE Conversation'
  <2>1. PICK u \in Updates, names \in SUBSET DOMAIN ConfirmAt :
          requests' = [requests EXCEPT ![c] = [read |-> known[c], update |-> u, confirm |-> names]]
    BY <1>2 DEF AskSet
  <2> DEFINE q == [read |-> known[c], update |-> u, confirm |-> names]
  <2>2. q \in Asked
    BY <1>0 DEF Conversation, Asked
  <2>3. known' = known /\ requests' = [requests EXCEPT ![c] = q] /\ setting' = setting
    BY <1>2, <2>1 DEF AskSet
  <2> HIDE DEF q
  <2> QED
    BY <1>0, <2>2, <2>3 DEF Conversation
<1>3. ASSUME NEW c \in TuningClients, RefuseSet(c) PROVE Conversation'
  BY <1>0, <1>3 DEF RefuseSet, Conversation
<1>4. ASSUME NEW c \in TuningClients, TuneSlot(c) PROVE Conversation'
  <2>1. requests[c] \in Asked
    BY <1>0, <1>4 DEF TuneSlot, Conversation
  <2>2. setting' = [by |-> c, request |-> requests[c]] /\ known' = known
        /\ requests' = [requests EXCEPT ![c] = NoRequest]
    BY <1>4 DEF TuneSlot
  <2>3. setting' \in Settings
    BY <2>1, <2>2 DEF Settings
  <2> QED
    BY <1>0, <2>2, <2>3 DEF Conversation
<1>5. CASE AcceptSet
  BY <1>0, <1>5 DEF AcceptSet, Conversation, clientVars
<1>6. CASE TunedStarts \/ TunedEnds \/ ReadSequence \/ Cross \/ UNCHANGED paramsVars
  BY <1>0, <1>6 DEF TunedStarts, TunedEnds, ReadSequence, Cross, paramsVars, Conversation, clientVars
<1> QED
  BY <1>1, <1>2, <1>3, <1>4, <1>5, <1>6 DEF ParamsNext

\* A set is on its way, in the middle, accepted as a version, or refused.
LEMMA VersionsStay ==
    ASSUME TuningInv, ParamsRest, [ParamsNext]_paramsVars
    PROVE  Versions'
<1>0. /\ DOMAIN requests = TuningClients /\ IsFiniteSet(Asking) /\ Cardinality(Asking) \in Nat
      /\ sets \in Nat /\ sets <= MaxSets /\ MaxSets \in Nat /\ params.version \in Nat
      /\ Cardinality(Asking) + params.version + InTheMiddle <= sets /\ InTheMiddle \in {0, 1}
      /\ NoRequest \notin Asked \cup Settings
  BY TuningAssumption, WordsAssumption, FS_CardinalityType
     DEF TuningInv, TuningType, ParamsRest, Versions, InTheMiddle
<1>1. ASSUME requests' = requests, sets' = sets, params'.version = params.version, setting' = setting
      PROVE  Versions'
  <2>1. Asking' = Asking /\ InTheMiddle' = InTheMiddle
    BY <1>1 DEF Asking, InTheMiddle
  <2> QED
    BY <1>0, <1>1, <2>1 DEF Versions
<1>2. ASSUME NEW c \in TuningClients, AskSet(c) PROVE Versions'
  <2>1. requests[c] = NoRequest /\ sets < MaxSets /\ sets' = sets + 1 /\ params' = params
        /\ setting' = setting
    BY <1>2 DEF AskSet
  <2>2. PICK q : requests' = [requests EXCEPT ![c] = q]
    BY <1>2 DEF AskSet
  <2>3. Asking' \subseteq Asking \cup {c}
    BY <1>0, <2>2 DEF Asking
  <2>4. IsFiniteSet(Asking \cup {c}) /\ Cardinality(Asking \cup {c}) \in {Cardinality(Asking), Cardinality(Asking) + 1}
    BY <1>0, FS_AddElement
  <2>5. IsFiniteSet(Asking') /\ Cardinality(Asking') <= Cardinality(Asking \cup {c})
        /\ Cardinality(Asking') \in Nat
    BY <2>3, <2>4, FS_Subset, FS_CardinalityType
  <2>6. InTheMiddle' = InTheMiddle
    BY <2>1 DEF InTheMiddle
  <2> QED
    BY <1>0, <2>1, <2>4, <2>5, <2>6 DEF Versions
<1>3. ASSUME NEW c \in TuningClients, requests[c] # NoRequest, requests' = [requests EXCEPT ![c] = NoRequest]
      PROVE  IsFiniteSet(Asking') /\ Cardinality(Asking') = Cardinality(Asking) - 1
  <2>1. Asking' = Asking \ {c} /\ c \in Asking
    BY <1>0, <1>3 DEF Asking
  <2> QED
    BY <1>0, <2>1, FS_RemoveElement
<1>4. ASSUME NEW c \in TuningClients, RefuseSet(c) PROVE Versions'
  <2>1. /\ requests[c] # NoRequest /\ requests' = [requests EXCEPT ![c] = NoRequest]
        /\ sets' = sets /\ params' = params /\ setting' = setting
    BY <1>4 DEF RefuseSet
  <2>2. InTheMiddle' = InTheMiddle
    BY <2>1 DEF InTheMiddle
  <2>3. IsFiniteSet(Asking') /\ Cardinality(Asking') = Cardinality(Asking) - 1
    BY <1>3, <2>1
  <2> QED
    BY <1>0, <2>1, <2>2, <2>3 DEF Versions
<1>5. ASSUME NEW c \in TuningClients, TuneSlot(c) PROVE Versions'
  <2>1. /\ requests[c] # NoRequest /\ requests' = [requests EXCEPT ![c] = NoRequest]
        /\ sets' = sets /\ params' = params /\ setting = NoRequest
    BY <1>5 DEF TuneSlot
  <2>2. InTheMiddle = 0 /\ InTheMiddle' \in {0, 1}
    BY <2>1 DEF InTheMiddle
  <2>3. IsFiniteSet(Asking') /\ Cardinality(Asking') = Cardinality(Asking) - 1
    BY <1>3, <2>1
  <2> QED
    BY <1>0, <2>1, <2>2, <2>3 DEF Versions
<1>6. CASE AcceptSet
  <2>1. /\ requests' = requests /\ sets' = sets /\ setting # NoRequest /\ setting' = NoRequest
        /\ params'.version = params.version + 1
    BY <1>6 DEF AcceptSet, clientVars, TuningInv, TuningType
  <2>2. InTheMiddle = 1 /\ InTheMiddle' = 0 /\ Asking' = Asking
    BY <2>1 DEF InTheMiddle, Asking
  <2> QED
    BY <1>0, <2>1, <2>2 DEF Versions
<1>7. CASE TunedStarts \/ TunedEnds
  <2>1. params'.version = params.version
    BY <1>7 DEF TunedStarts, TunedEnds, Reseeded, TuningInv, TuningType
  <2> QED
    BY <1>1, <1>7, <2>1 DEF TunedStarts, TunedEnds, clientVars
<1>8. ASSUME NEW c \in TuningClients, ReadParams(c) PROVE Versions'
  BY <1>1, <1>8 DEF ReadParams
<1>9. CASE ReadSequence \/ Cross \/ UNCHANGED paramsVars
  BY <1>1, <1>9 DEF ReadSequence, Cross, paramsVars, clientVars
<1> QED
  BY <1>2, <1>4, <1>5, <1>6, <1>7, <1>8, <1>9 DEF ParamsNext

\* The slot's sequence is odd while a set is being written.
LEMMA SequenceStays ==
    ASSUME TuningInv, ParamsRest, Conversation', [ParamsNext]_paramsVars
    PROVE  SlotSequence'
<1>0. /\ SlotSequence /\ DOMAIN slot = {"seq", "words"} /\ slot.seq \in Nat /\ seeds \in Nat
      /\ MaxSeeds \in Nat /\ NoRequest \notin Settings
  BY TuningAssumption, WordsAssumption DEF ParamsRest, SlotSequence, TuningInv, TuningType
<1>1. ASSUME NEW c \in TuningClients, TuneSlot(c) PROVE SlotSequence'
  <2>1. /\ slot'.seq = slot.seq + 1 /\ setting = NoRequest
        /\ UNCHANGED <<tuned, seeds, crossing>>
    BY <1>0, <1>1 DEF TuneSlot, loopVars
  <2>2. setting' # NoRequest
    <3>1. setting' = [by |-> c, request |-> requests[c]] /\ requests[c] \in Asked
      BY <1>1 DEF TuneSlot, ParamsRest, Conversation
    <3> QED
      BY <1>0, <3>1 DEF Settings
  <2>3. slot'.seq \in Nat /\ slot'.seq % 2 = 1
    BY <1>0, <2>1 DEF SlotSequence
  <2> QED
    BY <1>0, <2>1, <2>2, <2>3 DEF SlotSequence
<1>2. CASE AcceptSet
  <2>1. /\ slot'.seq = slot.seq + 1 /\ setting # NoRequest /\ setting' = NoRequest
        /\ UNCHANGED <<tuned, seeds, crossing>>
    BY <1>2 DEF AcceptSet, loopVars
  <2>2. slot'.seq \in Nat /\ slot'.seq % 2 # 1
    BY <1>0, <2>1 DEF SlotSequence
  <2> QED
    BY <1>0, <2>1, <2>2 DEF SlotSequence
<1>3. CASE TunedStarts \/ TunedEnds
  <2>1. /\ slot'.seq = 0 /\ setting = NoRequest /\ setting' = NoRequest /\ tuned' \in BOOLEAN
        /\ crossing' = [at |-> "top", seen |-> 0, sequence |-> 0]
    <3>1. /\ slot' = [seq |-> 0, words |-> config] /\ setting = NoRequest /\ setting' = setting
          /\ tuned' = TRUE \/ tuned' = FALSE
          /\ crossing' = [at |-> "top", seen |-> 0, sequence |-> 0]
      BY <1>3, Zenon DEF TunedStarts, TunedEnds
    <3> QED
      BY <3>1
  <2>2. seeds' \in 0..MaxSeeds
    <3>1. CASE TunedStarts
      <4>1. seeds < MaxSeeds /\ seeds' = seeds + 1
        BY <3>1 DEF TunedStarts
      <4> QED
        BY <1>0, <4>1
    <3>2. CASE TunedEnds
      <4>1. seeds' = seeds
        BY <3>2 DEF TunedEnds
      <4> QED
        BY <1>0, <4>1 DEF SlotSequence
    <3> QED
      BY <1>3, <3>1, <3>2
  <2>3. slot'.seq \in Nat /\ slot'.seq % 2 = 0
    BY <2>1
  <2>4. crossing'.at = "top" /\ DOMAIN crossing' = {"at", "seen", "sequence"}
    BY <2>1
  <2> QED
    BY <2>1, <2>2, <2>3, <2>4 DEF SlotSequence
<1>4. CASE ReadSequence \/ Cross
  <2>1. UNCHANGED <<tuned, seeds, slot, setting>>
    BY <1>4 DEF ReadSequence, Cross
  <2>2. crossing'.at \in {"top", "loading"} /\ DOMAIN crossing' = {"at", "seen", "sequence"}
    <3>1. CASE ReadSequence
      BY <1>0, <3>1 DEF ReadSequence, SlotSequence
    <3>2. CASE Cross
      <4>1. \E s : crossing' = [at |-> "top", seen |-> 0, sequence |-> s]
        BY <3>2 DEF Cross
      <4> QED
        BY <4>1
    <3> QED
      BY <1>4, <3>1, <3>2
  <2> QED
    BY <1>0, <2>1, <2>2 DEF SlotSequence
<1>5. ASSUME NEW c \in TuningClients, ReadParams(c) \/ AskSet(c) \/ RefuseSet(c) PROVE SlotSequence'
  BY <1>0, <1>5 DEF ReadParams, AskSet, RefuseSet, loopVars, SlotSequence
<1>6. CASE UNCHANGED paramsVars
  BY <1>0, <1>6 DEF paramsVars, SlotSequence
<1> QED
  BY <1>1, <1>2, <1>3, <1>4, <1>5, <1>6 DEF ParamsNext

\* All steps of the tuning keep it.
LEMMA ParamsRestStays == TuningInv /\ ParamsRest /\ [ParamsNext]_paramsVars => ParamsRest'
  BY WordsStay, ConversationStays, VersionsStay, SequenceStays DEF ParamsRest

\* The two together are the tuning's types.
LEMMA ParamsAreTyped == TuningInv /\ ParamsRest => ParamsTypeOK
<1> SUFFICES ASSUME TuningInv, ParamsRest PROVE ParamsTypeOK
  OBVIOUS
<1>1. params.version \in 0..MaxSets
  <2>1. /\ Cardinality(Asking) \in Nat /\ InTheMiddle \in Nat /\ params.version \in Nat /\ MaxSets \in Nat
        /\ sets \in 0..MaxSets /\ Cardinality(Asking) + params.version + InTheMiddle <= sets
    BY FS_CardinalityType, TuningAssumption
       DEF ParamsRest, Versions, TuningInv, TuningType, InTheMiddle
  <2> QED
    BY <2>1
<1>2. \A w \in Tunables :
        Min({Least[w], config[w]}) <= inForce[w] /\ inForce[w] <= Max({Bound[w], config[w]})
  BY DEF ParamsRest, TunedWords, Bounded, Low, High
<1> QED
  BY <1>1, <1>2 DEF ParamsRest, TunedWords, SlotSequence, ParamsTypeOK

(* For every value of the constants and in every part of the node: each variable keeps its type.  *)
(* The arm's place and the counters stay within their bounds, a record is of a cycle that has     *)
(* begun and none is lost that was not pushed, an arm serves what it declared, the slot's         *)
(* sequence is odd exactly while a set is written, and the words in force never leave the table's *)
(* bounds, but where the config's own value does.                                                 *)
THEOREM NodeIsTyped == NodeSpec => []NodeTypeOK
<1> DEFINE PartInv ==
             /\ part = "gate" => GateInv /\ GateRest
             /\ part = "flight" => FlightInv
             /\ part = "recording" => RecordingInv /\ RecordingRest
             /\ part = "params" => TuningInv /\ ParamsRest
             /\ part = "gripper" => HandInv /\ HandRest
             /\ part = "life" => LifeInv /\ LifeRest
<1>1. NodeInit => PartInv
  BY GateInitially, GateRestStarts, FlightBegins, RecordingInitially, RecordingRestStarts,
     TuningInitially, ParamsRestStarts, HandInitially, HandRestStarts, LifeInitially, LifeRestStarts
     DEF NodeInit
<1>2. PartInv /\ [NodeNext]_nodeVars => PartInv'
  <2> SUFFICES ASSUME PartInv, [NodeNext]_nodeVars PROVE PartInv'
    OBVIOUS
  <2>1. ASSUME part' = "gate" PROVE GateInv' /\ GateRest'
    <3>1. part = "gate" /\ [GateNext]_gateVars
      BY <2>1 DEF NodeNext, nodeVars
    <3> QED
      BY <3>1, GateStep, GateRestStays
  <2>2. ASSUME part' = "flight" PROVE FlightInv'
    <3>1. part = "flight" /\ [FlightNext]_flightVars
      BY <2>2 DEF NodeNext, nodeVars
    <3> QED
      BY <3>1, FlightSteps
  <2>3. ASSUME part' = "recording" PROVE RecordingInv' /\ RecordingRest'
    <3>1. part = "recording" /\ [RecordingNext]_recordingVars
      BY <2>3 DEF NodeNext, nodeVars
    <3> QED
      BY <3>1, RecordingStep, RecordingRestStays
  <2>4. ASSUME part' = "params" PROVE TuningInv' /\ ParamsRest'
    <3>1. part = "params" /\ [ParamsNext]_paramsVars
      BY <2>4 DEF NodeNext, nodeVars
    <3> QED
      BY <3>1, TuningStep, ParamsRestStays
  <2>5. ASSUME part' = "gripper" PROVE HandInv' /\ HandRest'
    <3>1. part = "gripper" /\ [Next]_vars
      BY <2>5 DEF NodeNext, nodeVars
    <3> QED
      BY <3>1, HandStep, HandRestStays
  <2>6. ASSUME part' = "life" PROVE LifeInv' /\ LifeRest'
    <3>1. part = "life" /\ [LifeNext]_lifeVars
      BY <2>6 DEF NodeNext, nodeVars
    <3> QED
      BY <3>1, LifeStep, LifeRestStays
  <2> QED
    BY <2>1, <2>2, <2>3, <2>4, <2>5, <2>6
<1>3. PartInv => NodeTypeOK
  BY GateIsTyped, FlightIsTyped, RecordingIsTyped, ParamsAreTyped, HandIsTyped, LifeIsTyped
     DEF NodeTypeOK
<1> QED
  BY <1>1, <1>2, <1>3, PTL DEF NodeSpec
=============================================================================
