---------------------------- MODULE CamerasProofs ----------------------------
(***************************************************************************)
(* Proofs about the camera node: a capture thread and its device           *)
(* (CamCapture), a frame's way to a consumer (CamFrames), the recorder of  *)
(* episodes (CamRecorder); for any numbers of buffers, cameras, sessions   *)
(* and frames, any width of the driver's counter and any bounds of age.    *)
(***************************************************************************)
EXTENDS MCCameras, FiniteSetTheorems, TLAPS

-----------------------------------------------------------------------------
(* Sequences. *)

\* What is put behind a sequence is a further member, and a new one keeps it without repetition.
LEMMA Appended ==
    ASSUME NEW S, NEW s \in Seq(S), NEW x \in S
    PROVE  /\ Append(s, x) \in Seq(S) /\ ToSet(Append(s, x)) = ToSet(s) \cup {x}
           /\ IsInjective(s) /\ x \notin ToSet(s) => IsInjective(Append(s, x))
<1> DEFINE r == Append(s, x)
<1>1. r \in Seq(S) /\ Len(r) = Len(s) + 1 /\ Len(s) \in Nat
  OBVIOUS
<1>2. \A i \in 1..Len(s) : r[i] = s[i]
  OBVIOUS
<1>3. r[Len(s) + 1] = x
  OBVIOUS
<1>4. DOMAIN s = 1..Len(s) /\ DOMAIN r = 1..(Len(s) + 1)
  BY <1>1
<1> HIDE DEF r
<1>5. ToSet(r) = ToSet(s) \cup {x}
  <2>1. ASSUME NEW y \in ToSet(r) PROVE y \in ToSet(s) \cup {x}
    <3>1. PICK i \in 1..(Len(s) + 1) : y = r[i]
      BY <1>4, <2>1 DEF ToSet
    <3>2. i \in 1..Len(s) \/ i = Len(s) + 1
      BY <1>1
    <3> QED
      BY <1>2, <1>3, <1>4, <3>1, <3>2 DEF ToSet
  <2>2. ASSUME NEW y \in ToSet(s) PROVE y \in ToSet(r)
    <3>1. PICK i \in 1..Len(s) : y = s[i]
      BY <1>4 DEF ToSet
    <3>2. i \in 1..(Len(s) + 1)
      BY <1>1
    <3> QED
      BY <1>2, <1>4, <3>1, <3>2 DEF ToSet
  <2>3. x \in ToSet(r)
    <3>1. Len(s) + 1 \in 1..(Len(s) + 1)
      BY <1>1
    <3> QED
      BY <1>3, <1>4, <3>1 DEF ToSet
  <2> QED
    BY <2>1, <2>2, <2>3
<1>6. ASSUME IsInjective(s), x \notin ToSet(s) PROVE IsInjective(r)
  <2>1. \A i \in 1..Len(s) : s[i] # x
    BY <1>4, <1>6 DEF ToSet
  <2>2. \A i, j \in 1..Len(s) : s[i] = s[j] => i = j
    BY <1>4, <1>6 DEF IsInjective
  <2>3. \A i \in 1..(Len(s) + 1) : i \in 1..Len(s) \/ i = Len(s) + 1
    BY <1>1
  <2>4. \A i, j \in 1..(Len(s) + 1) : r[i] = r[j] => i = j
    BY <1>2, <1>3, <2>1, <2>2, <2>3
  <2> QED
    BY <1>4, <2>4 DEF IsInjective
<1> QED
  BY <1>1, <1>5, <1>6 DEF r

\* The first member and the rest make a sequence; without repetition it is not in the rest.
LEMMA Shortened ==
    ASSUME NEW S, NEW s \in Seq(S), s # <<>>
    PROVE  /\ Head(s) \in S /\ Tail(s) \in Seq(S) /\ ToSet(s) = ToSet(Tail(s)) \cup {Head(s)}
           /\ IsInjective(s) => IsInjective(Tail(s)) /\ Head(s) \notin ToSet(Tail(s))
<1> DEFINE r == Tail(s)
<1>1. Head(s) = s[1] /\ 1 \in 1..Len(s) /\ Len(s) \in Nat /\ s[1] \in S
  OBVIOUS
<1>2. r \in Seq(S) /\ Len(r) = Len(s) - 1 /\ \A i \in 1..Len(r) : r[i] = s[i + 1]
  OBVIOUS
<1>3. DOMAIN s = 1..Len(s) /\ DOMAIN r = 1..(Len(s) - 1)
  BY <1>2
<1> HIDE DEF r
<1>4. \A i \in 1..(Len(s) - 1) : i + 1 \in 1..Len(s) /\ i + 1 # 1 /\ r[i] = s[i + 1]
  BY <1>1, <1>2
<1>5. \A j \in 1..Len(s) : j = 1 \/ (j - 1 \in 1..(Len(s) - 1) /\ r[j - 1] = s[j])
  BY <1>1, <1>2
<1>6. ToSet(s) = ToSet(r) \cup {s[1]}
  <2>1. ASSUME NEW y \in ToSet(s) PROVE y \in ToSet(r) \cup {s[1]}
    <3>1. PICK j \in 1..Len(s) : y = s[j]
      BY <1>3 DEF ToSet
    <3> QED
      BY <1>3, <1>5, <3>1 DEF ToSet
  <2>2. ASSUME NEW y \in ToSet(r) PROVE y \in ToSet(s)
    <3>1. PICK i \in 1..(Len(s) - 1) : y = r[i]
      BY <1>3 DEF ToSet
    <3> QED
      BY <1>3, <1>4, <3>1 DEF ToSet
  <2>3. s[1] \in ToSet(s)
    BY <1>1, <1>3 DEF ToSet
  <2> QED
    BY <2>1, <2>2, <2>3
<1>7. ASSUME IsInjective(s) PROVE IsInjective(r) /\ s[1] \notin ToSet(r)
  <2>1. \A i, j \in 1..Len(s) : s[i] = s[j] => i = j
    BY <1>3, <1>7 DEF IsInjective
  <2>2. \A i, j \in 1..(Len(s) - 1) : r[i] = r[j] => i + 1 = j + 1
    BY <1>4, <2>1
  <2>3. \A i, j \in 1..(Len(s) - 1) : i + 1 = j + 1 => i = j
    OBVIOUS
  <2>4. IsInjective(r)
    BY <1>3, <2>2, <2>3 DEF IsInjective
  <2>5. \A i \in 1..(Len(s) - 1) : r[i] # s[1]
    BY <1>1, <1>4, <2>1
  <2> QED
    BY <1>3, <2>4, <2>5 DEF ToSet
<1> QED
  BY <1>1, <1>2, <1>6, <1>7 DEF r

\* An empty sequence has no members.
LEMMA Nobody == ASSUME NEW S PROVE <<>> \in Seq(S) /\ ToSet(<<>>) = {} /\ IsInjective(<<>>)
BY DEF ToSet, IsInjective

\* A member of a sequence of a set is of the set.
LEMMA Members == ASSUME NEW S, NEW s \in Seq(S) PROVE ToSet(s) \subseteq S
BY DEF ToSet

\* The members of two sequences in a row are those of both.
LEMMA Joined ==
    ASSUME NEW S, NEW s \in Seq(S), NEW r \in Seq(S)
    PROVE  ToSet(s \o r) = ToSet(s) \cup ToSet(r)
<1> DEFINE m == Len(s)
           n == Len(r)
           q == s \o r
<1>1. m \in Nat /\ n \in Nat /\ DOMAIN s = 1..m /\ DOMAIN r = 1..n /\ DOMAIN q = 1..(m + n)
  OBVIOUS
<1>2. \A i \in 1..m : q[i] = s[i]
  OBVIOUS
<1>3. \A i \in 1..n : q[m + i] = r[i]
  OBVIOUS
<1>4. \A i \in 1..(m + n) : q[i] = IF i \in 1..m THEN s[i] ELSE r[i - m]
  OBVIOUS
<1> HIDE DEF m, n, q
<1>5. \A i \in 1..m : i \in 1..(m + n)
  BY <1>1
<1>6. \A i \in 1..n : m + i \in 1..(m + n)
  BY <1>1
<1>7. \A i \in 1..(m + n) : i \in 1..m \/ i - m \in 1..n
  BY <1>1
<1>8. ASSUME NEW y \in ToSet(q) PROVE y \in ToSet(s) \cup ToSet(r)
  <2>1. PICK i \in 1..(m + n) : y = q[i]
    BY <1>1 DEF ToSet
  <2> QED
    BY <1>1, <1>4, <1>7, <2>1 DEF ToSet
<1>9. \A y \in ToSet(s) : y \in ToSet(q)
  BY <1>1, <1>2, <1>5 DEF ToSet
<1>10. \A y \in ToSet(r) : y \in ToSet(q)
  BY <1>1, <1>3, <1>6 DEF ToSet
<1> QED
  BY <1>8, <1>9, <1>10 DEF q

\* A finite set is listed once, as a whole.
LEMMA Listed ==
    ASSUME NEW S, IsFiniteSet(S)
    PROVE  SetToSeq(S) \in Seq(S) /\ ToSet(SetToSeq(S)) = S /\ IsInjective(SetToSeq(S))
<1> DEFINE n == Cardinality(S)
           f == SetToSeq(S)
<1>1. n \in Nat /\ ExistsBijection(1..n, S)
  BY FS_CardinalityType
<1>2. \E g \in [1..n -> S] : IsInjective(g)
  BY <1>1 DEF ExistsBijection, Bijection, Injection
<1>3. f \in [1..n -> S] /\ IsInjective(f)
  BY <1>2 DEF SetToSeq
<1>4. f \in Seq(S)
  BY <1>1, <1>3
<1>5. IsFiniteSet(1..n) /\ Cardinality(1..n) = n
  BY <1>1, FS_Interval
<1>6. f \in Injection(1..n, S)
  BY <1>3 DEF Injection
<1> HIDE DEF f
<1>7. f \in Surjection(1..n, S)
  BY <1>5, <1>6, FS_Injection
<1>8. ToSet(f) = S
  BY <1>3, <1>7 DEF Surjection, ToSet
<1> QED
  BY <1>3, <1>4, <1>8 DEF f

\* Two lists of a finite set that share nothing and repeat nothing are no longer than it.
LEMMA NoLonger ==
    ASSUME NEW S, IsFiniteSet(S), NEW s \in Seq(S), NEW r \in Seq(S),
           IsInjective(s), IsInjective(r), ToSet(s) \cap ToSet(r) = {}
    PROVE  Len(s) + Len(r) <= Cardinality(S)
<1> DEFINE m == Len(s)
           n == Len(r)
           f == [i \in 1..(m + n) |-> IF i <= m THEN s[i] ELSE r[i - m]]
<1>1. m \in Nat /\ n \in Nat /\ DOMAIN s = 1..m /\ DOMAIN r = 1..n
  OBVIOUS
<1>2. \A i \in 1..m : s[i] \in S
  OBVIOUS
<1>3. \A i \in 1..n : r[i] \in S
  OBVIOUS
<1> HIDE DEF m, n
<1>4. \A i \in 1..(m + n) : (i <= m /\ i \in 1..m) \/ (~(i <= m) /\ i - m \in 1..n)
  BY <1>1
<1>5. f \in [1..(m + n) -> S]
  BY <1>2, <1>3, <1>4
<1>6. \A i \in 1..m : s[i] \in ToSet(s)
  BY <1>1 DEF ToSet
<1>7. \A i \in 1..n : r[i] \in ToSet(r)
  BY <1>1 DEF ToSet
<1>8. \A i \in 1..m, j \in 1..n : s[i] # r[j]
  BY <1>6, <1>7
<1>9. \A i, j \in 1..m : s[i] = s[j] => i = j
  BY <1>1 DEF IsInjective
<1>10. \A i, j \in 1..n : r[i] = r[j] => i = j
  BY <1>1 DEF IsInjective
<1>11. ASSUME NEW i \in 1..(m + n), NEW j \in 1..(m + n), f[i] = f[j] PROVE i = j
  <2>1. CASE i <= m /\ j <= m
    BY <1>4, <1>9, <1>11, <2>1
  <2>2. CASE ~(i <= m) /\ ~(j <= m)
    <3>1. i - m \in 1..n /\ j - m \in 1..n /\ r[i - m] = r[j - m]
      BY <1>4, <1>11, <2>2
    <3>2. i - m = j - m
      BY <1>10, <3>1
    <3> QED
      BY <1>1, <3>2
  <2>3. CASE i <= m /\ ~(j <= m)
    BY <1>4, <1>8, <1>11, <2>3
  <2>4. CASE ~(i <= m) /\ j <= m
    BY <1>4, <1>8, <1>11, <2>4
  <2> QED
    BY <2>1, <2>2, <2>3, <2>4
<1>12. f \in Injection(1..(m + n), S)
  BY <1>5, <1>11 DEF Injection, IsInjective
<1>13. m + n \in Nat
  BY <1>1
<1> HIDE DEF f
<1>14. Cardinality(1..(m + n)) <= Cardinality(S)
  BY <1>12, FS_Injection
<1>15. Cardinality(1..(m + n)) = m + n
  BY <1>13, FS_Interval, SMT
<1> QED
  BY <1>14, <1>15 DEF m, n

-----------------------------------------------------------------------------
(* The capture thread. *)

\* The contents of the buffers of a list grow along it.
Ascending(s, content) == \A i, j \in 1..Len(s) : i < j => content[s[i]] < content[s[j]]

\* A list with a newer buffer behind it ascends, and so does one without its first.
LEMMA AscendingOn ==
    ASSUME NEW S, NEW s \in Seq(S), NEW b \in S, NEW c \in [S -> Nat], NEW d \in [S -> Nat],
           Ascending(s, c), \A x \in ToSet(s) : d[x] = c[x] /\ c[x] < d[b]
    PROVE  Ascending(Append(s, b), d)
<1> DEFINE r == Append(s, b)
<1>1. Len(r) = Len(s) + 1 /\ Len(s) \in Nat /\ DOMAIN s = 1..Len(s)
  OBVIOUS
<1>2. \A i \in 1..Len(s) : r[i] = s[i] /\ s[i] \in ToSet(s)
  BY <1>1 DEF ToSet
<1>3. r[Len(s) + 1] = b
  OBVIOUS
<1> HIDE DEF r
<1>4. ASSUME NEW i \in 1..(Len(s) + 1), NEW j \in 1..(Len(s) + 1), i < j
      PROVE  d[r[i]] < d[r[j]]
  <2>1. i \in 1..Len(s) /\ (j \in 1..Len(s) \/ j = Len(s) + 1)
    <3> DEFINE n == Len(s)
    <3>1. n \in Nat /\ i \in 1..(n + 1) /\ j \in 1..(n + 1) /\ i < j
      BY <1>1, <1>4
    <3> HIDE DEF n
    <3>2. i \in 1..n /\ (j \in 1..n \/ j = n + 1)
      BY <3>1
    <3> QED
      BY <3>2 DEF n
  <2>2. CASE j \in 1..Len(s)
    BY <1>2, <1>4, <2>1, <2>2 DEF Ascending
  <2>3. CASE j = Len(s) + 1
    BY <1>2, <1>3, <2>1, <2>3
  <2> QED
    BY <2>1, <2>2, <2>3
<1> QED
  BY <1>1, <1>4 DEF Ascending, r

\* Turning the stream off empties the order of filling.
LEMMA AscendingOff ==
    ASSUME NEW S, NEW s \in Seq(S), NEW c \in [S -> Nat], Ascending(s, c), s # <<>>
    PROVE  Ascending(Tail(s), c) /\ \A x \in ToSet(Tail(s)) : c[Head(s)] < c[x]
<1> DEFINE r == Tail(s)
<1>1. Head(s) = s[1] /\ Len(r) = Len(s) - 1 /\ Len(s) \in Nat /\ Len(s) >= 1
  OBVIOUS
<1>2. \A i \in 1..Len(r) : r[i] = s[i + 1]
  OBVIOUS
<1>3. DOMAIN r = 1..Len(r)
  OBVIOUS
<1> HIDE DEF r
<1>4. \A i \in 1..Len(r) : i + 1 \in 1..Len(s) /\ 1 < i + 1 /\ 1 \in 1..Len(s)
  BY <1>1
<1>5. \A i, j \in 1..Len(r) : i < j => i + 1 < j + 1
  BY <1>1
<1>6. Ascending(r, c)
  BY <1>2, <1>4, <1>5 DEF Ascending
<1>7. \A i \in 1..Len(r) : c[s[1]] < c[r[i]]
  BY <1>2, <1>4 DEF Ascending
<1> QED
  BY <1>1, <1>3, <1>6, <1>7 DEF ToSet, r

\* The counter's low digits tell how far apart two numbers are that are not further apart than
\* it can tell.
LEMMA Wraps ==
    ASSUME NEW a \in Nat, NEW b \in Nat, NEW m \in Nat \ {0}, b < a, a - b < m
    PROVE  ((a % m) - (b % m)) % m = a - b
<1> DEFINE p == a \div m
           q == b \div m
           u == a % m
           v == b % m
<1>1. p \in Int /\ u \in 0..(m - 1) /\ a = m * p + u
  OBVIOUS
<1>2. q \in Int /\ v \in 0..(m - 1) /\ b = m * q + v
  OBVIOUS
<1> HIDE DEF p, q, u, v
<1>3. p - q \in {0, 1}
  <2> DEFINE k == p - q
  <2>1. k \in Int /\ a - b = m * k + (u - v)
    BY <1>1, <1>2
  <2> HIDE DEF k
  <2>2. m * k < 2 * m /\ m * k > -m
    BY <1>1, <1>2, <2>1
  <2>3. k <= 1
    <3>1. k >= 2 => m * k >= m * 2
      BY <2>1
    <3> QED
      BY <2>1, <2>2, <3>1
  <2>4. k >= 0
    <3>1. k <= -1 => m * k <= m * (-1)
      BY <2>1
    <3> QED
      BY <2>1, <2>2, <3>1
  <2> QED
    BY <2>1, <2>3, <2>4 DEF k
<1> QED
  BY <1>1, <1>2, <1>3

CaptureFields ==
    /\ device \in [is : {"absent", "ready", "quiet"} \cup Misfits, changes : 0..MaxChanges]
    /\ driver \in [on : BOOLEAN, seq : 0..MaxSeq, queued : Seq(Buffers), filled : Seq(Buffers),
                   content : [Buffers -> 0..MaxSeq]]
    /\ capture \in [at : {"open", "clock", "stream", "copy", "requeue", "publish", "sleep", "done"},
                    opened : BOOLEAN, backoff : 0..BackoffSteps, last : -1..(SeqModulus - 1),
                    prior : 0..MaxSeq, held : Buffers \cup {NoBuffer}, seq : 0..MaxSeq,
                    gap : 0..(SeqModulus - 1)]
    /\ stats \in [streaming : BOOLEAN, reopens : 0..(MaxChanges + 1)]
    /\ sample \in [seq : 0..MaxSeq, bytes : 0..MaxSeq]
    /\ camera \in {"running", "stopping", "joined"}

\* The thread has a buffer out of the queue.
Away == capture.at \in {"copy", "requeue"}

\* Each buffer is in one place, and none is nowhere while the stream is on.
OnePlace ==
    /\ IsInjective(driver.queued) /\ IsInjective(driver.filled)
    /\ ToSet(driver.queued) \cap ToSet(driver.filled) = {}
    /\ Away => /\ capture.held \in Buffers /\ capture.held \notin ToSet(driver.queued)
               /\ capture.held \notin ToSet(driver.filled)
    /\ driver.on => \A b \in Buffers : \/ b \in ToSet(driver.queued) \/ b \in ToSet(driver.filled)
                                       \/ Away /\ b = capture.held

\* Filled buffers wait in the order of their frames.
FilledInOrder ==
    /\ Ascending(driver.filled, driver.content)
    /\ \A b \in ToSet(driver.filled) : driver.content[b] \in 1..driver.seq

\* The frame in hand is of its buffer, and those that wait are newer.
HeldIsNext ==
    capture.at = "copy" =>
      /\ capture.seq \in 1..driver.seq /\ driver.content[capture.held] = capture.seq
      /\ \A b \in ToSet(driver.filled) : driver.content[b] > capture.seq
      /\ capture.last # -1 => sample.seq < capture.seq

\* In a stream with a first frame, the last number is the last sample's, and what waits is newer.
LastIsSampled ==
    capture.at \in {"stream", "copy", "requeue", "publish"} /\ capture.last # -1 =>
      /\ sample.seq <= driver.seq /\ capture.last = sample.seq % SeqModulus
      /\ \A b \in ToSet(driver.filled) : driver.content[b] > sample.seq

CopiedIsSample == capture.at = "requeue" => sample.seq = capture.seq /\ capture.last # -1

CaptureInv ==
    /\ CaptureFields /\ OnePlace /\ FilledInOrder /\ HeldIsNext /\ LastIsSampled
    /\ CopiedIsSample /\ NoTornSample /\ GapsAreExact

\* A capture thread starts with every buffer in one place.
LEMMA CaptureStarts == ASSUME CaptureInit PROVE CaptureInv
<1> USE CaptureAssumption
<1>1. /\ driver.on = FALSE /\ driver.queued = <<>> /\ driver.filled = <<>> /\ capture.at = "open"
      /\ sample.seq = 0 /\ sample.bytes = 0
  BY DEF CaptureInit
<1>2. CaptureFields
  BY DEF CaptureInit, CaptureFields, Misfits
<1>3. OnePlace
  BY <1>1, Nobody DEF OnePlace, Away
<1>4. Ascending(<<>>, driver.content)
  BY DEF Ascending
<1> QED
  BY <1>1, <1>2, <1>3, <1>4, Nobody DEF CaptureInv, FilledInOrder, HeldIsNext, LastIsSampled,
     CopiedIsSample, NoTornSample, GapsAreExact

\* With an empty queue and no frame in hand, nothing can be wrong.
LEMMA StreamIsOff ==
    ASSUME CaptureInv, CaptureFields', driver' = StreamOff(driver),
           capture'.at \in {"sleep", "done"}, sample' = sample
    PROVE  CaptureInv'
<1> USE DEF CaptureInv
<1>1. driver'.on = FALSE /\ driver'.queued = <<>> /\ driver'.filled = <<>>
  BY DEF CaptureFields, StreamOff
<1>2. OnePlace'
  BY <1>1, Nobody DEF OnePlace, Away
<1>3. FilledInOrder'
  <2>1. Ascending(<<>>, driver'.content)
    BY DEF Ascending
  <2> QED
    BY <1>1, <2>1, Nobody DEF FilledInOrder
<1> QED
  BY <1>2, <1>3 DEF HeldIsNext, LastIsSampled, CopiedIsSample, NoTornSample, GapsAreExact

\* What neither touches the queue nor the thread's place.
LEMMA NothingMoves ==
    ASSUME CaptureInv, CaptureFields', driver'.on => driver.on,
           driver'.seq = driver.seq, driver'.queued = driver.queued,
           driver'.filled = driver.filled, driver'.content = driver.content,
           capture' = capture, sample' = sample
    PROVE  CaptureInv'
BY DEF CaptureInv, OnePlace, Away, FilledInOrder, HeldIsNext, LastIsSampled, CopiedIsSample,
       NoTornSample, GapsAreExact

\* The driver fills a buffer it has and numbers the frame.
LEMMA FillsKeep == ASSUME CaptureInv, DriverFills PROVE CaptureInv'
<1> USE CaptureAssumption
<1>a. /\ driver.on \in BOOLEAN /\ driver.seq \in 0..MaxSeq /\ driver.queued \in Seq(Buffers)
      /\ driver.filled \in Seq(Buffers) /\ driver.content \in [Buffers -> 0..MaxSeq]
  BY DEF CaptureInv, CaptureFields
<1>b. /\ driver.on /\ driver.seq < MaxSeq
      /\ capture' = capture /\ sample' = sample /\ device' = device /\ stats' = stats /\ camera' = camera
  BY DEF DriverFills, Delivers
<1>c. driver.seq \in Nat /\ driver.content \in [Buffers -> Nat]
  BY <1>a
<1>0. /\ driver.on /\ driver.seq \in Nat /\ driver.seq < MaxSeq /\ driver.queued \in Seq(Buffers)
      /\ driver.filled \in Seq(Buffers) /\ driver.content \in [Buffers -> 0..MaxSeq]
      /\ driver.content \in [Buffers -> Nat]
      /\ capture' = capture /\ sample' = sample /\ device' = device /\ stats' = stats /\ camera' = camera
  BY <1>a, <1>b, <1>c
<1>s. CaptureFields /\ OnePlace /\ FilledInOrder /\ HeldIsNext /\ LastIsSampled /\ sample.seq \in Nat
      /\ capture.seq \in Nat
  BY DEF CaptureInv, CaptureFields
<1>1. CASE driver.queued = <<>>
  <2>1. driver' = [driver EXCEPT !.seq = @ + 1]
    BY <1>1 DEF DriverFills
  <2>2. /\ driver'.on = driver.on /\ driver'.seq = driver.seq + 1 /\ driver'.queued = driver.queued
        /\ driver'.filled = driver.filled /\ driver'.content = driver.content
    BY <2>1, <1>s DEF CaptureFields
  <2>3. CaptureFields'
    <3>1. driver' = [on |-> driver.on, seq |-> driver.seq + 1, queued |-> driver.queued,
                     filled |-> driver.filled, content |-> driver.content]
      BY <2>1, <1>s DEF CaptureFields
    <3>2. driver.seq + 1 \in 0..MaxSeq /\ driver.on \in BOOLEAN
      BY <1>a, <1>0
    <3>3. driver' \in [on : BOOLEAN, seq : 0..MaxSeq, queued : Seq(Buffers), filled : Seq(Buffers),
                       content : [Buffers -> 0..MaxSeq]]
      BY <1>0, <3>1, <3>2
    <3> QED
      BY <1>0, <1>s, <3>3 DEF CaptureFields
  <2>4. OnePlace'
    BY <1>0, <1>s, <2>2 DEF OnePlace, Away
  <2>5. FilledInOrder'
    BY <1>0, <1>s, <2>2 DEF FilledInOrder
  <2>6. HeldIsNext'
    BY <1>0, <1>s, <2>2 DEF HeldIsNext
  <2>7. LastIsSampled'
    BY <1>0, <1>s, <2>2 DEF LastIsSampled
  <2> QED
    BY <1>0, <2>3, <2>4, <2>5, <2>6, <2>7 DEF CaptureInv, CopiedIsSample, NoTornSample, GapsAreExact
<1>2. CASE driver.queued # <<>>
  <2> DEFINE b == Head(driver.queued)
             n == driver.seq + 1
             c == [driver.content EXCEPT ![b] = n]
  <2>1. driver' = [driver EXCEPT !.seq = @ + 1, !.queued = Tail(@), !.filled = Append(@, b),
                                 !.content[b] = n]
    BY <1>2 DEF DriverFills
  <2>2. /\ driver'.on = driver.on /\ driver'.seq = n /\ driver'.queued = Tail(driver.queued)
        /\ driver'.filled = Append(driver.filled, b) /\ driver'.content = c
    BY <2>1, <1>s DEF CaptureFields
  <2>3. /\ b \in Buffers /\ Tail(driver.queued) \in Seq(Buffers)
        /\ ToSet(driver.queued) = ToSet(Tail(driver.queued)) \cup {b}
        /\ IsInjective(Tail(driver.queued)) /\ b \notin ToSet(Tail(driver.queued))
    BY <1>0, <1>2, <1>s, Shortened DEF OnePlace
  <2>4. b \notin ToSet(driver.filled) /\ (Away => b # capture.held)
    BY <1>s, <2>3 DEF OnePlace
  <2>5. /\ Append(driver.filled, b) \in Seq(Buffers) /\ IsInjective(Append(driver.filled, b))
        /\ ToSet(Append(driver.filled, b)) = ToSet(driver.filled) \cup {b}
    BY <1>0, <1>s, <2>3, <2>4, Appended DEF OnePlace
  <2>6. n \in 0..MaxSeq /\ n = driver.seq + 1
    BY <1>0
  <2>7. /\ c \in [Buffers -> 0..MaxSeq] /\ c \in [Buffers -> Nat] /\ c[b] = n
        /\ \A x \in Buffers : x # b => c[x] = driver.content[x]
    BY <1>0, <2>3, <2>6
  <2>8. CaptureFields'
    <3>1. driver' \in [on : BOOLEAN, seq : 0..MaxSeq, queued : Seq(Buffers), filled : Seq(Buffers),
                       content : [Buffers -> 0..MaxSeq]]
      <4>1. driver' = [on |-> driver.on, seq |-> n, queued |-> Tail(driver.queued),
                       filled |-> Append(driver.filled, b), content |-> c]
        BY <2>1, <1>s DEF CaptureFields
      <4>2. driver.on \in BOOLEAN
        BY <1>s DEF CaptureFields
      <4> HIDE DEF b, n, c
      <4> QED
        BY <4>1, <4>2, <2>3, <2>5, <2>6, <2>7
    <3> QED
      BY <3>1, <1>0, <1>s DEF CaptureFields
  <2> HIDE DEF b, n, c
  <2>9. ToSet(driver.filled) \subseteq Buffers
    BY <1>0, Members
  <2>10. OnePlace'
    BY <1>0, <1>s, <2>2, <2>3, <2>4, <2>5 DEF OnePlace, Away
  <2>11. \A x \in ToSet(driver.filled) : c[x] = driver.content[x] /\ c[x] \in 1..driver.seq
    BY <1>s, <2>4, <2>7, <2>9 DEF FilledInOrder
  <2>12. FilledInOrder'
    <3>1. \A x \in ToSet(driver.filled) : c[x] = driver.content[x] /\ driver.content[x] < c[b]
      BY <1>0, <2>6, <2>7, <2>11
    <3>2. Ascending(driver.filled, driver.content)
      BY <1>s DEF FilledInOrder
    <3>3. Ascending(Append(driver.filled, b), c)
      BY <1>0, <2>3, <2>7, <3>1, <3>2, AscendingOn
    <3>4. \A x \in ToSet(driver.filled) \cup {b} : c[x] \in 1..n
      BY <1>0, <2>6, <2>7, <2>11
    <3> QED
      BY <2>2, <2>5, <3>3, <3>4 DEF FilledInOrder
  <2>13. HeldIsNext'
    <3>1. SUFFICES ASSUME capture.at = "copy"
          PROVE  /\ capture.seq \in 1..n /\ c[capture.held] = capture.seq
                 /\ \A x \in ToSet(driver.filled) \cup {b} : c[x] > capture.seq
                 /\ capture.last # -1 => sample.seq < capture.seq
      BY <1>0, <2>2, <2>5 DEF HeldIsNext
    <3>2. /\ capture.seq \in 1..driver.seq /\ driver.content[capture.held] = capture.seq
          /\ \A x \in ToSet(driver.filled) : driver.content[x] > capture.seq
          /\ capture.last # -1 => sample.seq < capture.seq
      BY <1>s, <3>1 DEF HeldIsNext
    <3>3. capture.held \in Buffers /\ capture.held # b
      BY <1>s, <2>4, <3>1 DEF OnePlace, Away
    <3>4. c[capture.held] = capture.seq
      BY <2>7, <3>2, <3>3
    <3>5. capture.seq \in 1..n /\ c[b] > capture.seq
      BY <1>0, <2>6, <2>7, <3>2
    <3>6. \A x \in ToSet(driver.filled) : c[x] > capture.seq
      BY <2>11, <3>2
    <3> QED
      BY <3>2, <3>4, <3>5, <3>6
  <2>14. LastIsSampled'
    <3>1. SUFFICES ASSUME capture.at \in {"stream", "copy", "requeue", "publish"}, capture.last # -1
          PROVE  /\ sample.seq <= n /\ capture.last = sample.seq % SeqModulus
                 /\ \A x \in ToSet(driver.filled) \cup {b} : c[x] > sample.seq
      BY <1>0, <2>2, <2>5 DEF LastIsSampled
    <3>2. /\ sample.seq <= driver.seq /\ capture.last = sample.seq % SeqModulus
          /\ \A x \in ToSet(driver.filled) : driver.content[x] > sample.seq
      BY <1>s, <3>1 DEF LastIsSampled
    <3>3. sample.seq <= n /\ c[b] > sample.seq
      BY <1>0, <1>s, <2>6, <2>7, <3>2
    <3> QED
      BY <2>11, <3>2, <3>3
  <2> QED
    BY <1>0, <2>8, <2>10, <2>12, <2>13, <2>14 DEF CaptureInv, CopiedIsSample, NoTornSample, GapsAreExact
<1> QED
  BY <1>1, <1>2

\* A device that goes, returns or falls silent moves no buffer.
LEMMA DeviceKeeps == ASSUME CaptureInv, DeviceChanges PROVE CaptureInv'
<1> USE CaptureAssumption
<1>1. PICK is \in {"absent", "ready", "quiet"} \cup Misfits :
        /\ device' = [is |-> is, changes |-> device.changes + 1]
        /\ driver' = [driver EXCEPT !.on = @ /\ {is, device.is} \subseteq {"ready", "quiet"}]
  BY DEF DeviceChanges
<1>2. /\ capture' = capture /\ stats' = stats /\ sample' = sample /\ camera' = camera
      /\ device.changes < MaxChanges
  BY DEF DeviceChanges
<1>s. CaptureFields
  BY DEF CaptureInv
<1>3. device' \in [is : {"absent", "ready", "quiet"} \cup Misfits, changes : 0..MaxChanges]
  <2>1. device.changes \in 0..MaxChanges
    BY <1>s DEF CaptureFields
  <2> QED
    BY <1>1, <1>2, <2>1
<1>4. driver'.on => driver.on
  BY <1>1, <1>s DEF CaptureFields
<1>5. /\ driver'.seq = driver.seq /\ driver'.queued = driver.queued
      /\ driver'.filled = driver.filled /\ driver'.content = driver.content
  BY <1>1, <1>s DEF CaptureFields
<1>6. driver' \in [on : BOOLEAN, seq : 0..MaxSeq, queued : Seq(Buffers), filled : Seq(Buffers),
                   content : [Buffers -> 0..MaxSeq]]
  BY <1>1, <1>s DEF CaptureFields
<1>7. CaptureFields'
  BY <1>2, <1>3, <1>6, <1>s DEF CaptureFields
<1> QED
  BY <1>2, <1>4, <1>5, <1>7, NothingMoves

\* After STREAMOFF the driver holds nothing and its numbers restart.
LEMMA OffTyped ==
    ASSUME CaptureFields
    PROVE  StreamOff(driver) \in [on : BOOLEAN, seq : 0..MaxSeq, queued : Seq(Buffers),
                                  filled : Seq(Buffers), content : [Buffers -> 0..MaxSeq]]
BY Nobody DEF CaptureFields, StreamOff

\* Every way a stream or an open ends.
LEMMA EndsKeep ==
    ASSUME CaptureInv,
           \/ OpenFails \/ OpenIsRefused \/ StreamBreaks \/ StreamIsRefused \/ WakesForNothing \/ SeesStop
    PROVE  CaptureInv'
<1> USE CaptureAssumption
<1>s. CaptureFields
  BY DEF CaptureInv
<1>1. /\ driver' = StreamOff(driver) /\ sample' = sample /\ camera' = camera
      /\ capture' = [capture EXCEPT !.at = "sleep"] \/ capture' = [capture EXCEPT !.at = "done"]
      /\ stats' = stats \/ stats' = [stats EXCEPT !.streaming = FALSE]
      /\ device' = device \/ (device.changes < MaxChanges
                                /\ device' = [device EXCEPT !.changes = @ + 1])
  BY DEF OpenFails, OpenIsRefused, StreamBreaks, StreamIsRefused, WakesForNothing, SeesStop
<1>2. capture'.at \in {"sleep", "done"}
  BY <1>1, <1>s DEF CaptureFields
<1>3. device' \in [is : {"absent", "ready", "quiet"} \cup Misfits, changes : 0..MaxChanges]
  <2>1. device \in [is : {"absent", "ready", "quiet"} \cup Misfits, changes : 0..MaxChanges]
    BY <1>s DEF CaptureFields
  <2> QED
    BY <1>1, <2>1
<1>4. /\ capture' \in [at : {"open", "clock", "stream", "copy", "requeue", "publish", "sleep", "done"},
                    opened : BOOLEAN, backoff : 0..BackoffSteps, last : -1..(SeqModulus - 1),
                    prior : 0..MaxSeq, held : Buffers \cup {NoBuffer}, seq : 0..MaxSeq,
                    gap : 0..(SeqModulus - 1)]
      /\ stats' \in [streaming : BOOLEAN, reopens : 0..(MaxChanges + 1)]
  <2>1. stats' \in [streaming : BOOLEAN, reopens : 0..(MaxChanges + 1)]
    BY <1>1, <1>s DEF CaptureFields
  <2>2. CASE capture' = [capture EXCEPT !.at = "sleep"]
    BY <2>1, <2>2, <1>s DEF CaptureFields
  <2>3. CASE capture' = [capture EXCEPT !.at = "done"]
    BY <2>1, <2>3, <1>s DEF CaptureFields
  <2> QED
    BY <1>1, <2>2, <2>3
<1>5. CaptureFields'
  BY <1>1, <1>3, <1>4, <1>s, OffTyped DEF CaptureFields
<1> QED
  BY <1>1, <1>2, <1>5, StreamIsOff

\* STREAMON hands every buffer to the driver.
LEMMA StreamOnKeeps == ASSUME CaptureInv, StreamOn PROVE CaptureInv'
<1> USE CaptureAssumption
<1>s. CaptureFields /\ NoTornSample
  BY DEF CaptureInv
<1> DEFINE z == [b \in Buffers |-> 0]
<1>1. /\ driver' = [on |-> TRUE, seq |-> 0, queued |-> SetToSeq(Buffers), filled |-> <<>>,
                    content |-> z]
      /\ capture' = [capture EXCEPT !.at = "clock"]
      /\ device' = device /\ stats' = stats /\ sample' = sample /\ camera' = camera
  BY DEF StreamOn
<1>2. /\ driver'.on /\ driver'.queued = SetToSeq(Buffers) /\ driver'.filled = <<>>
      /\ driver'.content = z /\ z \in [Buffers -> 0..MaxSeq]
  BY <1>1
<1>3. capture'.at = "clock"
  BY <1>1, <1>s DEF CaptureFields
<1>4. /\ SetToSeq(Buffers) \in Seq(Buffers) /\ ToSet(SetToSeq(Buffers)) = Buffers
      /\ IsInjective(SetToSeq(Buffers))
  BY Listed
<1>5. <<>> \in Seq(Buffers) /\ ToSet(<<>>) = {} /\ IsInjective(<<>>)
  BY Nobody
<1> HIDE DEF z
<1>6. CaptureFields'
  <2>1. capture' \in [at : {"open", "clock", "stream", "copy", "requeue", "publish", "sleep", "done"},
                    opened : BOOLEAN, backoff : 0..BackoffSteps, last : -1..(SeqModulus - 1),
                    prior : 0..MaxSeq, held : Buffers \cup {NoBuffer}, seq : 0..MaxSeq,
                    gap : 0..(SeqModulus - 1)]
    BY <1>1, <1>s DEF CaptureFields
  <2>2. driver' \in [on : BOOLEAN, seq : 0..MaxSeq, queued : Seq(Buffers), filled : Seq(Buffers),
                   content : [Buffers -> 0..MaxSeq]]
    BY <1>1, <1>2, <1>4, <1>5
  <2> QED
    BY <1>1, <1>s, <2>1, <2>2 DEF CaptureFields
<1>7. OnePlace'
  BY <1>2, <1>3, <1>4, <1>5 DEF OnePlace, Away
<1>8. FilledInOrder'
  <2>1. Ascending(<<>>, z)
    BY DEF Ascending
  <2> QED
    BY <1>2, <1>5, <2>1 DEF FilledInOrder
<1> QED
  BY <1>1, <1>3, <1>s, <1>6, <1>7, <1>8 DEF CaptureInv, HeldIsNext, LastIsSampled, CopiedIsSample,
     NoTornSample, GapsAreExact

\* A new stream forgets the last number, so no gap is taken across a reopen.
LEMMA ClockKeeps == ASSUME CaptureInv, ClockIsKnown PROVE CaptureInv'
<1> USE CaptureAssumption
<1> DEFINE b == Head(driver.filled)
<1>s. CaptureFields /\ OnePlace /\ FilledInOrder /\ NoTornSample
  BY DEF CaptureInv
<1>1. /\ capture.at = "clock" /\ driver.on /\ driver.filled # <<>>
      /\ driver' = [driver EXCEPT !.filled = Tail(@), !.queued = Append(@, b)]
      /\ capture' = [capture EXCEPT !.at = "stream", !.opened = TRUE, !.backoff = 0, !.last = -1]
      /\ device' = device /\ sample' = sample /\ camera' = camera
  BY DEF ClockIsKnown
<1>2. /\ driver.queued \in Seq(Buffers) /\ driver.filled \in Seq(Buffers)
      /\ driver.content \in [Buffers -> 0..MaxSeq]
  BY <1>s DEF CaptureFields
<1>3. /\ b \in Buffers /\ Tail(driver.filled) \in Seq(Buffers)
      /\ ToSet(driver.filled) = ToSet(Tail(driver.filled)) \cup {b}
      /\ IsInjective(Tail(driver.filled)) /\ b \notin ToSet(Tail(driver.filled))
  BY <1>1, <1>2, <1>s, Shortened DEF OnePlace
<1>4. b \notin ToSet(driver.queued)
  BY <1>3, <1>s DEF OnePlace
<1>5. /\ Append(driver.queued, b) \in Seq(Buffers) /\ IsInjective(Append(driver.queued, b))
      /\ ToSet(Append(driver.queued, b)) = ToSet(driver.queued) \cup {b}
  BY <1>2, <1>3, <1>4, <1>s, Appended DEF OnePlace
<1>6. /\ driver'.on /\ driver'.queued = Append(driver.queued, b) /\ driver'.seq = driver.seq
      /\ driver'.filled = Tail(driver.filled) /\ driver'.content = driver.content
  BY <1>1, <1>s DEF CaptureFields
<1>7. capture'.at = "stream" /\ capture'.last = -1
  BY <1>1, <1>s DEF CaptureFields
<1>8. Ascending(Tail(driver.filled), driver.content)
  <2>1. driver.content \in [Buffers -> Nat]
    BY <1>2
  <2> QED
    BY <2>1, <1>1, <1>2, <1>s, AscendingOff DEF FilledInOrder
<1>9. CaptureFields'
  <2>1. capture' \in [at : {"open", "clock", "stream", "copy", "requeue", "publish", "sleep", "done"},
                    opened : BOOLEAN, backoff : 0..BackoffSteps, last : -1..(SeqModulus - 1),
                    prior : 0..MaxSeq, held : Buffers \cup {NoBuffer}, seq : 0..MaxSeq,
                    gap : 0..(SeqModulus - 1)]
    <3>1. -1 \in -1..(SeqModulus - 1) /\ 0 \in 0..BackoffSteps
      OBVIOUS
    <3> HIDE DEF b
    <3> QED
      BY <1>1, <3>1, <1>s DEF CaptureFields
  <2>2. driver' \in [on : BOOLEAN, seq : 0..MaxSeq, queued : Seq(Buffers), filled : Seq(Buffers),
                   content : [Buffers -> 0..MaxSeq]]
    BY <1>1, <1>3, <1>5, <1>s DEF CaptureFields
  <2>3. stats' \in [streaming : BOOLEAN, reopens : 0..(MaxChanges + 1)]
    <3>1. stats.reopens \in 0..(MaxChanges + 1)
      BY <1>s DEF CaptureFields
    <3>2. (IF capture.opened /\ stats.reopens <= MaxChanges THEN stats.reopens + 1 ELSE stats.reopens)
            \in 0..(MaxChanges + 1)
      BY <3>1
    <3> QED
      BY <3>2 DEF ClockIsKnown
  <2> QED
    BY <1>1, <1>s, <2>1, <2>2, <2>3 DEF CaptureFields
<1> HIDE DEF b
<1>10. OnePlace'
  BY <1>1, <1>3, <1>4, <1>5, <1>6, <1>7, <1>s DEF OnePlace, Away
<1>11. FilledInOrder'
  BY <1>3, <1>6, <1>8, <1>s DEF FilledInOrder
<1> QED
  BY <1>1, <1>7, <1>9, <1>10, <1>11, <1>s DEF CaptureInv, HeldIsNext, LastIsSampled,
     CopiedIsSample, NoTornSample, GapsAreExact

\* DQBUF takes the oldest filled buffer: its number is above the last sample's.
LEMMA DequeueKeeps == ASSUME CaptureInv, Dequeue PROVE CaptureInv'
<1> USE CaptureAssumption
<1> DEFINE b == Head(driver.filled)
<1>s. CaptureFields /\ OnePlace /\ FilledInOrder /\ NoTornSample /\ LastIsSampled
  BY DEF CaptureInv
<1>1. /\ capture.at = "stream" /\ driver.on /\ driver.filled # <<>>
      /\ driver' = [driver EXCEPT !.filled = Tail(@)]
      /\ capture' = [capture EXCEPT !.at = "copy", !.held = b, !.seq = driver.content[b]]
      /\ device' = device /\ sample' = sample /\ camera' = camera /\ stats' = stats
  BY DEF Dequeue
<1>2. /\ driver.queued \in Seq(Buffers) /\ driver.filled \in Seq(Buffers)
      /\ driver.content \in [Buffers -> 0..MaxSeq] /\ driver.seq \in 0..MaxSeq
  BY <1>s DEF CaptureFields
<1>3. /\ b \in Buffers /\ Tail(driver.filled) \in Seq(Buffers)
      /\ ToSet(driver.filled) = ToSet(Tail(driver.filled)) \cup {b}
      /\ IsInjective(Tail(driver.filled)) /\ b \notin ToSet(Tail(driver.filled))
  BY <1>1, <1>2, <1>s, Shortened DEF OnePlace
<1>4. b \notin ToSet(driver.queued)
  BY <1>3, <1>s DEF OnePlace
<1>6. /\ driver'.on /\ driver'.queued = driver.queued /\ driver'.seq = driver.seq
      /\ driver'.filled = Tail(driver.filled) /\ driver'.content = driver.content
  BY <1>1, <1>s DEF CaptureFields
<1>7. /\ capture'.at = "copy" /\ capture'.last = capture.last /\ capture'.held = b
      /\ capture'.seq = driver.content[b]
  BY <1>1, <1>s DEF CaptureFields
<1>8. /\ Ascending(Tail(driver.filled), driver.content)
      /\ \A x \in ToSet(Tail(driver.filled)) : driver.content[b] < driver.content[x]
  <2>1. driver.content \in [Buffers -> Nat]
    BY <1>2
  <2> QED
    BY <2>1, <1>1, <1>2, <1>s, AscendingOff DEF FilledInOrder
<1>9. CaptureFields'
  <2>1. capture' \in [at : {"open", "clock", "stream", "copy", "requeue", "publish", "sleep", "done"},
                    opened : BOOLEAN, backoff : 0..BackoffSteps, last : -1..(SeqModulus - 1),
                    prior : 0..MaxSeq, held : Buffers \cup {NoBuffer}, seq : 0..MaxSeq,
                    gap : 0..(SeqModulus - 1)]
    <3>1. driver.content[b] \in 0..MaxSeq
      BY <1>2, <1>3
    <3> HIDE DEF b
    <3> QED
      BY <1>1, <1>3, <3>1, <1>s DEF CaptureFields
  <2>2. driver' \in [on : BOOLEAN, seq : 0..MaxSeq, queued : Seq(Buffers), filled : Seq(Buffers),
                   content : [Buffers -> 0..MaxSeq]]
    BY <1>1, <1>3, <1>s DEF CaptureFields
  <2> QED
    BY <1>1, <1>s, <2>1, <2>2 DEF CaptureFields
<1> HIDE DEF b
<1>10. OnePlace'
  BY <1>1, <1>3, <1>4, <1>6, <1>7, <1>s DEF OnePlace, Away
<1>11. FilledInOrder'
  BY <1>3, <1>6, <1>8, <1>s DEF FilledInOrder
<1>12. driver.content[b] \in 1..driver.seq
  BY <1>3, <1>s DEF FilledInOrder
<1>13. capture.last # -1 =>
         /\ sample.seq <= driver.seq /\ capture.last = sample.seq % SeqModulus
         /\ \A x \in ToSet(driver.filled) : driver.content[x] > sample.seq
  BY <1>1, <1>s DEF LastIsSampled
<1>14. sample.seq \in 0..MaxSeq
  BY <1>s DEF CaptureFields
<1>15. HeldIsNext'
  <2>1. \A x \in ToSet(Tail(driver.filled)) : driver.content[x] > driver.content[b]
    <3>1. ASSUME NEW x \in ToSet(Tail(driver.filled)) PROVE driver.content[x] > driver.content[b]
      <4>1. driver.content[x] \in 1..driver.seq
        BY <1>3, <1>s DEF FilledInOrder
      <4> QED
        BY <4>1, <1>8, <1>12, <1>2
    <3> QED
      BY <3>1
  <2>2. capture.last # -1 => sample.seq < driver.content[b]
    BY <1>2, <1>3, <1>12, <1>13, <1>14
  <2> QED
    BY <1>1, <1>6, <1>7, <1>12, <2>1, <2>2 DEF HeldIsNext
<1>16. LastIsSampled'
  BY <1>1, <1>3, <1>6, <1>7, <1>13 DEF LastIsSampled
<1> QED
  BY <1>1, <1>7, <1>9, <1>10, <1>11, <1>15, <1>16, <1>s DEF CaptureInv,
     CopiedIsSample, NoTornSample, GapsAreExact

\* What gap becomes is what was lost since the frame before.
LEMMA GapIsExact ==
    ASSUME NEW seq \in Nat, NEW before \in Nat, before < seq, seq - before < SeqModulus,
           capture.last = before % SeqModulus
    PROVE  Gap(seq) = seq - before - 1
<1> USE CaptureAssumption
<1>1. ((seq % SeqModulus) - (before % SeqModulus)) % SeqModulus = seq - before
  BY Wraps
<1>2. capture.last # -1
  BY SMT
<1>3. seq - before # 0
  OBVIOUS
<1> QED
  BY <1>1, <1>2, <1>3 DEF Gap, Minus1

\* A gap is a number of the counter's width.
LEMMA GapIsSmall == ASSUME NEW seq \in Nat, CaptureFields PROVE Gap(seq) \in 0..(SeqModulus - 1)
<1> USE CaptureAssumption
<1> DEFINE d == ((seq % SeqModulus) - capture.last) % SeqModulus
<1>1. capture.last \in Int
  BY DEF CaptureFields
<1>2. d \in 0..(SeqModulus - 1)
  BY <1>1
<1>3. Gap(seq) = IF capture.last = -1 THEN 0 ELSE Minus1(d)
  BY DEF Gap
<1> HIDE DEF d
<1> QED
  BY <1>2, <1>3 DEF Minus1

\* A sample is the frame of the buffer it was copied from, with the gap before it.
LEMMA CopyKeeps == ASSUME CaptureInv, Copy PROVE CaptureInv'
<1> USE CaptureAssumption
<1>s. CaptureFields /\ OnePlace /\ FilledInOrder /\ HeldIsNext /\ LastIsSampled /\ NoTornSample
  BY DEF CaptureInv
<1> DEFINE n == capture.seq
           l == n % SeqModulus
           p == IF capture.last = -1 THEN n - 1 ELSE sample.seq
<1>1. /\ capture.at = "copy" /\ driver' = driver
      /\ sample' = [seq |-> n, bytes |-> driver.content[capture.held]]
      /\ capture' = [capture EXCEPT !.at = "requeue", !.gap = Gap(n), !.last = l, !.prior = p]
      /\ device' = device /\ camera' = camera /\ stats' = stats
  BY DEF Copy
<1>2. /\ n \in 1..driver.seq /\ driver.content[capture.held] = n
      /\ \A b \in ToSet(driver.filled) : driver.content[b] > n
      /\ capture.last # -1 => sample.seq < n
  BY <1>1, <1>s DEF HeldIsNext
<1>3. /\ n \in 0..MaxSeq /\ driver.seq \in 0..MaxSeq /\ sample.seq \in 0..MaxSeq
      /\ capture.last \in -1..(SeqModulus - 1)
  BY <1>s DEF CaptureFields
<1>4. l \in 0..(SeqModulus - 1) /\ l \in -1..(SeqModulus - 1) /\ l # -1
  BY <1>3
<1>5. p \in 0..MaxSeq
  BY <1>2, <1>3
<1>6. Gap(n) \in 0..(SeqModulus - 1)
  BY <1>3, <1>s, GapIsSmall
<1>7. n - p < SeqModulus => Gap(n) = n - p - 1
  <2>1. CASE capture.last = -1
    BY <1>3, <2>1 DEF Gap
  <2>2. CASE capture.last # -1
    <3>1. p = sample.seq /\ p < n /\ p \in Nat /\ n \in Nat
      BY <1>2, <1>3, <2>2
    <3>2. capture.last = p % SeqModulus
      BY <1>1, <1>s, <2>2, <3>1 DEF LastIsSampled
    <3> HIDE DEF n, p
    <3> QED
      BY <3>1, <3>2, GapIsExact
  <2> QED
    BY <2>1, <2>2
<1> HIDE DEF n, l, p
<1>8. /\ capture'.at = "requeue" /\ capture'.last = l /\ capture'.held = capture.held
      /\ capture'.seq = capture.seq /\ capture'.prior = p /\ capture'.gap = Gap(n)
      /\ sample'.seq = n /\ sample'.bytes = n
  BY <1>1, <1>2, <1>s DEF CaptureFields
<1>9. CaptureFields'
  <2>1. capture' \in [at : {"open", "clock", "stream", "copy", "requeue", "publish", "sleep", "done"},
                    opened : BOOLEAN, backoff : 0..BackoffSteps, last : -1..(SeqModulus - 1),
                    prior : 0..MaxSeq, held : Buffers \cup {NoBuffer}, seq : 0..MaxSeq,
                    gap : 0..(SeqModulus - 1)]
    BY <1>1, <1>4, <1>5, <1>6, <1>s DEF CaptureFields
  <2>2. sample' \in [seq : 0..MaxSeq, bytes : 0..MaxSeq]
    BY <1>1, <1>2, <1>3
  <2> QED
    BY <1>1, <1>s, <2>1, <2>2 DEF CaptureFields
<1>10. OnePlace'
  BY <1>1, <1>8, <1>s DEF OnePlace, Away
<1>11. FilledInOrder' /\ HeldIsNext' /\ CopiedIsSample'
  BY <1>1, <1>4, <1>8, <1>s DEF FilledInOrder, HeldIsNext, CopiedIsSample, n
<1>12. LastIsSampled'
  <2>1. n <= driver.seq
    BY <1>2, <1>3
  <2> QED
    BY <1>1, <1>2, <1>8, <2>1 DEF LastIsSampled, l
<1>13. NoTornSample' /\ GapsAreExact'
  BY <1>7, <1>8 DEF NoTornSample, GapsAreExact, n
<1> QED
  BY <1>9, <1>10, <1>11, <1>12, <1>13 DEF CaptureInv

\* A buffer is given back only after its bytes were copied.
LEMMA RequeueKeeps == ASSUME CaptureInv, Requeue PROVE CaptureInv'
<1> USE CaptureAssumption
<1>s. CaptureFields /\ OnePlace /\ FilledInOrder /\ LastIsSampled /\ CopiedIsSample /\ NoTornSample
  BY DEF CaptureInv
<1> DEFINE b == capture.held
<1>1. /\ capture.at = "requeue"
      /\ driver' = IF driver.on THEN [driver EXCEPT !.queued = Append(@, b)] ELSE driver
      /\ capture' = [capture EXCEPT !.at = "publish", !.held = NoBuffer]
      /\ device' = device /\ stats' = stats /\ sample' = sample /\ camera' = camera
  BY DEF Requeue
<1>2. driver.queued \in Seq(Buffers)
  BY <1>s DEF CaptureFields
<1>3. b \in Buffers /\ b \notin ToSet(driver.queued) /\ b \notin ToSet(driver.filled)
  BY <1>1, <1>s DEF OnePlace, Away
<1>5. /\ Append(driver.queued, b) \in Seq(Buffers) /\ IsInjective(Append(driver.queued, b))
      /\ ToSet(Append(driver.queued, b)) = ToSet(driver.queued) \cup {b}
  BY <1>2, <1>3, <1>s, Appended DEF OnePlace
<1>6. /\ driver'.on = driver.on /\ driver'.seq = driver.seq /\ driver'.filled = driver.filled
      /\ driver'.content = driver.content
      /\ driver'.queued = IF driver.on THEN Append(driver.queued, b) ELSE driver.queued
  BY <1>1, <1>s DEF CaptureFields
<1>7. /\ capture'.at = "publish" /\ capture'.last = capture.last
  BY <1>1, <1>s DEF CaptureFields
<1>9. CaptureFields'
  <2>1. capture' \in [at : {"open", "clock", "stream", "copy", "requeue", "publish", "sleep", "done"},
                    opened : BOOLEAN, backoff : 0..BackoffSteps, last : -1..(SeqModulus - 1),
                    prior : 0..MaxSeq, held : Buffers \cup {NoBuffer}, seq : 0..MaxSeq,
                    gap : 0..(SeqModulus - 1)]
    BY <1>1, <1>s DEF CaptureFields
  <2>2. driver' \in [on : BOOLEAN, seq : 0..MaxSeq, queued : Seq(Buffers), filled : Seq(Buffers),
                   content : [Buffers -> 0..MaxSeq]]
    BY <1>1, <1>5, <1>s DEF CaptureFields
  <2> QED
    BY <1>1, <1>s, <2>1, <2>2 DEF CaptureFields
<1>10. OnePlace'
  <2> HIDE DEF b
  <2>1. driver.on => \A x \in Buffers : \/ x \in ToSet(driver.queued) \/ x \in ToSet(driver.filled)
                                        \/ x = b
    BY <1>1, <1>s DEF OnePlace, Away, b
  <2>2. CASE driver.on
    BY <1>3, <1>5, <1>6, <1>7, <1>s, <2>1, <2>2 DEF OnePlace, Away
  <2>3. CASE ~driver.on
    BY <1>6, <1>7, <1>s, <2>3 DEF OnePlace, Away
  <2> QED
    BY <2>2, <2>3
<1>11. FilledInOrder' /\ LastIsSampled'
  BY <1>1, <1>6, <1>7, <1>s DEF FilledInOrder, LastIsSampled
<1> QED
  BY <1>1, <1>7, <1>9, <1>10, <1>11, <1>s DEF CaptureInv, HeldIsNext, CopiedIsSample,
     NoTornSample, GapsAreExact

\* Publishing, sleeping and the shutdown move no buffer.
LEMMA RestKeeps == ASSUME CaptureInv, PublishFrame \/ SleepEnds \/ Shutdown PROVE CaptureInv'
<1> USE CaptureAssumption
<1>s. CaptureFields /\ OnePlace /\ FilledInOrder /\ LastIsSampled /\ NoTornSample
  BY DEF CaptureInv
<1>1. CASE PublishFrame
  <2>1. /\ capture.at = "publish" /\ capture' = [capture EXCEPT !.at = "stream"]
        /\ UNCHANGED <<device, driver, stats, sample, camera>>
    BY <1>1 DEF PublishFrame
  <2>2. capture'.at = "stream" /\ capture'.last = capture.last
    BY <2>1, <1>s DEF CaptureFields
  <2>3. CaptureFields'
    BY <2>1, <1>s DEF CaptureFields
  <2>4. OnePlace' /\ FilledInOrder' /\ LastIsSampled'
    BY <2>1, <2>2, <1>s DEF OnePlace, Away, FilledInOrder, LastIsSampled
  <2> QED
    BY <1>s, <2>1, <2>2, <2>3, <2>4 DEF CaptureInv, HeldIsNext, CopiedIsSample, NoTornSample, GapsAreExact
<1>2. CASE SleepEnds
  <2> DEFINE k == IF camera = "running" THEN Doubled ELSE capture.backoff
  <2>1. /\ capture.at = "sleep" /\ capture' = [capture EXCEPT !.at = "open", !.backoff = k]
        /\ UNCHANGED <<device, driver, stats, sample, camera>>
    BY <1>2 DEF SleepEnds
  <2>2. k \in 0..BackoffSteps
    <3>1. capture.backoff \in 0..BackoffSteps
      BY <1>s DEF CaptureFields
    <3> QED
      BY <3>1 DEF Doubled
  <2> HIDE DEF k
  <2>3. capture'.at = "open"
    BY <2>1, <1>s DEF CaptureFields
  <2>4. CaptureFields'
    BY <2>1, <2>2, <1>s DEF CaptureFields
  <2>5. OnePlace' /\ FilledInOrder'
    BY <2>1, <2>3, <1>s DEF OnePlace, Away, FilledInOrder
  <2> QED
    BY <1>s, <2>1, <2>3, <2>4, <2>5 DEF CaptureInv, HeldIsNext, LastIsSampled, CopiedIsSample,
       NoTornSample, GapsAreExact
<1>3. CASE Shutdown
  <2>1. camera' \in {"running", "stopping", "joined"} /\ UNCHANGED <<device, driver, capture, stats, sample>>
    BY <1>3 DEF Shutdown
  <2>2. CaptureFields'
    BY <2>1, <1>s DEF CaptureFields
  <2> QED
    BY <2>1, <2>2, NothingMoves
<1> QED
  BY <1>1, <1>2, <1>3

\* Every step of capture.rs and of the device keeps the capture invariant.
LEMMA CaptureSteps == CaptureInv /\ [CaptureNext]_captureVars => CaptureInv'
<1> SUFFICES ASSUME CaptureInv, [CaptureNext]_captureVars PROVE CaptureInv'
  OBVIOUS
<1>1. CASE UNCHANGED captureVars
  <2>1. CaptureFields' /\ UNCHANGED <<device, driver, capture, stats, sample, camera>>
    BY <1>1 DEF captureVars, CaptureInv, CaptureFields
  <2> QED
    BY <2>1, NothingMoves
<1>2. CASE CaptureNext
  BY <1>2, DeviceKeeps, FillsKeep, EndsKeep, StreamOnKeeps, ClockKeeps, DequeueKeeps, CopyKeeps,
     RequeueKeeps, RestKeeps
     DEF CaptureNext, CaptureThread, Opening, Streaming
<1> QED
  BY <1>1, <1>2

\* The parts of the run's statements about the capture thread.
LEMMA CaptureImplies == CaptureInv => CaptureTypeOK /\ NoTornSample /\ AllBuffersReturn /\ GapsAreExact
<1> SUFFICES ASSUME CaptureInv PROVE CaptureTypeOK /\ AllBuffersReturn
  BY DEF CaptureInv
<1>s. CaptureFields /\ OnePlace
  BY DEF CaptureInv
<1>0. /\ driver.queued \in Seq(Buffers) /\ driver.filled \in Seq(Buffers)
  BY <1>s DEF CaptureFields
<1>1. Len(driver.queued) + Len(driver.filled) <= Cardinality(Buffers)
  BY <1>0, <1>s, NoLonger, CaptureAssumption DEF OnePlace
<1>2. CaptureTypeOK
  BY <1>1, <1>s DEF CaptureFields, CaptureTypeOK
<1>3. AllBuffersReturn
  <2> SUFFICES ASSUME capture.at = "stream", driver.on
      PROVE  Cardinality(ToSet(driver.queued \o driver.filled)) = Cardinality(Buffers)
    BY DEF AllBuffersReturn
  <2>1. ToSet(driver.queued) \cup ToSet(driver.filled) = Buffers
    BY <1>0, <1>s, Members DEF OnePlace, Away
  <2>2. ToSet(driver.queued \o driver.filled) = ToSet(driver.queued) \cup ToSet(driver.filled)
    BY <1>0, Joined
  <2> QED
    BY <2>1, <2>2
<1> QED
  BY <1>2, <1>3

-----------------------------------------------------------------------------
(* A frame's way. *)

\* A stream that runs was granted as a consumer computes it; a whole frame of it is decoded.
FramesInv ==
    /\ cam \in Configs
    /\ stage = "streaming" => granted \in Grants /\ FormatFits(cam, granted)
    /\ WholeFramesDecode

\* Nothing is configured at the start.
LEMMA FramesStart == ASSUME FramesInit PROVE FramesInv
BY DEF FramesInit, FramesInv, WholeFramesDecode, NoShot

\* A format without a fixed length has none; every other has one.
LEMMA Lengths ==
    ASSUME NEW w \in Nat, NEW h \in Nat
    PROVE  /\ FrameLen("mjpeg", w, h) = -1
           /\ \A format \in Formats : format # "mjpeg" => FrameLen(format, w, h) \in Nat
<1> DEFINE n == w * h
<1>1. n \in Nat
  OBVIOUS
<1>2. FrameLen("yuyv", w, h) = n * 2 /\ FrameLen("nv12", w, h) = (n * 3) \div 2
  BY DEF FrameLen
<1> HIDE DEF n
<1>3. n * 2 \in Nat /\ (n * 3) \div 2 \in Nat
  BY <1>1
<1> QED
  BY <1>2, <1>3 DEF FrameLen, Formats

\* A configuration, a grant and a frame keep the frames' invariant.
LEMMA FramesStep == FramesInv /\ [FramesNext]_framesVars => FramesInv'
<1> SUFFICES ASSUME FramesInv, [FramesNext]_framesVars PROVE FramesInv'
  OBVIOUS
<1>1. CASE UNCHANGED framesVars
  BY <1>1 DEF FramesInv, framesVars, WholeFramesDecode
<1>2. CASE Configure
  <2>1. cam' = cam /\ shot' = shot /\ stage' # "streaming"
    BY <1>2 DEF Configure
  <2> QED
    BY <2>1 DEF FramesInv, WholeFramesDecode
<1>3. CASE Grant
  <2>1. PICK g \in Grants, interval \in BOOLEAN :
          /\ granted' = g
          /\ stage' = CASE ~FormatFits(cam, g) -> "misfit"
                        [] ~interval           -> "refused"
                        [] OTHER               -> "streaming"
    BY <1>3 DEF Grant
  <2>2. stage' = "streaming" => FormatFits(cam, g)
    BY <2>1
  <2> QED
    BY <1>3, <2>1, <2>2 DEF Grant, FramesInv, WholeFramesDecode
<1>4. CASE Deliver
  <2> DEFINE w == granted.width
             h == granted.height
  <2>1. cam \in Configs /\ granted \in Grants /\ FormatFits(cam, granted)
    BY <1>4 DEF Deliver, FramesInv
  <2>2. w \in Nat /\ h \in Nat /\ cam.format \in Formats
    BY <2>1, FramesAssumption DEF Grants, Configs
  <2>3. ASSUME shot'.whole PROVE shot'.decoded
    <3>1. CASE cam.format = "mjpeg"
      <4>1. PICK image \in Images :
              shot' = [bytes |-> image, length |-> Len(TrimJpeg(image)), whole |-> TRUE,
                       decoded |-> Decodes("mjpeg", w, h, Len(TrimJpeg(image)))]
        BY <1>4, <3>1 DEF Deliver
      <4>2. Decodes("mjpeg", w, h, Len(TrimJpeg(image)))
        BY <2>2, Lengths DEF Decodes
      <4> QED
        BY <4>1, <4>2
    <3>2. CASE cam.format # "mjpeg"
      <4>1. PICK whole \in BOOLEAN :
              LET used == IF whole THEN ImageSize(cam.format, granted) ELSE 1 IN
              shot' = [bytes |-> <<>>, length |-> used, whole |-> whole,
                       decoded |-> Decodes(cam.format, w, h, used)]
        BY <1>4, <3>2 DEF Deliver
      <4>2. whole
        BY <2>3, <4>1
      <4>3. shot'.decoded = Decodes(cam.format, w, h, ImageSize(cam.format, granted))
        BY <4>1, <4>2
      <4>4. FrameLen(cam.format, w, h) \in Nat
        BY <2>2, <3>2, Lengths
      <4>5. FrameLen(cam.format, w, h) >= 0
        BY <4>4
      <4>6. ImageSize(cam.format, granted) = FrameLen(cam.format, w, h)
        BY <2>1, <4>5 DEF FormatFits
      <4>7. Decodes(cam.format, w, h, ImageSize(cam.format, granted))
        BY <4>6 DEF Decodes
      <4> QED
        BY <4>3, <4>7
    <3> QED
      BY <3>1, <3>2
  <2> QED
    BY <1>4, <2>1, <2>3 DEF Deliver, FramesInv, WholeFramesDecode
<1> QED
  BY <1>1, <1>2, <1>3, <1>4 DEF FramesNext

-----------------------------------------------------------------------------
(* The recorder. *)

Writers == [at : {"asleep", "woken", "applying", "creating", "done"},
            stopping : BOOLEAN, gone : BOOLEAN, taken : Seq(Boundaries),
            batch : SUBSET Shots, episode : Episodes \cup {None}]

\* What a sink holds after an exposure is a frame.
ShotsReady == \A c \in Cams : sink[c].at \in {"exposed", "copied"} => sink[c].shot \in Shots

ArmStamp ==
    /\ arm.id <= budget.episodes
    /\ arm.t = IF arm.phase = "idle" THEN 2 * arm.id ELSE 2 * arm.id - 1
    /\ arm.phase # "idle" => arm.id >= 1

\* Where the writer is: outside a tick nothing is left of the last one.
WriterPlace ==
    /\ writer.at \in {"asleep", "done"} => writer.taken = <<>>
    /\ writer.at \in {"asleep", "woken", "done"} => writer.batch = {}
    /\ writer.at = "creating" =>
         writer.episode = None /\ writer.taken # <<>> /\ Head(writer.taken).kind = "start"

\* The file of the open episode is the one that is not closed.
OneOpenFile ==
    /\ writer.episode # None =>
         writer.episode.file \in 1..Len(files) /\ files[writer.episode.file].closed = "no"
    /\ \A f \in 1..Len(files) :
         files[f].closed = "no" => writer.episode # None /\ f = writer.episode.file

\* None is no boundary and no episode.
LEMMA Kinds == None \notin Boundaries /\ None \notin Episodes /\ MaxEpisodes \in Nat /\ MaxFrames \in Nat
<1>1. Boundaries \subseteq [kind : {"start", "end"}, id : Nat, t : Nat]
  BY RecorderAssumption DEF Boundaries, Stamps
<1>2. Episodes \subseteq [file : Nat, id : Nat, t : Nat, age : Nat]
  BY RecorderAssumption DEF Episodes, Stamps, Oldest
<1> QED
  BY <1>1, <1>2, RecorderAssumption

\* What a behaviour's bounds are.
LEMMA BudgetTyped ==
    ASSUME budget \in Budgets
    PROVE  budget.episodes \in 0..MaxEpisodes /\ budget.frames \in 0..MaxFrames
BY RecorderAssumption

\* A boundary that was published, or not.
LEMMA PublishedTyped ==
    ASSUME wire \in Seq(Boundaries), NEW b \in Boundaries, Published(b)
    PROVE  wire' \in Seq(Boundaries)
BY DEF Published

\* Logging adds frames of the batch to the file of the open episode, and nothing else.
LEMMA LoggedEffect ==
    ASSUME RecorderTypeOK, NEW e \in Episodes \cup {None}, NEW shots \in SUBSET Shots,
           e # None => e.file \in 1..Len(files)
    PROVE  LET new == Logged(e, shots) IN
           /\ new \in Seq(Files) /\ Len(new) = Len(files)
           /\ \A f \in 1..Len(files) :
                /\ new[f].closed = files[f].closed /\ files[f].shots \subseteq new[f].shots
                /\ e # None /\ f = e.file =>
                     \A x \in shots : x.t >= e.t => x.n \in new[f].shots
<1> DEFINE new == Logged(e, shots)
           more == {x.n : x \in {y \in shots : y.t >= e.t}}
<1>0. files \in Seq(Files)
  BY DEF RecorderTypeOK
<1>1. CASE e = None
  BY <1>0, <1>1 DEF Logged
<1>2. CASE e # None
  <2>1. e.file \in 1..Len(files) /\ new = [files EXCEPT ![e.file].shots = @ \cup more]
    BY <1>2 DEF Logged
  <2>2. more \subseteq 1..MaxFrames
    BY DEF Shots
  <2>3. \A x \in shots : x.t >= e.t => x.n \in more
    OBVIOUS
  <2> DEFINE g == files[e.file]
             k == [g EXCEPT !.shots = @ \cup more]
  <2>4. g \in Files
    BY <1>0, <2>1
  <2> HIDE DEF more, g
  <2>5. k \in Files /\ k.closed = g.closed /\ k.shots = g.shots \cup more
    BY <2>2, <2>4 DEF Files
  <2>6. new = [files EXCEPT ![e.file] = k]
    BY <2>1 DEF g
  <2> HIDE DEF k, new
  <2>7. new \in Seq(Files) /\ Len(new) = Len(files)
    BY <1>0, <2>1, <2>5, <2>6
  <2>8. new[e.file] = k /\ \A f \in 1..Len(files) : f # e.file => new[f] = files[f]
    BY <1>0, <2>1, <2>6
  <2>9. ASSUME NEW f \in 1..Len(files)
        PROVE  /\ new[f].closed = files[f].closed /\ files[f].shots \subseteq new[f].shots
               /\ f = e.file => \A x \in shots : x.t >= e.t => x.n \in new[f].shots
    BY <2>3, <2>5, <2>8 DEF g
  <2> QED
    BY <2>7, <2>9 DEF new
<1> QED
  BY <1>1, <1>2

\* Closing touches the file of the open episode alone.
LEMMA FinishEffect ==
    ASSUME NEW new \in Seq(Files), NEW why \in {"end", "start", "watch"},
           Finish(new, why), writer.episode # None => writer.episode.file \in 1..Len(new)
    PROVE  /\ files' \in Seq(Files) /\ Len(files') = Len(new)
           /\ \A f \in 1..Len(new) :
                /\ files'[f].shots = new[f].shots
                /\ files'[f].closed = IF writer.episode # None /\ f = writer.episode.file
                                      THEN why ELSE new[f].closed
           /\ open' = IF writer.episode = None THEN open ELSE FALSE
<1>0. open' = IF writer.episode = None THEN open ELSE FALSE
  BY DEF Finish
<1>1. CASE writer.episode = None
  BY <1>0, <1>1 DEF Finish
<1>2. CASE writer.episode # None
  <2> DEFINE i == writer.episode.file
             g == new[i]
             k == [g EXCEPT !.closed = why]
  <2>1. i \in 1..Len(new) /\ g \in Files /\ files' = [new EXCEPT ![i] = k]
    BY <1>2 DEF Finish
  <2> HIDE DEF g, i
  <2>2. k \in Files /\ k.closed = why /\ k.shots = g.shots
    BY <2>1 DEF Files
  <2> HIDE DEF k
  <2>3. files' \in Seq(Files) /\ Len(files') = Len(new)
    BY <2>1, <2>2
  <2>4. files'[i] = k /\ \A f \in 1..Len(new) : f # i => files'[f] = new[f]
    BY <2>1
  <2>5. \A f \in 1..Len(new) :
          /\ files'[f].shots = new[f].shots
          /\ files'[f].closed = IF f = i THEN why ELSE new[f].closed
    BY <2>2, <2>4 DEF g
  <2> QED
    BY <1>0, <1>2, <2>3, <2>5 DEF i
<1> QED
  BY <1>1, <1>2

\* What a step of the writer that logs `shots' does to the files; it may close the open one.
Logs(shots, closes, why) ==
    /\ files' \in Seq(Files) /\ Len(files') = Len(files)
    /\ \A f \in 1..Len(files) :
         /\ files[f].shots \subseteq files'[f].shots
         /\ writer.episode # None /\ f = writer.episode.file =>
              \A x \in shots : x.t >= writer.episode.t => x.n \in files'[f].shots
         /\ files'[f].closed = IF closes /\ writer.episode # None /\ f = writer.episode.file
                               THEN why ELSE files[f].closed

\* The writer is the record of its fields.
LEMMA WriterIs ==
    ASSUME RecorderTypeOK
    PROVE  /\ writer.at \in {"asleep", "woken", "applying", "creating", "done"}
           /\ writer.stopping \in BOOLEAN /\ writer.gone \in BOOLEAN
           /\ writer.taken \in Seq(Boundaries) /\ writer.batch \in SUBSET Shots
           /\ writer.episode \in Episodes \cup {None}
           /\ writer = [at |-> writer.at, stopping |-> writer.stopping, gone |-> writer.gone,
                        taken |-> writer.taken, batch |-> writer.batch, episode |-> writer.episode]
BY DEF RecorderTypeOK

\* log writes to the open file alone.
LEMMA JustLogs ==
    ASSUME RecorderTypeOK, OneOpenFile, NEW shots \in SUBSET Shots,
           files' = Logged(writer.episode, shots)
    PROVE  Logs(shots, FALSE, "end")
<1>1. writer.episode \in Episodes \cup {None} /\ (writer.episode # None => writer.episode.file \in 1..Len(files))
  BY WriterIs DEF OneOpenFile
<1> HIDE DEF RecorderTypeOK, OneOpenFile
<1> DEFINE new == Logged(writer.episode, shots)
<1>2. /\ new \in Seq(Files) /\ Len(new) = Len(files)
      /\ \A f \in 1..Len(files) :
                /\ new[f].closed = files[f].closed /\ files[f].shots \subseteq new[f].shots
                /\ writer.episode # None /\ f = writer.episode.file =>
                     \A x \in shots : x.t >= writer.episode.t => x.n \in new[f].shots
  BY <1>1, LoggedEffect
<1>3. files' = new
  OBVIOUS
<1> HIDE DEF new
<1> QED
  BY <1>2, <1>3 DEF Logs

\* finish writes the last frames to the open file and closes it.
LEMMA LogsAndCloses ==
    ASSUME RecorderTypeOK, OneOpenFile, NEW shots \in SUBSET Shots,
           NEW why \in {"end", "start", "watch"}, Finish(Logged(writer.episode, shots), why)
    PROVE  Logs(shots, TRUE, why) /\ open' = IF writer.episode = None THEN open ELSE FALSE
<1>1. writer.episode \in Episodes \cup {None} /\ (writer.episode # None => writer.episode.file \in 1..Len(files))
  BY WriterIs DEF OneOpenFile
<1> DEFINE new == Logged(writer.episode, shots)
<1>2. /\ new \in Seq(Files) /\ Len(new) = Len(files)
      /\ \A f \in 1..Len(files) :
                /\ new[f].closed = files[f].closed /\ files[f].shots \subseteq new[f].shots
                /\ writer.episode # None /\ f = writer.episode.file =>
                     \A x \in shots : x.t >= writer.episode.t => x.n \in new[f].shots
  BY <1>1, LoggedEffect
<1>3. Finish(new, why)
  OBVIOUS
<1> HIDE DEF new
<1>4. /\ files' \in Seq(Files) /\ Len(files') = Len(new)
      /\ \A f \in 1..Len(new) :
                /\ files'[f].shots = new[f].shots
                /\ files'[f].closed = IF writer.episode # None /\ f = writer.episode.file
                                      THEN why ELSE new[f].closed
      /\ open' = IF writer.episode = None THEN open ELSE FALSE
  BY <1>1, <1>2, <1>3, FinishEffect
<1> QED
  BY <1>2, <1>4 DEF Logs

\* The steps of a tick on the files, one by one.
LEMMA RefuseEffect ==
    ASSUME RecorderTypeOK, OneOpenFile, RefuseStart
    PROVE  LET event == Head(writer.taken) IN
           /\ writer.at = "applying" /\ writer.taken # <<>> /\ event.kind = "start"
           /\ Logs(Before(event), FALSE, "end")
           /\ open' = IF writer.episode = None THEN FALSE ELSE open
           /\ writer' = [at |-> "applying", stopping |-> writer.stopping, gone |-> writer.gone,
                         taken |-> Tail(writer.taken), batch |-> NotBefore(event),
                         episode |-> writer.episode]
<1>1. Before(Head(writer.taken)) \in SUBSET Shots
  BY WriterIs DEF Before
<1>2. files' = Logged(writer.episode, Before(Head(writer.taken)))
  BY DEF RefuseStart
<1>3. Logs(Before(Head(writer.taken)), FALSE, "end")
  BY <1>1, <1>2, JustLogs
<1> QED
  BY <1>3, WriterIs DEF RefuseStart

\* begin writes what came before the start, closes the open file, and opens the next.
LEMMA BeginEffect ==
    ASSUME RecorderTypeOK, OneOpenFile, BeginFinishes
    PROVE  LET event == Head(writer.taken) IN
           /\ writer.at = "applying" /\ writer.taken # <<>> /\ event.kind = "start"
           /\ Logs(Before(event), TRUE, "start")
           /\ open' = IF writer.episode = None THEN open ELSE FALSE
           /\ writer' = [at |-> "creating", stopping |-> writer.stopping, gone |-> writer.gone,
                         taken |-> writer.taken, batch |-> NotBefore(event), episode |-> None]
<1>1. Before(Head(writer.taken)) \in SUBSET Shots
  BY WriterIs DEF Before
<1>2. Finish(Logged(writer.episode, Before(Head(writer.taken))), "start")
  BY DEF BeginFinishes
<1>3. Logs(Before(Head(writer.taken)), TRUE, "start") /\ open' = IF writer.episode = None THEN open ELSE FALSE
  BY <1>1, <1>2, LogsAndCloses
<1> QED
  BY <1>3, WriterIs DEF BeginFinishes

\* end writes what came before it and closes the file of its own id.
LEMMA EndEffect ==
    ASSUME RecorderTypeOK, OneOpenFile, ApplyEnd
    PROVE  LET event == Head(writer.taken)
               its   == writer.episode # None /\ writer.episode.id = event.id IN
           /\ writer.at = "applying" /\ writer.taken # <<>> /\ event.kind = "end"
           /\ Logs(Before(event), its, "end")
           /\ open' = IF its THEN FALSE ELSE open
           /\ writer' = [at |-> "applying", stopping |-> writer.stopping, gone |-> writer.gone,
                         taken |-> Tail(writer.taken), batch |-> NotBefore(event),
                         episode |-> IF its THEN None ELSE writer.episode]
<1> DEFINE event == Head(writer.taken)
           its == writer.episode # None /\ writer.episode.id = event.id
<1>1. Before(event) \in SUBSET Shots
  BY WriterIs DEF Before
<1>2. writer.at = "applying" /\ writer.taken # <<>> /\ event.kind = "end"
  BY DEF ApplyEnd
<1>3. CASE its
  <2>1. Finish(Logged(writer.episode, Before(event)), "end")
    BY <1>3 DEF ApplyEnd
  <2>2. Logs(Before(event), TRUE, "end") /\ open' = IF writer.episode = None THEN open ELSE FALSE
    BY <1>1, <2>1, LogsAndCloses
  <2>3. writer' = [writer EXCEPT !.taken = Tail(@), !.batch = NotBefore(event), !.episode = None]
    BY <1>3 DEF ApplyEnd
  <2>4. Logs(Before(event), its, "end")
    BY <1>3, <2>2 DEF Logs
  <2> HIDE DEF event
  <2>5. writer' = [at |-> "applying", stopping |-> writer.stopping, gone |-> writer.gone,
                   taken |-> Tail(writer.taken), batch |-> NotBefore(event), episode |-> None]
    BY <1>2, <2>3, WriterIs
  <2> QED
    BY <1>2, <1>3, <2>2, <2>4, <2>5 DEF event
<1>4. CASE ~its
  <2>1. files' = Logged(writer.episode, Before(event)) /\ open' = open
    BY <1>4 DEF ApplyEnd
  <2>2. Logs(Before(event), FALSE, "end")
    BY <1>1, <2>1, JustLogs
  <2>3. writer' = [writer EXCEPT !.taken = Tail(@), !.batch = NotBefore(event)]
    BY <1>4 DEF ApplyEnd
  <2>4. Logs(Before(event), its, "end")
    BY <1>4, <2>2 DEF Logs
  <2> HIDE DEF event
  <2>5. writer' = [at |-> "applying", stopping |-> writer.stopping, gone |-> writer.gone,
                   taken |-> Tail(writer.taken), batch |-> NotBefore(event),
                   episode |-> writer.episode]
    BY <1>2, <2>3, WriterIs
  <2> QED
    BY <1>2, <1>4, <2>1, <2>4, <2>5 DEF event
<1> QED
  BY <1>3, <1>4

\* The rest of a tick logs what is left, or watch_the_arm or the stop closes the file.
LEMMA TickEffect ==
    ASSUME RecorderTypeOK, OneOpenFile, EndTick
    PROVE  \E closes \in BOOLEAN :
             /\ writer.at = "applying" /\ writer.taken = <<>>
             /\ (writer.stopping \/ writer.gone) /\ writer.episode # None => closes
             /\ closes => writer.episode # None
             /\ Logs(writer.batch, closes, "watch")
             /\ open' = IF closes THEN FALSE ELSE open
             /\ writer' = [at |-> IF writer.stopping \/ writer.gone THEN "done" ELSE "asleep",
                           stopping |-> writer.stopping, gone |-> writer.gone,
                           taken |-> writer.taken, batch |-> {},
                           episode |-> IF closes THEN None ELSE writer.episode]
<1> DEFINE last == writer.stopping \/ writer.gone
           at == IF last THEN "done" ELSE "asleep"
           closes == writer.episode # None /\ (Silent \/ Over \/ last)
<1>0. writer.at = "applying" /\ writer.taken = <<>> /\ closes \in BOOLEAN
  BY DEF EndTick
<1>1. writer.batch \in SUBSET Shots
  BY WriterIs
<1>3. CASE closes
  <2>1. Finish(Logged(writer.episode, writer.batch), "watch")
    BY <1>3 DEF EndTick
  <2>2. Logs(writer.batch, TRUE, "watch") /\ open' = IF writer.episode = None THEN open ELSE FALSE
    BY <1>1, <2>1, LogsAndCloses
  <2>3. writer' = [writer EXCEPT !.at = at, !.batch = {}, !.episode = None]
    BY <1>3 DEF EndTick
  <2> HIDE DEF at
  <2>5. writer' = [at |-> at, stopping |-> writer.stopping, gone |-> writer.gone,
                   taken |-> writer.taken, batch |-> {}, episode |-> None]
    BY <2>3, WriterIs
  <2> QED
    BY <1>0, <1>3, <2>2, <2>5 DEF at
<1>4. CASE ~closes
  <2>1. files' = Logged(writer.episode, writer.batch) /\ open' = open
    BY <1>4 DEF EndTick
  <2>2. Logs(writer.batch, FALSE, "end")
    BY <1>1, <2>1, JustLogs
  <2>3. writer' = [writer EXCEPT !.at = at, !.batch = {}]
    BY <1>4 DEF EndTick
  <2>4. Logs(writer.batch, FALSE, "watch")
    BY <2>2 DEF Logs
  <2> HIDE DEF at
  <2>5. writer' = [at |-> at, stopping |-> writer.stopping, gone |-> writer.gone,
                   taken |-> writer.taken, batch |-> {}, episode |-> writer.episode]
    BY <2>3, WriterIs
  <2> QED
    BY <1>0, <1>4, <2>1, <2>4, <2>5 DEF at
<1> QED
  BY <1>0, <1>3, <1>4

\* A good start whose file is created.
LEMMA CreateEffect ==
    ASSUME RecorderTypeOK, WriterPlace, BeginCreates
    PROVE  LET event == Head(writer.taken)
               e == [file |-> Len(files) + 1, id |-> event.id, t |-> event.t, age |-> 0]
               g == [id |-> event.id, t |-> event.t, shots |-> {}, closed |-> "no"] IN
           /\ writer.at = "creating" /\ writer.taken # <<>> /\ event \in Boundaries
           /\ g \in Files /\ files' = Append(files, g) /\ files' \in Seq(Files) /\ open'
           /\ e \in Episodes /\ e # None /\ e.file = Len(files) + 1 /\ e.id = event.id /\ e.t = event.t
           /\ writer' = [at |-> "applying", stopping |-> writer.stopping, gone |-> writer.gone,
                         taken |-> Tail(writer.taken), batch |-> writer.batch, episode |-> e]
<1> DEFINE event == Head(writer.taken)
           e == [file |-> Len(files) + 1, id |-> event.id, t |-> event.t, age |-> 0]
           g == [id |-> event.id, t |-> event.t, shots |-> {}, closed |-> "no"]
<1>1. writer.at = "creating" /\ files' = Append(files, g) /\ open' = TRUE
      /\ writer' = [writer EXCEPT !.at = "applying", !.taken = Tail(@), !.episode = e]
  BY DEF BeginCreates
<1>2. writer.taken # <<>> /\ event \in Boundaries
  BY <1>1, WriterIs DEF WriterPlace
<1> HIDE DEF event
<1>3. event.id \in 1..MaxEpisodes /\ event.t \in Stamps
  BY <1>2 DEF Boundaries
<1>4. files \in Seq(Files)
  BY DEF RecorderTypeOK
<1>5. Len(files) + 1 \in Nat \ {0}
  BY <1>4
<1>6. g \in Files
  BY <1>3 DEF Files
<1>7. e \in Episodes
  BY <1>3, <1>5, RecorderAssumption DEF Episodes, Oldest
<1>8. e # None /\ e.file = Len(files) + 1 /\ e.id = event.id /\ e.t = event.t
  BY <1>7, Kinds
<1> HIDE DEF e, g
<1>9. files' \in Seq(Files)
  BY <1>1, <1>4, <1>6
<1>10. writer' = [at |-> "applying", stopping |-> writer.stopping, gone |-> writer.gone,
                  taken |-> Tail(writer.taken), batch |-> writer.batch, episode |-> e]
  BY <1>1, WriterIs
<1> QED
  BY <1>1, <1>2, <1>6, <1>7, <1>8, <1>9, <1>10 DEF e, g, event

\* The rest of the writer's steps.
LEMMA WakeEffect ==
    ASSUME RecorderTypeOK, Wake
    PROVE  /\ writer.at = "asleep" /\ events' = <<>>
           /\ writer' = [at |-> "woken", stopping |-> (node = "stopping"), gone |-> writer.gone,
                         taken |-> events, batch |-> writer.batch, episode |-> writer.episode]
<1>1. writer' = [writer EXCEPT !.at = "woken", !.stopping = (node = "stopping"), !.taken = events]
  BY DEF Wake
<1> QED
  BY <1>1, WriterIs DEF Wake

\* drain moves the queue into the batch.
LEMMA DrainEffect ==
    ASSUME RecorderTypeOK, Drain
    PROVE  /\ writer.at = "woken" /\ queue' = <<>>
           /\ writer' = [at |-> "applying", stopping |-> writer.stopping, gone |-> AllSinksGone,
                         taken |-> writer.taken, batch |-> ToSet(queue),
                         episode |-> writer.episode]
<1>1. writer' = [writer EXCEPT !.at = "applying", !.batch = ToSet(queue), !.gone = AllSinksGone]
  BY DEF Drain
<1> QED
  BY <1>1, WriterIs DEF Drain

\* A file that cannot be created leaves the files alone.
LEMMA FailEffect ==
    ASSUME RecorderTypeOK, CreateFails
    PROVE  /\ writer.at = "creating" /\ open' = FALSE /\ files' = files
           /\ writer' = [at |-> "applying", stopping |-> writer.stopping, gone |-> writer.gone,
                         taken |-> Tail(writer.taken), batch |-> writer.batch,
                         episode |-> writer.episode]
<1>1. writer' = [writer EXCEPT !.at = "applying", !.taken = Tail(@)]
  BY DEF CreateFails
<1> QED
  BY <1>1, WriterIs DEF CreateFails

\* Time only makes the open episode older.
LEMMA TimeEffect ==
    ASSUME RecorderTypeOK, TimePasses
    PROVE  /\ writer'.at = writer.at /\ writer'.stopping = writer.stopping /\ writer'.gone = writer.gone
           /\ writer'.taken = writer.taken /\ writer'.batch = writer.batch
           /\ writer' \in Writers
           /\ writer'.episode = None <=> writer.episode = None
           /\ writer.episode # None => /\ writer'.episode.file = writer.episode.file
                                       /\ writer'.episode.id = writer.episode.id
                                       /\ writer'.episode.t = writer.episode.t
<1>1. CASE writer.episode = None
  BY <1>1, WriterIs DEF TimePasses, Writers
<1>2. CASE writer.episode # None
  <2> DEFINE e == writer.episode
             k == [e EXCEPT !.age = Older(@)]
  <2>1. e \in Episodes
    BY <1>2, WriterIs
  <2>2. writer' = [writer EXCEPT !.episode.age = Older(@)]
    BY <1>2 DEF TimePasses
  <2>3. writer' = [writer EXCEPT !.episode = k]
    BY <2>1, <2>2, WriterIs DEF Episodes
  <2>4. e.age \in 0..Oldest /\ Oldest \in Nat
    BY <2>1, RecorderAssumption DEF Episodes, Oldest
  <2>5. Older(e.age) \in 0..Oldest
    BY <2>4 DEF Older, Never
  <2>6. k \in Episodes /\ k.file = e.file /\ k.id = e.id /\ k.t = e.t
    BY <2>1, <2>5 DEF Episodes
  <2>7. k # None
    BY <2>6, Kinds
  <2> HIDE DEF k, e
  <2>8. writer' = [at |-> writer.at, stopping |-> writer.stopping, gone |-> writer.gone,
                   taken |-> writer.taken, batch |-> writer.batch, episode |-> k]
    BY <2>3, WriterIs
  <2>9. writer' \in Writers
    BY <2>6, <2>8, WriterIs DEF Writers
  <2> QED
    BY <1>2, <2>6, <2>7, <2>8, <2>9 DEF e
<1> QED
  BY <1>1, <1>2

\* The writer after each of its steps, field by field.
Becomes(at, stopping, gone, taken, batch, episode) ==
    /\ writer'.at = at /\ writer'.stopping = stopping /\ writer'.gone = gone
    /\ writer'.taken = taken /\ writer'.batch = batch /\ writer'.episode = episode

\* A record's fields, from the record.
LEMMA Fields ==
    ASSUME NEW at, NEW stopping, NEW gone, NEW taken, NEW batch, NEW episode,
           writer' = [at |-> at, stopping |-> stopping, gone |-> gone, taken |-> taken,
                      batch |-> batch, episode |-> episode]
    PROVE  Becomes(at, stopping, gone, taken, batch, episode)
BY DEF Becomes

\* What each step of the writer makes of its variables.
LEMMA WriterMoves ==
    ASSUME RecorderTypeOK, WriterPlace, OneOpenFile
    PROVE  LET event == Head(writer.taken) IN
           /\ Wake => Becomes("woken", node = "stopping", writer.gone, events, writer.batch, writer.episode)
           /\ Drain => Becomes("applying", writer.stopping, AllSinksGone, writer.taken, ToSet(queue),
                               writer.episode)
           /\ RefuseStart => Becomes("applying", writer.stopping, writer.gone, Tail(writer.taken),
                                     NotBefore(event), writer.episode)
           /\ BeginFinishes => Becomes("creating", writer.stopping, writer.gone, writer.taken,
                                       NotBefore(event), None)
           /\ CreateFails => Becomes("applying", writer.stopping, writer.gone, Tail(writer.taken),
                                     writer.batch, writer.episode)
           /\ ApplyEnd => Becomes("applying", writer.stopping, writer.gone, Tail(writer.taken),
                                  NotBefore(event),
                                  IF writer.episode # None /\ writer.episode.id = event.id
                                  THEN None ELSE writer.episode)
           /\ BeginCreates => \E e \in Episodes :
                /\ e.file = Len(files) + 1 /\ e.id = event.id /\ e.t = event.t
                /\ Becomes("applying", writer.stopping, writer.gone, Tail(writer.taken),
                           writer.batch, e)
           /\ EndTick => \E closes \in BOOLEAN :
                /\ writer.at = "applying" /\ writer.taken = <<>>
                /\ (writer.stopping \/ writer.gone) /\ writer.episode # None => closes
                /\ closes => writer.episode # None
                /\ Logs(writer.batch, closes, "watch")
                /\ open' = IF closes THEN FALSE ELSE open
                /\ Becomes(IF writer.stopping \/ writer.gone THEN "done" ELSE "asleep",
                           writer.stopping, writer.gone, writer.taken, {},
                           IF closes THEN None ELSE writer.episode)
<1> DEFINE event == Head(writer.taken)
<1>1. ASSUME Wake PROVE Becomes("woken", node = "stopping", writer.gone, events, writer.batch, writer.episode)
  <2> DEFINE stop == (node = "stopping")
  <2>1. writer' = [at |-> "woken", stopping |-> stop, gone |-> writer.gone,
                   taken |-> events, batch |-> writer.batch, episode |-> writer.episode]
    BY <1>1, WakeEffect
  <2> HIDE DEF stop
  <2>2. Becomes("woken", stop, writer.gone, events, writer.batch, writer.episode)
    BY <2>1, Fields
  <2> QED
    BY <2>2 DEF stop
<1>2. ASSUME Drain
      PROVE  Becomes("applying", writer.stopping, AllSinksGone, writer.taken, ToSet(queue), writer.episode)
  <2>1. writer' = [at |-> "applying", stopping |-> writer.stopping, gone |-> AllSinksGone,
                   taken |-> writer.taken, batch |-> ToSet(queue), episode |-> writer.episode]
    BY <1>2, DrainEffect
  <2> QED
    BY <2>1, Fields
<1>3. ASSUME RefuseStart
      PROVE  Becomes("applying", writer.stopping, writer.gone, Tail(writer.taken), NotBefore(event), writer.episode)
  <2>1. writer' = [at |-> "applying", stopping |-> writer.stopping, gone |-> writer.gone,
                   taken |-> Tail(writer.taken), batch |-> NotBefore(event), episode |-> writer.episode]
    BY <1>3, RefuseEffect
  <2> QED
    BY <2>1, Fields
<1>4. ASSUME BeginFinishes
      PROVE  Becomes("creating", writer.stopping, writer.gone, writer.taken, NotBefore(event), None)
  <2>1. writer' = [at |-> "creating", stopping |-> writer.stopping, gone |-> writer.gone,
                   taken |-> writer.taken, batch |-> NotBefore(event), episode |-> None]
    BY <1>4, BeginEffect
  <2> QED
    BY <2>1, Fields
<1>5. ASSUME CreateFails
      PROVE  Becomes("applying", writer.stopping, writer.gone, Tail(writer.taken), writer.batch, writer.episode)
  <2>1. writer' = [at |-> "applying", stopping |-> writer.stopping, gone |-> writer.gone,
                   taken |-> Tail(writer.taken), batch |-> writer.batch, episode |-> writer.episode]
    BY <1>5, FailEffect
  <2> QED
    BY <2>1, Fields
<1>6. ASSUME ApplyEnd
      PROVE  Becomes("applying", writer.stopping, writer.gone, Tail(writer.taken), NotBefore(event),
                     IF writer.episode # None /\ writer.episode.id = event.id THEN None ELSE writer.episode)
  <2> DEFINE e == IF writer.episode # None /\ writer.episode.id = event.id THEN None ELSE writer.episode
  <2>1. writer' = [at |-> "applying", stopping |-> writer.stopping, gone |-> writer.gone,
                   taken |-> Tail(writer.taken), batch |-> NotBefore(event), episode |-> e]
    BY <1>6, EndEffect
  <2> HIDE DEF e, event
  <2>2. Becomes("applying", writer.stopping, writer.gone, Tail(writer.taken), NotBefore(event), e)
    BY <2>1, Fields
  <2> QED
    BY <2>2 DEF e
<1>7. ASSUME BeginCreates
      PROVE  \E e \in Episodes :
               /\ e.file = Len(files) + 1 /\ e.id = event.id /\ e.t = event.t
               /\ Becomes("applying", writer.stopping, writer.gone, Tail(writer.taken), writer.batch, e)
  <2>1. PICK e \in Episodes :
          /\ e.file = Len(files) + 1 /\ e.id = event.id /\ e.t = event.t
          /\ writer' = [at |-> "applying", stopping |-> writer.stopping, gone |-> writer.gone,
                        taken |-> Tail(writer.taken), batch |-> writer.batch, episode |-> e]
    BY <1>7, CreateEffect
  <2>2. Becomes("applying", writer.stopping, writer.gone, Tail(writer.taken), writer.batch, e)
    BY <2>1, Fields
  <2> QED
    BY <2>1, <2>2
<1>8. ASSUME EndTick
      PROVE  \E closes \in BOOLEAN :
                /\ writer.at = "applying" /\ writer.taken = <<>>
                /\ (writer.stopping \/ writer.gone) /\ writer.episode # None => closes
                /\ closes => writer.episode # None
                /\ Logs(writer.batch, closes, "watch")
                /\ open' = IF closes THEN FALSE ELSE open
                /\ Becomes(IF writer.stopping \/ writer.gone THEN "done" ELSE "asleep",
                           writer.stopping, writer.gone, writer.taken, {},
                           IF closes THEN None ELSE writer.episode)
  <2> DEFINE at == IF writer.stopping \/ writer.gone THEN "done" ELSE "asleep"
  <2>1. PICK closes \in BOOLEAN :
             /\ writer.at = "applying" /\ writer.taken = <<>>
             /\ (writer.stopping \/ writer.gone) /\ writer.episode # None => closes
             /\ closes => writer.episode # None
             /\ Logs(writer.batch, closes, "watch")
             /\ open' = IF closes THEN FALSE ELSE open
             /\ writer' = [at |-> at,
                           stopping |-> writer.stopping, gone |-> writer.gone,
                           taken |-> writer.taken, batch |-> {},
                           episode |-> IF closes THEN None ELSE writer.episode]
    BY <1>8, TickEffect
  <2> DEFINE e == IF closes THEN None ELSE writer.episode
  <2>2. writer' = [at |-> at, stopping |-> writer.stopping, gone |-> writer.gone,
                   taken |-> writer.taken, batch |-> {}, episode |-> e]
    BY <2>1
  <2> HIDE DEF at, e
  <2>3. Becomes(at, writer.stopping, writer.gone, writer.taken, {}, e)
    BY <2>2, Fields
  <2> QED
    BY <2>1, <2>3 DEF at, e
<1> QED
  BY <1>1, <1>2, <1>3, <1>4, <1>5, <1>6, <1>7, <1>8

\* Which variables a step that is not the writer's leaves alone.
LEMMA Frames ==
    /\ ArmSteps => UNCHANGED <<budget, callback, open, events, clock, exposed, sink, queue, writer,
                               files, node, due>>
    /\ SinkSteps => UNCHANGED <<budget, arm, wire, callback, open, events, clock, writer, files,
                                node, due>>
    /\ TimePasses => UNCHANGED <<budget, arm, wire, callback, open, events, exposed, sink, queue,
                                 files, node, due>>
    /\ DeliverState => UNCHANGED <<budget, arm, wire, callback, open, events, exposed, sink, queue,
                                   writer, files, node, due>>
    /\ ShutDown => UNCHANGED <<budget, arm, wire, callback, open, events, clock, exposed, sink,
                               queue, writer, files, due>>
BY DEF ArmSteps, ArmStarts, ArmRuns, ArmEnds, ArmDies, SinkSteps, Expose, SinkLooks, SinkSends,
       CameraEnds, TimePasses, DeliverState, ShutDown

\* The arm keeps its types and stamps.
LEMMA ArmTyped ==
    ASSUME RecorderTypeOK, ArmStamp, ArmSteps
    PROVE  /\ arm' \in [phase : {"idle", "starting", "active", "stopping", "dead"},
                         id : 0..MaxEpisodes, t : Stamps]
           /\ wire' \in Seq(Boundaries) /\ ArmStamp'
<1>1. /\ budget' = budget /\ budget \in Budgets /\ wire \in Seq(Boundaries)
      /\ arm \in [phase : {"idle", "starting", "active", "stopping", "dead"},
                   id : 0..MaxEpisodes, t : Stamps]
  BY Frames DEF RecorderTypeOK
<1>2. budget.episodes \in 0..MaxEpisodes /\ MaxEpisodes \in Nat
  BY <1>1, BudgetTyped, RecorderAssumption
<1>3. /\ arm.id \in 0..MaxEpisodes /\ arm.id <= budget.episodes
      /\ arm.t = IF arm.phase = "idle" THEN 2 * arm.id ELSE 2 * arm.id - 1
      /\ arm.phase # "idle" => arm.id >= 1
  BY <1>1 DEF ArmStamp
<1>4. CASE ArmStarts
  <2>1. /\ arm.phase = "idle" /\ arm.id < budget.episodes
        /\ arm' = [phase |-> "starting", id |-> arm.id + 1, t |-> arm.t + 1]
        /\ Published(Start(arm.id + 1, arm.t + 1))
    BY <1>4 DEF ArmStarts
  <2>2. arm.id + 1 \in 1..MaxEpisodes /\ arm.t + 1 = 2 * (arm.id + 1) - 1 /\ arm.t + 1 \in Stamps
    BY <1>2, <1>3, <2>1 DEF Stamps
  <2>3. Start(arm.id + 1, arm.t + 1) \in Boundaries
    BY <2>2 DEF Start, Boundaries
  <2>4. wire' \in Seq(Boundaries)
    BY <1>1, <2>1, <2>3, PublishedTyped
  <2>5. ArmStamp'
    BY <1>1, <1>2, <1>3, <2>1, <2>2 DEF ArmStamp
  <2> QED
    BY <1>2, <2>1, <2>2, <2>4, <2>5
<1>5. CASE ArmRuns
  <2>1. /\ arm.phase \in {"starting", "active"} /\ wire' = wire
        /\ arm' = [arm EXCEPT !.phase = "active"] \/ arm' = [arm EXCEPT !.phase = "stopping"]
    BY <1>5 DEF ArmRuns
  <2>2. /\ arm'.id = arm.id /\ arm'.t = arm.t /\ arm'.phase \in {"active", "stopping"}
        /\ arm' \in [phase : {"idle", "starting", "active", "stopping", "dead"},
                      id : 0..MaxEpisodes, t : Stamps]
    <3>1. CASE arm' = [arm EXCEPT !.phase = "active"]
      BY <1>1, <3>1
    <3>2. CASE arm' = [arm EXCEPT !.phase = "stopping"]
      BY <1>1, <3>2
    <3> QED
      BY <2>1, <3>1, <3>2
  <2>3. ArmStamp'
    BY <1>1, <1>3, <2>1, <2>2 DEF ArmStamp
  <2> QED
    BY <1>1, <2>1, <2>2, <2>3
<1>6. CASE ArmEnds
  <2>1. /\ arm.phase = "stopping" /\ Published(End(arm.id, arm.t + 1))
        /\ arm' = [arm EXCEPT !.phase = "idle", !.t = @ + 1]
    BY <1>6 DEF ArmEnds
  <2>2. arm.id \in 1..MaxEpisodes /\ arm.t + 1 = 2 * arm.id /\ arm.t + 1 \in Stamps
    BY <1>2, <1>3, <2>1 DEF Stamps
  <2>3. End(arm.id, arm.t + 1) \in Boundaries
    BY <2>2 DEF End, Boundaries
  <2>4. wire' \in Seq(Boundaries)
    BY <1>1, <2>1, <2>3, PublishedTyped
  <2>5. /\ arm'.phase = "idle" /\ arm'.id = arm.id /\ arm'.t = arm.t + 1
        /\ arm' \in [phase : {"idle", "starting", "active", "stopping", "dead"},
                      id : 0..MaxEpisodes, t : Stamps]
    BY <1>1, <2>1, <2>2
  <2>6. ArmStamp'
    BY <1>1, <1>3, <2>2, <2>5 DEF ArmStamp
  <2> QED
    BY <2>4, <2>5, <2>6
<1>7. CASE ArmDies
  <2>1. /\ arm.phase = "active" /\ arm' = [arm EXCEPT !.phase = "dead"] /\ wire' = wire
    BY <1>7 DEF ArmDies
  <2>2. /\ arm'.id = arm.id /\ arm'.t = arm.t /\ arm'.phase = "dead"
        /\ arm' \in [phase : {"idle", "starting", "active", "stopping", "dead"},
                      id : 0..MaxEpisodes, t : Stamps]
    BY <1>1, <2>1
  <2>3. ArmStamp'
    BY <1>1, <1>3, <2>1, <2>2 DEF ArmStamp
  <2> QED
    BY <1>1, <2>1, <2>2, <2>3
<1> QED
  BY <1>4, <1>5, <1>6, <1>7 DEF ArmSteps

\* The sinks keep their types, and a frame is there when one is under way.
LEMMA SinksTyped ==
    ASSUME RecorderTypeOK, ShotsReady, SinkSteps
    PROVE  /\ exposed' \in 0..MaxFrames
           /\ sink' \in [Cams -> [at : {"idle", "exposed", "copied", "gone"}, shot : Shots \cup {None}]]
           /\ queue' \in Seq(Shots) /\ Len(queue') <= QueueFrames /\ ShotsReady'
           /\ ToSet(queue) \subseteq ToSet(queue')
<1> DEFINE Sinks == [at : {"idle", "exposed", "copied", "gone"}, shot : Shots \cup {None}]
<1>1. /\ budget \in Budgets /\ exposed \in 0..MaxFrames /\ sink \in [Cams -> Sinks]
      /\ queue \in Seq(Shots) /\ Len(queue) <= QueueFrames /\ arm.t \in Stamps
      /\ \A c \in Cams : sink[c].at \in {"exposed", "copied"} => sink[c].shot \in Shots
  BY DEF RecorderTypeOK, ShotsReady
<1>2. PICK c \in Cams : Expose(c) \/ SinkLooks(c) \/ SinkSends(c) \/ CameraEnds(c)
  BY DEF SinkSteps
<1>3. CASE Expose(c)
  <2> DEFINE k == [at |-> "exposed", shot |-> Shot(exposed + 1, arm.t)]
  <2>1. exposed < budget.frames /\ exposed' = exposed + 1 /\ queue' = queue
        /\ sink' = [sink EXCEPT ![c] = k]
    BY <1>3 DEF Expose
  <2>2. budget.frames \in 0..MaxFrames /\ MaxFrames \in Nat
    BY <1>1, BudgetTyped, RecorderAssumption
  <2>3. exposed + 1 \in 1..MaxFrames
    BY <1>1, <2>1, <2>2
  <2>4. Shot(exposed + 1, arm.t) \in Shots
    BY <1>1, <2>3 DEF Shot, Shots
  <2>5. k \in Sinks /\ k.shot \in Shots
    BY <2>4
  <2> HIDE DEF k
  <2>6. sink' \in [Cams -> Sinks] /\ sink'[c] = k /\ \A d \in Cams : d # c => sink'[d] = sink[d]
    BY <1>1, <2>1, <2>5
  <2>7. ShotsReady'
    BY <1>1, <2>5, <2>6 DEF ShotsReady
  <2> QED
    BY <1>1, <2>1, <2>3, <2>6, <2>7
<1>4. CASE SinkLooks(c)
  <2> DEFINE k == IF open THEN [sink[c] EXCEPT !.at = "copied"] ELSE [at |-> "idle", shot |-> None]
  <2>1. sink[c].at = "exposed" /\ exposed' = exposed /\ queue' = queue /\ sink' = [sink EXCEPT ![c] = k]
    BY <1>4 DEF SinkLooks
  <2>2. sink[c] \in Sinks /\ sink[c].shot \in Shots
    BY <1>1, <2>1
  <2>3. k \in Sinks /\ (k.at \in {"exposed", "copied"} => k.shot \in Shots)
    BY <2>2
  <2> HIDE DEF k
  <2>4. sink' \in [Cams -> Sinks] /\ sink'[c] = k /\ \A d \in Cams : d # c => sink'[d] = sink[d]
    BY <1>1, <2>1, <2>3
  <2>5. ShotsReady'
    BY <1>1, <2>3, <2>4 DEF ShotsReady
  <2> QED
    BY <1>1, <2>1, <2>4, <2>5
<1>5. ASSUME NEW k, k \in Sinks, k.at \in {"idle", "gone"}, sink' = [sink EXCEPT ![c] = k]
      PROVE  sink' \in [Cams -> Sinks] /\ ShotsReady'
  <2>1. sink' \in [Cams -> Sinks] /\ sink'[c] = k /\ \A d \in Cams : d # c => sink'[d] = sink[d]
    BY <1>1, <1>5
  <2> QED
    BY <1>1, <1>5, <2>1 DEF ShotsReady
<1>6. CASE SinkSends(c)
  <2>1. sink[c].at = "copied" /\ exposed' = exposed /\ sink' = [sink EXCEPT ![c] = [at |-> "idle", shot |-> None]]
        /\ queue' = IF Len(queue) < QueueFrames /\ writer.at # "done"
                    THEN Append(queue, sink[c].shot) ELSE queue
    BY <1>6 DEF SinkSends
  <2>2. sink[c].shot \in Shots
    BY <1>1, <2>1
  <2>3. CASE Len(queue) < QueueFrames /\ writer.at # "done"
    <3>1. queue' = Append(queue, sink[c].shot)
      BY <2>1, <2>3
    <3>2. queue' \in Seq(Shots) /\ ToSet(queue') = ToSet(queue) \cup {sink[c].shot}
      BY <1>1, <2>2, <3>1, Appended
    <3>3. Len(queue') = Len(queue) + 1 /\ Len(queue) \in Nat
      BY <1>1, <3>1
    <3>4. Len(queue') <= QueueFrames
      BY <2>3, <3>3, RecorderAssumption
    <3> QED
      BY <1>1, <1>5, <2>1, <3>2, <3>4
  <2>4. CASE ~(Len(queue) < QueueFrames /\ writer.at # "done")
    BY <1>1, <1>5, <2>1, <2>4
  <2> QED
    BY <2>3, <2>4
<1>7. CASE CameraEnds(c)
  <2>1. exposed' = exposed /\ queue' = queue /\ sink' = [sink EXCEPT ![c] = [at |-> "gone", shot |-> None]]
    BY <1>7 DEF CameraEnds
  <2> QED
    BY <1>1, <1>5, <2>1
<1> QED
  BY <1>2, <1>3, <1>4, <1>6, <1>7

\* Clock::observe and the passing of time keep the ages within the bounds.
LEMMA ClockTyped ==
    ASSUME RecorderTypeOK, DeliverState \/ TimePasses
    PROVE  clock' \in [state : Ages, running : Ages, stateT : Stamps, idle : BOOLEAN]
<1>1. /\ clock \in [state : Ages, running : Ages, stateT : Stamps, idle : BOOLEAN]
      /\ arm.t \in Stamps
  BY DEF RecorderTypeOK
<1>2. Oldest \in Nat /\ Ages = -1..Oldest /\ 0 \in Stamps /\ 0 \in Ages
  BY RecorderAssumption DEF Oldest, Ages, Never, Stamps
<1>3. CASE DeliverState
  <2>1. clock' = Observed(arm.phase = "active")
    BY <1>3 DEF DeliverState
  <2> DEFINE s == IF clock.running = Never THEN arm.t ELSE 0
             r == IF arm.phase = "active" THEN 0 ELSE clock.running
  <2>2. s \in Stamps /\ r \in Ages
    BY <1>1, <1>2
  <2>3. clock' = [state |-> 0, idle |-> ~(arm.phase = "active"), stateT |-> s, running |-> r]
    BY <2>1 DEF Observed
  <2> HIDE DEF s, r
  <2>4. (~(arm.phase = "active")) \in BOOLEAN
    OBVIOUS
  <2> QED
    BY <1>2, <2>2, <2>3, <2>4
<1>4. CASE TimePasses
  <2>1. clock' = [clock EXCEPT !.state = Older(@), !.running = Older(@)]
    BY <1>4 DEF TimePasses
  <2>2. \A a \in Ages : Older(a) \in Ages
    BY <1>2 DEF Older, Never
  <2>3. Older(clock.state) \in Ages /\ Older(clock.running) \in Ages
    BY <1>1, <2>2
  <2> QED
    BY <1>1, <2>1, <2>3
<1> QED
  BY <1>3, <1>4

\* A full queue refuses a frame.
LEMMA QueueTaken ==
    ASSUME NEW s \in Seq(Boundaries), s # <<>>
    PROVE  Head(s) \in Boundaries /\ Tail(s) \in Seq(Boundaries) /\ ToSet(s) = ToSet(Tail(s)) \cup {Head(s)}
BY Shortened

\* The callbacks of the episode topic.
LEMMA CallbackEffect ==
    ASSUME RecorderTypeOK, DeliverStart \/ PushStart \/ DeliverEnd
    PROVE  /\ UNCHANGED <<budget, arm, clock, exposed, sink, queue, writer, files, node>>
           /\ wire' \in Seq(Boundaries) /\ events' \in Seq(Boundaries)
           /\ callback' \in Boundaries \cup {None} /\ open' \in BOOLEAN
           /\ ToSet(wire') \subseteq ToSet(wire) /\ ToSet(events) \subseteq ToSet(events')
<1>1. /\ wire \in Seq(Boundaries) /\ events \in Seq(Boundaries)
      /\ callback \in Boundaries \cup {None} /\ open \in BOOLEAN
  BY DEF RecorderTypeOK
<1>2. CASE DeliverStart
  BY <1>1, <1>2, QueueTaken DEF DeliverStart
<1>3. CASE PushStart
  <2>1. callback \in Boundaries /\ events' = Append(events, callback) /\ callback' = None /\ wire' = wire
        /\ open' = open
    BY <1>1, <1>3 DEF PushStart
  <2>2. Append(events, callback) \in Seq(Boundaries) /\ ToSet(events) \subseteq ToSet(Append(events, callback))
    BY <1>1, <2>1, Appended
  <2> QED
    BY <1>1, <1>3, <2>1, <2>2 DEF PushStart
<1>4. CASE DeliverEnd
  <2>1. /\ wire # <<>> /\ events' = Append(events, Head(wire)) /\ wire' = Tail(wire)
        /\ callback' = callback /\ open' = open
    BY <1>4 DEF DeliverEnd
  <2>2. Head(wire) \in Boundaries /\ Tail(wire) \in Seq(Boundaries) /\ ToSet(Tail(wire)) \subseteq ToSet(wire)
    BY <1>1, <2>1, QueueTaken
  <2>3. Append(events, Head(wire)) \in Seq(Boundaries) /\ ToSet(events) \subseteq ToSet(Append(events, Head(wire)))
    BY <1>1, <2>2, Appended
  <2> QED
    BY <1>1, <1>4, <2>1, <2>2, <2>3 DEF DeliverEnd
<1> QED
  BY <1>2, <1>3, <1>4

\* The writer keeps its types.
LEMMA WriterTyped ==
    ASSUME RecorderTypeOK, WriterPlace, OneOpenFile, WriterSteps
    PROVE  /\ UNCHANGED <<budget, arm, wire, callback, clock, exposed, sink, node, due>>
           /\ writer' \in Writers /\ files' \in Seq(Files) /\ open' \in BOOLEAN
           /\ events' \in {events, <<>>} /\ queue' \in {queue, <<>>}
<1>0. /\ events \in Seq(Boundaries) /\ queue \in Seq(Shots) /\ open \in BOOLEAN /\ files \in Seq(Files)
  BY DEF RecorderTypeOK
<1>1. UNCHANGED <<budget, arm, wire, callback, clock, exposed, sink, node, due>>
  BY DEF WriterSteps, Apply, Wake, Drain, RefuseStart, BeginFinishes, BeginCreates, CreateFails, ApplyEnd, EndTick
<1>2. CASE Wake
  <2>1. writer' \in Writers
    <3> DEFINE stop == (node = "stopping")
    <3>1. stop \in BOOLEAN
      OBVIOUS
    <3>2. writer' = [at |-> "woken", stopping |-> stop, gone |-> writer.gone,
                     taken |-> events, batch |-> writer.batch, episode |-> writer.episode]
      BY <1>2, WakeEffect
    <3> HIDE DEF stop
    <3> QED
      BY <1>0, <3>1, <3>2, WriterIs DEF Writers
  <2> QED
    BY <1>0, <1>1, <1>2, <2>1 DEF Wake
<1>3. CASE Drain
  <2>1. ToSet(queue) \subseteq Shots /\ AllSinksGone \in BOOLEAN
    BY <1>0, Members DEF AllSinksGone
  <2>2. writer' \in Writers
    BY <1>3, <2>1, DrainEffect, WriterIs DEF Writers
  <2> QED
    BY <1>0, <1>1, <1>3, <2>2 DEF Drain
<1>4. \A e : NotBefore(e) \in SUBSET Shots
  BY WriterIs DEF NotBefore
<1>5. CASE RefuseStart
  <2>1. /\ writer.taken # <<>> /\ files' \in Seq(Files) /\ open' \in BOOLEAN
        /\ writer' = [at |-> "applying", stopping |-> writer.stopping, gone |-> writer.gone,
                       taken |-> Tail(writer.taken), batch |-> NotBefore(Head(writer.taken)),
                       episode |-> writer.episode]
    BY <1>0, <1>5, RefuseEffect DEF Logs
  <2>2. writer' \in Writers
    BY <1>4, <2>1, QueueTaken, WriterIs DEF Writers
  <2> QED
    BY <1>1, <1>5, <2>1, <2>2 DEF RefuseStart
<1>6. CASE BeginFinishes
  <2>1. /\ files' \in Seq(Files) /\ open' \in BOOLEAN
        /\ writer' = [at |-> "creating", stopping |-> writer.stopping, gone |-> writer.gone,
                         taken |-> writer.taken, batch |-> NotBefore(Head(writer.taken)), episode |-> None]
    BY <1>0, <1>6, BeginEffect DEF Logs
  <2>2. writer' \in Writers
    BY <1>4, <2>1, WriterIs DEF Writers
  <2> QED
    BY <1>1, <1>6, <2>1, <2>2 DEF BeginFinishes
<1>7. CASE BeginCreates
  <2>1. writer.taken # <<>> /\ files' \in Seq(Files) /\ open' \in BOOLEAN
    BY <1>7, CreateEffect DEF BeginCreates
  <2>2. PICK e \in Episodes : writer' = [at |-> "applying", stopping |-> writer.stopping, gone |-> writer.gone,
                         taken |-> Tail(writer.taken), batch |-> writer.batch, episode |-> e]
    BY <1>7, CreateEffect
  <2>3. writer' \in Writers
    BY <2>1, <2>2, QueueTaken, WriterIs DEF Writers
  <2> QED
    BY <1>1, <1>7, <2>1, <2>3 DEF BeginCreates
<1>8. CASE CreateFails
  <2>1. writer.taken # <<>>
    BY <1>8 DEF WriterPlace, CreateFails
  <2>2. writer' \in Writers
    <3>1. Tail(writer.taken) \in Seq(Boundaries)
      BY <2>1, QueueTaken, WriterIs
    <3>2. writer' = [at |-> "applying", stopping |-> writer.stopping, gone |-> writer.gone,
                     taken |-> Tail(writer.taken), batch |-> writer.batch,
                     episode |-> writer.episode]
      BY <1>8, FailEffect
    <3> QED
      BY <3>1, <3>2, WriterIs DEF Writers
  <2> QED
    BY <1>0, <1>1, <1>8, <2>2 DEF CreateFails
<1>9. CASE ApplyEnd
  <2> DEFINE its == writer.episode # None /\ writer.episode.id = Head(writer.taken).id
             e == IF its THEN None ELSE writer.episode
  <2>1. /\ writer.taken # <<>> /\ files' \in Seq(Files) /\ open' \in BOOLEAN
        /\ writer' = [at |-> "applying", stopping |-> writer.stopping, gone |-> writer.gone,
                       taken |-> Tail(writer.taken), batch |-> NotBefore(Head(writer.taken)), episode |-> e]
    BY <1>0, <1>9, EndEffect DEF Logs
  <2>2. e \in Episodes \cup {None}
    BY WriterIs
  <2> HIDE DEF e
  <2>3. writer' \in Writers
    BY <1>4, <2>1, <2>2, QueueTaken, WriterIs DEF Writers
  <2> QED
    BY <1>1, <1>9, <2>1, <2>3 DEF ApplyEnd
<1>10. CASE EndTick
  <2>1. PICK closes \in BOOLEAN :
             /\ Logs(writer.batch, closes, "watch")
             /\ open' = IF closes THEN FALSE ELSE open
             /\ writer' = [at |-> IF writer.stopping \/ writer.gone THEN "done" ELSE "asleep",
                           stopping |-> writer.stopping, gone |-> writer.gone,
                           taken |-> writer.taken, batch |-> {},
                           episode |-> IF closes THEN None ELSE writer.episode]
    BY <1>10, TickEffect
  <2>2. writer' \in Writers /\ files' \in Seq(Files) /\ open' \in BOOLEAN
    BY <1>0, <2>1, WriterIs DEF Writers, Logs
  <2> QED
    BY <1>1, <1>10, <2>2 DEF EndTick
<1> QED
  BY <1>2, <1>3, <1>5, <1>6, <1>7, <1>8, <1>9, <1>10 DEF WriterSteps, Apply

\* Every step keeps the types and the stamps.
LEMMA TypeStep ==
    ASSUME RecorderTypeOK, ShotsReady, ArmStamp, WriterPlace, OneOpenFile, RecorderNext
    PROVE  RecorderTypeOK' /\ ShotsReady' /\ ArmStamp'
<1>1. CASE ArmSteps
  BY <1>1, ArmTyped, Frames DEF RecorderTypeOK, ShotsReady
<1>2. CASE DeliverStart \/ PushStart \/ DeliverEnd
  BY <1>2, CallbackEffect DEF RecorderTypeOK, ShotsReady, ArmStamp
<1>3. CASE DeliverState
  BY <1>3, ClockTyped, Frames DEF RecorderTypeOK, ShotsReady, ArmStamp
<1>4. CASE TimePasses
  <2>1. writer' \in Writers
    BY <1>4, TimeEffect
  <2> QED
    BY <1>4, <2>1, ClockTyped, Frames DEF RecorderTypeOK, ShotsReady, ArmStamp, Writers
<1>5. CASE SinkSteps
  BY <1>5, SinksTyped, Frames DEF RecorderTypeOK, ArmStamp
<1>6. CASE WriterSteps
  <2>1. events' \in Seq(Boundaries) /\ queue' \in Seq(Shots) /\ Len(queue') <= QueueFrames
    <3>1. events \in Seq(Boundaries) /\ queue \in Seq(Shots) /\ Len(queue) <= QueueFrames
      BY DEF RecorderTypeOK
    <3>2. <<>> \in Seq(Boundaries) /\ <<>> \in Seq(Shots) /\ Len(<<>>) = 0 /\ 0 <= QueueFrames
      BY RecorderAssumption
    <3> QED
      BY <1>6, <3>1, <3>2, WriterTyped
  <2> QED
    BY <1>6, <2>1, WriterTyped DEF RecorderTypeOK, ShotsReady, ArmStamp, Writers
<1>7. CASE ShutDown
  <2>1. node' \in {"running", "closing", "stopping", "down"}
    BY <1>7 DEF ShutDown
  <2> QED
    BY <1>7, <2>1, Frames DEF RecorderTypeOK, ShotsReady, ArmStamp
<1> QED
  BY <1>1, <1>2, <1>3, <1>4, <1>5, <1>6, <1>7 DEF RecorderNext, Callbacks

\* Of a step that is none of the writer's, only time touches the writer, and it the age alone.
LEMMA OthersSpareTheWriter ==
    ASSUME RecorderTypeOK, ArmSteps \/ Callbacks \/ TimePasses \/ SinkSteps \/ ShutDown
    PROVE  /\ writer'.at = writer.at /\ writer'.stopping = writer.stopping /\ writer'.gone = writer.gone
           /\ writer'.taken = writer.taken /\ writer'.batch = writer.batch
           /\ writer'.episode = None <=> writer.episode = None
           /\ writer.episode # None => /\ writer'.episode.file = writer.episode.file
                                       /\ writer'.episode.id = writer.episode.id
                                       /\ writer'.episode.t = writer.episode.t
           /\ files' = files
<1>1. CASE TimePasses
  BY <1>1, TimeEffect, Frames
<1>2. CASE ArmSteps \/ Callbacks \/ SinkSteps \/ ShutDown
  BY <1>2, CallbackEffect, Frames DEF Callbacks
<1> QED
  BY <1>1, <1>2

\* The writer stays in the place its fields say, with at most one open file.
LEMMA PlaceStep ==
    ASSUME RecorderTypeOK, WriterPlace, OneOpenFile, RecorderNext
    PROVE  WriterPlace' /\ OneOpenFile'
<1>1. CASE ArmSteps \/ Callbacks \/ TimePasses \/ SinkSteps \/ ShutDown
  BY <1>1, OthersSpareTheWriter DEF WriterPlace, OneOpenFile
<1>2. ASSUME NEW shots, NEW why, NEW closes \in BOOLEAN, Logs(shots, closes, why), why # "no",
             closes => writer'.episode = None,
             ~closes => writer'.episode = writer.episode
      PROVE  OneOpenFile'
  BY <1>2 DEF Logs, OneOpenFile
<1>3. CASE Wake
  <2>1. files' = files
    BY <1>3 DEF Wake
  <2> QED
    BY <1>3, <2>1, WakeEffect DEF WriterPlace, OneOpenFile
<1>4. CASE Drain
  <2>1. files' = files
    BY <1>4 DEF Drain
  <2> QED
    BY <1>4, <2>1, DrainEffect DEF WriterPlace, OneOpenFile
<1>5. CASE RefuseStart
  <2>1. WriterPlace'
    BY <1>5, RefuseEffect DEF WriterPlace
  <2>2. Logs(Before(Head(writer.taken)), FALSE, "end") /\ writer'.episode = writer.episode
    BY <1>5, RefuseEffect, WriterMoves DEF Becomes
  <2>3. OneOpenFile'
    BY <2>2 DEF Logs, OneOpenFile
  <2> QED
    BY <2>1, <2>3
<1>6. CASE BeginFinishes
  <2>1. WriterPlace'
    BY <1>6, BeginEffect DEF WriterPlace
  <2>2. Logs(Before(Head(writer.taken)), TRUE, "start") /\ writer'.episode = None
    BY <1>6, BeginEffect, WriterMoves DEF Becomes
  <2>3. OneOpenFile'
    BY <2>2 DEF Logs, OneOpenFile
  <2> QED
    BY <2>1, <2>3
<1>7. CASE BeginCreates
  <2>1. WriterPlace'
    BY <1>7, CreateEffect DEF WriterPlace
  <2>2. PICK e \in Episodes, g \in Files :
          /\ writer'.episode = e /\ e.file = Len(files) + 1 /\ files' = Append(files, g)
          /\ g.closed = "no"
    BY <1>7, CreateEffect
  <2>3. writer.episode = None /\ files \in Seq(Files)
    BY <1>7 DEF WriterPlace, BeginCreates, RecorderTypeOK
  <2>4. /\ Len(files') = Len(files) + 1 /\ Len(files) \in Nat
        /\ \A f \in 1..Len(files) : files'[f] = files[f]
        /\ files'[Len(files) + 1].closed = "no"
    BY <2>2, <2>3
  <2>5. \A f \in 1..Len(files) : files[f].closed # "no"
    BY <2>3 DEF OneOpenFile
  <2>6. \A f \in 1..(Len(files) + 1) : f \in 1..Len(files) \/ f = Len(files) + 1
    BY <2>4
  <2>7. Len(files) + 1 \in 1..(Len(files) + 1)
    BY <2>4
  <2>8. e # None
    BY Kinds
  <2>9. OneOpenFile'
    BY <2>2, <2>4, <2>5, <2>6, <2>7, <2>8 DEF OneOpenFile
  <2> QED
    BY <2>1, <2>9
<1>8. CASE CreateFails
  BY <1>8, FailEffect DEF WriterPlace, OneOpenFile
<1>9. CASE ApplyEnd
  <2>1. WriterPlace'
    BY <1>9, EndEffect DEF WriterPlace
  <2> DEFINE its == writer.episode # None /\ writer.episode.id = Head(writer.taken).id
  <2>2. /\ Logs(Before(Head(writer.taken)), its, "end") /\ its \in BOOLEAN
        /\ writer'.episode = IF its THEN None ELSE writer.episode
    BY <1>9, EndEffect
  <2>3. OneOpenFile'
    BY <1>2, <2>2
  <2> QED
    BY <2>1, <2>3
<1>10. CASE EndTick
  <2>1. PICK closes \in BOOLEAN :
             /\ writer.taken = <<>>
             /\ Logs(writer.batch, closes, "watch")
             /\ writer' = [at |-> IF writer.stopping \/ writer.gone THEN "done" ELSE "asleep",
                           stopping |-> writer.stopping, gone |-> writer.gone,
                           taken |-> writer.taken, batch |-> {},
                           episode |-> IF closes THEN None ELSE writer.episode]
    BY <1>10, TickEffect
  <2>2. writer'.episode = IF closes THEN None ELSE writer.episode
    BY <2>1
  <2>3. OneOpenFile'
    BY <1>2, <2>1, <2>2
  <2>4. WriterPlace'
    BY <2>1 DEF WriterPlace
  <2> QED
    BY <2>3, <2>4
<1> QED
  BY <1>1, <1>3, <1>4, <1>5, <1>6, <1>7, <1>8, <1>9, <1>10 DEF RecorderNext, WriterSteps, Apply

-----------------------------------------------------------------------------
(* The flag, the shutdown and the order of boundaries. *)

StartsComing == \E event \in ToSet(events) \cup ToSet(writer.taken) : event.kind = "start"

\* Only a start waits in the callback.
StartWaits == callback # None => callback.kind = "start"

\* The sinks are armed while an episode is under way.
LEMMA FlagStep ==
    ASSUME RecorderTypeOK, WriterPlace, OneOpenFile, SinksFollowEpisode, StartWaits, RecorderNext
    PROVE  SinksFollowEpisode' /\ StartWaits'
<1>w. StartWaits'
  <2>1. \/ callback' = callback \/ callback' = None
        \/ callback' = Head(wire) /\ Head(wire).kind = "start"
    BY DEF RecorderNext, ArmSteps, ArmStarts, ArmRuns, ArmEnds, ArmDies, Callbacks, DeliverStart,
           PushStart, DeliverEnd, DeliverState, TimePasses, SinkSteps, Expose, SinkLooks, SinkSends,
           CameraEnds, ShutDown, WriterSteps, Wake, Drain, Apply, RefuseStart, BeginFinishes,
           BeginCreates, CreateFails, ApplyEnd, EndTick
  <2> QED
    BY <2>1 DEF StartWaits
<1>s. /\ writer.episode # None => open
      /\ open => writer.episode # None \/ callback # None \/ StartsComing
  BY DEF SinksFollowEpisode, StartsComing
<1>t. /\ events \in Seq(Boundaries) /\ wire \in Seq(Boundaries) /\ writer.taken \in Seq(Boundaries)
      /\ callback \in Boundaries \cup {None}
  BY WriterIs DEF RecorderTypeOK
<1> SUFFICES /\ writer'.episode # None => open'
             /\ open' => \/ writer'.episode # None \/ callback' # None
                         \/ \E event \in ToSet(events') \cup ToSet(writer'.taken) : event.kind = "start"
  BY <1>w DEF SinksFollowEpisode
<1>1. CASE ArmSteps \/ TimePasses \/ SinkSteps \/ ShutDown \/ DeliverState
  <2>1. UNCHANGED <<open, callback, events>>
    BY <1>1, Frames
  <2>2. writer'.taken = writer.taken /\ (writer'.episode = None <=> writer.episode = None)
    BY <1>1, OthersSpareTheWriter DEF Callbacks
  <2> QED
    BY <1>s, <2>1, <2>2 DEF StartsComing
<1>2. CASE DeliverStart
  <2>1. open' = TRUE /\ callback' = Head(wire) /\ writer' = writer /\ Head(wire) \in Boundaries
    BY <1>2, <1>t, QueueTaken DEF DeliverStart
  <2> QED
    BY <2>1, Kinds
<1>3. CASE PushStart
  <2> USE <1>3
  <2>1. UNCHANGED <<open, writer>> /\ callback \in Boundaries /\ events' = Append(events, callback)
    BY <1>t DEF PushStart
  <2>2. ToSet(events') = ToSet(events) \cup {callback}
    BY <1>t, <2>1, Appended
  <2>3. callback.kind = "start"
    BY <2>1, Kinds DEF StartWaits
  <2> QED
    BY <1>s, <2>1, <2>2, <2>3
<1>4. CASE DeliverEnd
  <2>1. UNCHANGED <<open, writer, callback>>
    BY <1>4 DEF DeliverEnd
  <2>2. ToSet(events) \subseteq ToSet(events')
    BY <1>4, CallbackEffect
  <2> QED
    BY <1>s, <2>1, <2>2 DEF StartsComing
<1>5. CASE Wake
  <2>1. /\ writer.taken = <<>> /\ writer'.taken = events /\ events' = <<>>
        /\ writer'.episode = writer.episode
    BY <1>5, WakeEffect DEF WriterPlace
  <2>2. open' = open /\ callback' = callback
    BY <1>5 DEF Wake
  <2>3. ToSet(writer.taken) = {}
    BY <2>1, Nobody
  <2> QED
    BY <1>s, <2>1, <2>2, <2>3 DEF StartsComing
<1>6. CASE Drain
  <2>1. writer'.taken = writer.taken /\ writer'.episode = writer.episode
    BY <1>6, DrainEffect
  <2>2. UNCHANGED <<open, callback, events>>
    BY <1>6 DEF Drain
  <2> QED
    BY <1>s, <2>1, <2>2 DEF StartsComing
<1>7. CASE RefuseStart
  <2>1. /\ open' = IF writer.episode = None THEN FALSE ELSE open
        /\ writer'.episode = writer.episode
    BY <1>7, RefuseEffect, WriterMoves DEF Becomes
  <2> QED
    BY <1>s, <2>1
<1>8. CASE BeginFinishes
  <2>1. /\ open' = IF writer.episode = None THEN open ELSE FALSE
        /\ writer'.episode = None /\ writer'.taken = writer.taken
    BY <1>8, BeginEffect, WriterMoves DEF Becomes
  <2>2. UNCHANGED <<callback, events>>
    BY <1>8 DEF BeginFinishes
  <2> QED
    BY <1>s, <2>1, <2>2 DEF StartsComing
<1>9. CASE BeginCreates
  <2>1. open' = TRUE /\ \E e \in Episodes : writer'.episode = e
    BY <1>9, CreateEffect DEF BeginCreates
  <2> QED
    BY <2>1, Kinds
<1>10. CASE CreateFails
  BY <1>10, FailEffect DEF WriterPlace
<1>11. CASE ApplyEnd
  <2> DEFINE its == writer.episode # None /\ writer.episode.id = Head(writer.taken).id
  <2>1. /\ writer.taken # <<>> /\ Head(writer.taken).kind = "end"
        /\ open' = IF its THEN FALSE ELSE open
        /\ writer'.episode = IF its THEN None ELSE writer.episode
        /\ writer'.taken = Tail(writer.taken)
    BY <1>11, EndEffect, WriterMoves DEF Becomes
  <2>2. UNCHANGED <<callback, events>>
    BY <1>11 DEF ApplyEnd
  <2>3. ToSet(writer.taken) = ToSet(Tail(writer.taken)) \cup {Head(writer.taken)}
    BY <1>t, <2>1, QueueTaken
  <2>4. StartsComing => \E event \in ToSet(events') \cup ToSet(writer'.taken) : event.kind = "start"
    BY <2>1, <2>2, <2>3 DEF StartsComing
  <2>5. CASE its
    BY <2>1, <2>5
  <2>6. CASE ~its
    BY <1>s, <2>1, <2>2, <2>4, <2>6
  <2> QED
    BY <2>5, <2>6
<1>12. CASE EndTick
  <2>1. PICK closes \in BOOLEAN :
             /\ closes => writer.episode # None
             /\ open' = IF closes THEN FALSE ELSE open
             /\ writer'.episode = IF closes THEN None ELSE writer.episode
             /\ writer'.taken = writer.taken
    BY <1>12, WriterMoves DEF Becomes
  <2>2. UNCHANGED <<callback, events>>
    BY <1>12 DEF EndTick
  <2> QED
    BY <1>s, <2>1, <2>2 DEF StartsComing
<1> QED
  BY <1>1, <1>2, <1>3, <1>4, <1>5, <1>6, <1>7, <1>8, <1>9, <1>10, <1>11, <1>12
     DEF RecorderNext, Callbacks, WriterSteps, Apply

\* Cameras are gone for good, before the recorder is told to stop; what it drains after that is
\* all there is.
SinksEnd ==
    /\ node \in {"stopping", "down"} => AllSinksGone
    /\ writer.stopping \/ writer.gone => AllSinksGone
    /\ writer.at \in {"applying", "creating"} /\ (writer.stopping \/ writer.gone) => queue = <<>>
    /\ writer.at = "done" => queue = <<>> /\ writer.episode = None

\* A sink that is gone sends nothing more.
LEMMA GoneForGood ==
    ASSUME RecorderTypeOK, AllSinksGone, SinkSteps
    PROVE  AllSinksGone' /\ queue' = queue
<1>1. PICK c \in Cams : Expose(c) \/ SinkLooks(c) \/ SinkSends(c) \/ CameraEnds(c)
  BY DEF SinkSteps
<1>2. sink[c].at = "gone"
  BY DEF AllSinksGone
<1> QED
  BY <1>1, <1>2 DEF Expose, SinkLooks, SinkSends, CameraEnds

\* A writer that saw every sink gone finds the queue empty for good.
LEMMA SinksEndStep ==
    ASSUME RecorderTypeOK, WriterPlace, OneOpenFile, SinksEnd, RecorderNext
    PROVE  SinksEnd'
<1>1. CASE ArmSteps \/ Callbacks \/ TimePasses
  <2>1. UNCHANGED <<sink, queue, node>>
    BY <1>1, Frames, CallbackEffect DEF Callbacks
  <2>2. /\ writer'.at = writer.at /\ writer'.stopping = writer.stopping /\ writer'.gone = writer.gone
        /\ writer'.episode = None <=> writer.episode = None
    BY <1>1, OthersSpareTheWriter
  <2> QED
    BY <2>1, <2>2 DEF SinksEnd, AllSinksGone
<1>2. CASE SinkSteps
  <2>1. writer' = writer /\ node' = node
    BY <1>2, Frames
  <2>2. CASE AllSinksGone
    BY <1>2, <2>1, <2>2, GoneForGood DEF SinksEnd
  <2>3. CASE ~AllSinksGone
    <3>1. node \notin {"stopping", "down"} /\ ~writer.stopping /\ ~writer.gone
      BY <2>3 DEF SinksEnd
    <3>2. writer.at = "done" => queue' = queue
      BY <1>2 DEF SinkSteps, Expose, SinkLooks, SinkSends, CameraEnds
    <3> QED
      BY <2>1, <3>1, <3>2 DEF SinksEnd
  <2> QED
    BY <2>2, <2>3
<1>3. CASE ShutDown
  <2>1. UNCHANGED <<sink, queue, writer>>
    BY <1>3, Frames
  <2>2. node' \in {"stopping", "down"} => AllSinksGone
    BY <1>3 DEF ShutDown, SinksEnd
  <2> QED
    BY <2>1, <2>2 DEF SinksEnd, AllSinksGone
<1>4. CASE WriterSteps
  <2>0. /\ node' = node /\ sink' = sink /\ (AllSinksGone' <=> AllSinksGone)
        /\ queue' \in {queue, <<>>}
    BY <1>4, WriterTyped DEF AllSinksGone
  <2>1. CASE Wake
    <3>1. writer'.at = "woken" /\ (writer'.stopping => node = "stopping") /\ writer'.gone = writer.gone
      BY <2>1, WriterMoves DEF Becomes
    <3> QED
      BY <2>0, <3>1 DEF SinksEnd
  <2>2. CASE Drain
    <3>1. /\ writer'.at = "applying" /\ writer'.stopping = writer.stopping /\ (writer'.gone <=> AllSinksGone)
          /\ queue' = <<>>
      BY <2>2, DrainEffect, WriterMoves DEF Becomes
    <3> QED
      BY <2>0, <3>1 DEF SinksEnd
  <2>3. CASE Apply
    <3>1. /\ writer.at \in {"applying", "creating"} /\ writer'.at \in {"applying", "creating"}
          /\ writer'.stopping = writer.stopping /\ writer'.gone = writer.gone
      BY <2>3, WriterMoves DEF Becomes, Apply, RefuseStart, BeginFinishes, BeginCreates, CreateFails, ApplyEnd
    <3> QED
      BY <2>0, <3>1 DEF SinksEnd
  <2>4. CASE EndTick
    <3>1. PICK closes \in BOOLEAN :
             /\ writer.at = "applying"
             /\ (writer.stopping \/ writer.gone) /\ writer.episode # None => closes
             /\ writer'.at = IF writer.stopping \/ writer.gone THEN "done" ELSE "asleep"
             /\ writer'.stopping = writer.stopping /\ writer'.gone = writer.gone
             /\ writer'.episode = IF closes THEN None ELSE writer.episode
      BY <2>4, WriterMoves DEF Becomes
    <3> QED
      BY <2>0, <3>1 DEF SinksEnd
  <2> QED
    BY <1>4, <2>1, <2>2, <2>3, <2>4 DEF WriterSteps
<1> QED
  BY <1>1, <1>2, <1>3, <1>4 DEF RecorderNext

\* Boundaries come in the order of their stamps, an end with its session's.
StampOf(b) == b.t = IF b.kind = "start" THEN 2 * b.id - 1 ELSE 2 * b.id

OnTheWay == ToSet(wire) \cup ToSet(events) \cup ToSet(writer.taken) \cup ({callback} \ {None})

InOrder ==
    /\ \A b \in OnTheWay : b.t <= arm.t /\ StampOf(b)
    /\ \A i, j \in 1..Len(wire) : i < j => wire[i].t < wire[j].t
    /\ \A b \in ToSet(wire), c \in (ToSet(events) \cup ToSet(writer.taken) \cup ({callback} \ {None})) :
         c.t < b.t

\* The first of a growing list is before the rest.
LEMMA FirstIsLeast ==
    ASSUME NEW s \in Seq(Boundaries), s # <<>>, \A i, j \in 1..Len(s) : i < j => s[i].t < s[j].t
    PROVE  /\ \A b \in ToSet(Tail(s)) : Head(s).t < b.t
           /\ \A i, j \in 1..Len(Tail(s)) : i < j => Tail(s)[i].t < Tail(s)[j].t
<1> DEFINE r == Tail(s)
<1>1. Head(s) = s[1] /\ Len(r) = Len(s) - 1 /\ Len(s) \in Nat /\ Len(s) >= 1
  OBVIOUS
<1>2. \A i \in 1..Len(r) : r[i] = s[i + 1]
  OBVIOUS
<1>3. DOMAIN r = 1..Len(r)
  OBVIOUS
<1> HIDE DEF r
<1>4. \A i \in 1..Len(r) : i + 1 \in 1..Len(s) /\ 1 < i + 1 /\ 1 \in 1..Len(s)
  BY <1>1
<1>5. \A i, j \in 1..Len(r) : i < j => i + 1 < j + 1
  BY <1>1
<1>6. \A i, j \in 1..Len(r) : i < j => r[i].t < r[j].t
  BY <1>2, <1>4, <1>5
<1>7. \A i \in 1..Len(r) : s[1].t < r[i].t
  BY <1>2, <1>4
<1> QED
  BY <1>1, <1>3, <1>6, <1>7 DEF ToSet, r

\* One more at the end of a growing list.
LEMMA LastIsMost ==
    ASSUME NEW s \in Seq(Boundaries), NEW b \in Boundaries, NEW t \in Int, t < b.t,
           \A c \in ToSet(s) : c.t <= t,
           \A i, j \in 1..Len(s) : i < j => s[i].t < s[j].t
    PROVE  \A i, j \in 1..Len(Append(s, b)) : i < j => Append(s, b)[i].t < Append(s, b)[j].t
<1> DEFINE r == Append(s, b)
           n == Len(s)
<1>1. Len(r) = n + 1 /\ n \in Nat /\ DOMAIN s = 1..n
  OBVIOUS
<1>2. \A i \in 1..n : r[i] = s[i] /\ s[i] \in ToSet(s) /\ s[i] \in Boundaries
  BY <1>1 DEF ToSet
<1>3. r[n + 1] = b
  OBVIOUS
<1>4. \A i, j \in 1..n : i < j => s[i].t < s[j].t
  OBVIOUS
<1> HIDE DEF r, n
<1>5. \A i \in 1..n : s[i].t \in Nat /\ b.t \in Nat
  BY <1>2, RecorderAssumption DEF Boundaries, Stamps
<1>6. \A i \in 1..n : s[i].t < b.t
  BY <1>2, <1>5
<1>7. ASSUME NEW i \in 1..(n + 1), NEW j \in 1..(n + 1), i < j PROVE r[i].t < r[j].t
  <2>1. i \in 1..n /\ (j \in 1..n \/ j = n + 1)
    BY <1>1, <1>7
  <2> QED
    BY <1>2, <1>3, <1>4, <1>6, <1>7, <2>1
<1> QED
  BY <1>1, <1>7 DEF r

\* Boundaries keep the order of their stamps on every stretch of the way.
LEMMA OrderStep ==
    ASSUME RecorderTypeOK, ArmStamp, WriterPlace, OneOpenFile, InOrder, RecorderNext
    PROVE  InOrder'
<1>t. /\ events \in Seq(Boundaries) /\ wire \in Seq(Boundaries) /\ writer.taken \in Seq(Boundaries)
      /\ callback \in Boundaries \cup {None} /\ arm.t \in Stamps
  BY WriterIs DEF RecorderTypeOK
<1>0. arm.t \in Nat /\ \A b \in Boundaries : b.t \in Nat
  BY <1>t, RecorderAssumption DEF Boundaries, Stamps
<1>m. OnTheWay \subseteq Boundaries
  BY <1>t, Members DEF OnTheWay
\* What neither publishes nor adds keeps the order.
<1>k. ASSUME arm'.t = arm.t, wire' = wire,
             (ToSet(events') \cup ToSet(writer'.taken) \cup ({callback'} \ {None}))
                \subseteq (ToSet(events) \cup ToSet(writer.taken) \cup ({callback} \ {None}))
      PROVE  InOrder'
  BY <1>k DEF InOrder, OnTheWay
<1>1. CASE TimePasses \/ SinkSteps \/ ShutDown \/ DeliverState
  <2>1. UNCHANGED <<arm, wire, events, callback>>
    BY <1>1, Frames
  <2>2. writer'.taken = writer.taken
    BY <1>1, OthersSpareTheWriter DEF Callbacks
  <2> QED
    BY <1>k, <2>1, <2>2
<1>2. CASE ArmSteps
  <2>1. UNCHANGED <<events, callback, writer>>
    BY <1>2, Frames
  <2>2. ASSUME NEW b, b \in Boundaries, StampOf(b), b.t = arm.t + 1, arm'.t = arm.t + 1, Published(b)
        PROVE  InOrder'
    <3>1. CASE wire' = wire
      BY <1>0, <1>m, <2>1, <2>2, <3>1 DEF InOrder, OnTheWay, StampOf
    <3>2. CASE wire' = Append(wire, b)
      <4>1. ToSet(wire') = ToSet(wire) \cup {b}
        BY <1>t, <2>2, <3>2, Appended
      <4>2. \A c \in ToSet(wire) : c.t <= arm.t
        BY DEF InOrder, OnTheWay
      <4>3. \A i, j \in 1..Len(wire') : i < j => wire'[i].t < wire'[j].t
        <5>1. arm.t \in Int /\ arm.t < b.t
          BY <1>0, <2>2
        <5>2. \A i, j \in 1..Len(wire) : i < j => wire[i].t < wire[j].t
          BY DEF InOrder
        <5> QED
          BY <1>t, <2>2, <3>2, <4>2, <5>1, <5>2, LastIsMost
      <4>4. \A c \in OnTheWay' : c \in OnTheWay \/ c = b
        BY <2>1, <4>1 DEF OnTheWay
      <4>5. \A c \in OnTheWay : c.t <= arm.t /\ StampOf(c) /\ c.t \in Nat
        BY <1>0, <1>m DEF InOrder
      <4>6. \A c \in OnTheWay' : c.t <= arm'.t /\ StampOf(c)
        BY <1>0, <2>2, <4>4, <4>5
      <4>7. \A x \in ToSet(wire'), c \in (ToSet(events') \cup ToSet(writer'.taken) \cup ({callback'} \ {None})) :
              c.t < x.t
        <5>1. \A c \in (ToSet(events) \cup ToSet(writer.taken) \cup ({callback} \ {None})) : c \in OnTheWay
          BY DEF OnTheWay
        <5>2. \A c \in (ToSet(events) \cup ToSet(writer.taken) \cup ({callback} \ {None})) : c.t < b.t
          BY <1>0, <2>2, <4>5, <5>1
        <5> QED
          BY <2>1, <4>1, <5>2 DEF InOrder
      <4> QED
        BY <4>3, <4>6, <4>7 DEF InOrder, StampOf
    <3> QED
      BY <2>2, <3>1, <3>2 DEF Published
  <2>s. /\ arm.id \in 0..MaxEpisodes /\ budget.episodes \in 0..MaxEpisodes /\ MaxEpisodes \in Nat
        /\ arm.id <= budget.episodes
        /\ arm.t = IF arm.phase = "idle" THEN 2 * arm.id ELSE 2 * arm.id - 1
        /\ arm.phase # "idle" => arm.id >= 1
    BY BudgetTyped, RecorderAssumption DEF RecorderTypeOK, ArmStamp
  <2>3. CASE ArmStarts
    <3> DEFINE b == Start(arm.id + 1, arm.t + 1)
    <3>1. /\ arm.phase = "idle" /\ arm.id < budget.episodes /\ Published(b)
          /\ arm' = [phase |-> "starting", id |-> arm.id + 1, t |-> arm.t + 1]
      BY <2>3 DEF ArmStarts
    <3>2. arm.id + 1 \in 1..MaxEpisodes /\ arm.t + 1 = 2 * (arm.id + 1) - 1 /\ arm.t + 1 \in Stamps
      BY <2>s, <3>1 DEF Stamps
    <3>3. b \in Boundaries /\ StampOf(b) /\ b.t = arm.t + 1
      BY <3>2 DEF Start, Boundaries, StampOf
    <3> HIDE DEF b
    <3> QED
      BY <2>2, <3>1, <3>3
  <2>4. CASE ArmEnds
    <3> DEFINE b == End(arm.id, arm.t + 1)
    <3>1. /\ arm.phase = "stopping" /\ Published(b)
          /\ arm' = [arm EXCEPT !.phase = "idle", !.t = @ + 1]
      BY <2>4 DEF ArmEnds
    <3>2. arm.id \in 1..MaxEpisodes /\ arm.t + 1 = 2 * arm.id /\ arm.t + 1 \in Stamps
      BY <2>s, <3>1 DEF Stamps
    <3>3. b \in Boundaries /\ StampOf(b) /\ b.t = arm.t + 1
      BY <3>2 DEF End, Boundaries, StampOf
    <3>4. arm'.t = arm.t + 1
      BY <3>1 DEF RecorderTypeOK
    <3> HIDE DEF b
    <3> QED
      BY <2>2, <3>1, <3>3, <3>4
  <2>5. CASE ArmRuns \/ ArmDies
    <3>1. wire' = wire /\ arm'.t = arm.t
      BY <2>5 DEF ArmRuns, ArmDies, RecorderTypeOK
    <3> QED
      BY <1>k, <2>1, <3>1
  <2> QED
    BY <1>2, <2>3, <2>4, <2>5 DEF ArmSteps
<1>3. CASE DeliverStart \/ DeliverEnd
  <2> DEFINE b == Head(wire)
  <2>1. wire # <<>> /\ wire' = Tail(wire) /\ arm' = arm /\ writer' = writer
    BY <1>3 DEF DeliverStart, DeliverEnd
  <2>2. b \in Boundaries /\ ToSet(wire) = ToSet(Tail(wire)) \cup {b}
    BY <1>t, <2>1, QueueTaken
  <2>3. /\ \A c \in ToSet(Tail(wire)) : b.t < c.t
        /\ \A i, j \in 1..Len(Tail(wire)) : i < j => Tail(wire)[i].t < Tail(wire)[j].t
    BY <1>t, <2>1, FirstIsLeast DEF InOrder
  <2> HIDE DEF b
  <2>4. ToSet(events') \cup ToSet(writer'.taken) \cup ({callback'} \ {None})
          \subseteq (ToSet(events) \cup ToSet(writer.taken) \cup ({callback} \ {None})) \cup {b}
    <3>1. CASE DeliverStart
      <4>1. events' = events /\ callback' = b
        BY <3>1 DEF DeliverStart, b
      <4> QED
        BY <2>1, <4>1
    <3>2. CASE DeliverEnd
      <4>1. events' = Append(events, b) /\ callback' = callback
        BY <3>2 DEF DeliverEnd, b
      <4>2. ToSet(events') = ToSet(events) \cup {b}
        BY <1>t, <2>2, <4>1, Appended
      <4> QED
        BY <2>1, <4>1, <4>2
    <3> QED
      BY <1>3, <3>1, <3>2
  <2>5. OnTheWay' \subseteq OnTheWay
    BY <2>1, <2>2, <2>4 DEF OnTheWay
  <2>6. \A x \in ToSet(wire'), c \in (ToSet(events') \cup ToSet(writer'.taken) \cup ({callback'} \ {None})) :
          c.t < x.t
    BY <2>1, <2>2, <2>3, <2>4 DEF InOrder
  <2> QED
    BY <2>1, <2>3, <2>5, <2>6 DEF InOrder, StampOf
<1>4. CASE PushStart
  <2>1. UNCHANGED <<arm, wire, writer>> /\ callback # None /\ events' = Append(events, callback) /\ callback' = None
    BY <1>4 DEF PushStart
  <2>2. ToSet(events') = ToSet(events) \cup {callback}
    BY <1>t, <2>1, Appended
  <2> QED
    BY <1>k, <2>1, <2>2
<1>5. CASE WriterSteps
  <2>1. UNCHANGED <<arm, wire, callback>> /\ events' \in {events, <<>>}
    BY <1>5, WriterTyped
  <2>2. ToSet(events') \cup ToSet(writer'.taken) \subseteq ToSet(events) \cup ToSet(writer.taken)
    <3>0. ToSet(<<>>) = {}
      BY Nobody
    <3>1. CASE Wake
      <4>1. writer'.taken = events
        BY <3>1, WriterMoves DEF Becomes
      <4> QED
        BY <2>1, <3>0, <4>1
    <3>2. CASE Drain \/ BeginFinishes \/ EndTick
      <4>1. writer'.taken = writer.taken
        BY <3>2, WriterMoves DEF Becomes
      <4> QED
        BY <2>1, <3>0, <4>1
    <3>3. CASE RefuseStart \/ BeginCreates \/ CreateFails \/ ApplyEnd
      <4>1. writer'.taken = Tail(writer.taken)
        BY <3>3, WriterMoves DEF Becomes
      <4>2. writer.taken # <<>>
        BY <3>3 DEF RefuseStart, BeginCreates, CreateFails, ApplyEnd, WriterPlace
      <4>3. ToSet(Tail(writer.taken)) \subseteq ToSet(writer.taken)
        BY <1>t, <4>2, QueueTaken
      <4> QED
        BY <2>1, <3>0, <4>1, <4>3
    <3> QED
      BY <1>5, <3>1, <3>2, <3>3 DEF WriterSteps, Apply
  <2> QED
    BY <1>k, <2>1, <2>2
<1> QED
  BY <1>1, <1>2, <1>3, <1>4, <1>5 DEF RecorderNext, Callbacks

-----------------------------------------------------------------------------
(* The last frames of an episode. *)

\* A frame of the open episode is on its way into the file, ahead of the end.
Waits(n) ==
    \E x \in Shots :
      /\ x.n = n /\ x.t >= writer.episode.t /\ x.t < 2 * writer.episode.id
      /\ \/ x \in writer.batch
         \/ /\ x \in ToSet(queue)
            /\ writer.at \in {"applying", "creating"} =>
                 \A b \in ToSet(writer.taken) : ~(b.kind = "end" /\ b.id = writer.episode.id)

DueKept ==
    \A d \in due :
      /\ d.file \in 1..Len(files)
      /\ files[d.file].closed = "end" => d.n \in files[d.file].shots
      /\ files[d.file].closed = "no" => d.n \in files[d.file].shots \/ Waits(d.n)

\* What leaves the files and loses no frame on its way keeps what is due.
LEMMA DueUntouched ==
    ASSUME OneOpenFile, DueKept, due' = due, files' = files,
           writer.episode # None => \A n : Waits(n) => Waits(n)'
    PROVE  DueKept'
BY DEF DueKept, OneOpenFile

\* The frames due to an episode stay ahead of its end until they are in its file.
LEMMA DueStep ==
    ASSUME RecorderTypeOK, ShotsReady, WriterPlace, OneOpenFile, InOrder, DueKept, RecorderNext
    PROVE  DueKept'
<1>t. /\ events \in Seq(Boundaries) /\ wire \in Seq(Boundaries) /\ writer.taken \in Seq(Boundaries)
      /\ queue \in Seq(Shots) /\ writer.episode \in Episodes \cup {None} /\ files \in Seq(Files)
      /\ writer.batch \in SUBSET Shots
  BY WriterIs DEF RecorderTypeOK
<1>a. /\ \A x \in Shots : x.t \in Nat
      /\ \A b \in Boundaries : b.t \in Nat /\ b.id \in Nat
      /\ \A e \in Episodes : e.t \in Nat /\ e.id \in Nat
  BY RecorderAssumption DEF Shots, Boundaries, Episodes, Stamps
<1>1. CASE ArmSteps \/ DeliverStart \/ PushStart \/ DeliverState \/ TimePasses \/ ShutDown
  <2>1. UNCHANGED <<queue, due, files>>
    BY <1>1, Frames DEF DeliverStart, PushStart
  <2>2. /\ writer'.at = writer.at /\ writer'.taken = writer.taken /\ writer'.batch = writer.batch
        /\ writer.episode # None => /\ writer'.episode.id = writer.episode.id
                                    /\ writer'.episode.t = writer.episode.t
    BY <1>1, OthersSpareTheWriter DEF Callbacks
  <2>3. writer.episode # None => \A n : Waits(n) => Waits(n)'
    BY <2>1, <2>2 DEF Waits
  <2> QED
    BY <2>1, <2>3, DueUntouched
<1>2. CASE SinkSteps
  <2>1. UNCHANGED <<writer, due, files>>
    BY <1>2, Frames
  <2>2. ToSet(queue) \subseteq ToSet(queue')
    BY <1>2, SinksTyped
  <2>3. writer.episode # None => \A n : Waits(n) => Waits(n)'
    BY <2>1, <2>2 DEF Waits
  <2> QED
    BY <2>1, <2>3, DueUntouched
<1>3. CASE DeliverEnd
  <2> DEFINE b == Head(wire)
  <2>1. /\ UNCHANGED <<writer, files, queue>> /\ wire # <<>> /\ b.kind = "end"
        /\ due' = due \cup OfEpisode(writer.episode, b)
    BY <1>3 DEF DeliverEnd
  <2>2. b \in Boundaries /\ b \in ToSet(wire)
    BY <1>t, <2>1, QueueTaken
  <2>3. b.t = 2 * b.id /\ \A c \in ToSet(writer.taken) : c.t < b.t /\ StampOf(c) /\ c \in Boundaries
    <3>1. StampOf(b)
      BY <2>2 DEF InOrder, OnTheWay
    <3> QED
      BY <1>t, <2>1, <2>2, <3>1, Members DEF InOrder, OnTheWay, StampOf
  <2> HIDE DEF b
  <2>4. ASSUME NEW d \in OfEpisode(writer.episode, b)
        PROVE  /\ d.file \in 1..Len(files) /\ files[d.file].closed = "no" /\ Waits(d.n)
    <3>1. writer.episode # None /\ writer.episode.id = b.id
      BY <2>4 DEF OfEpisode
    <3>2. PICK x \in ToSet(queue) :
            /\ x.t >= writer.episode.t /\ x.t < b.t
            /\ d = [n |-> x.n, file |-> writer.episode.file]
      BY <2>4, <3>1 DEF OfEpisode
    <3>3. d.n = x.n /\ d.file = writer.episode.file
      BY <3>2
    <3>4. x \in Shots
      BY <1>t, Members
    <3>5. \A c \in ToSet(writer.taken) : ~(c.kind = "end" /\ c.id = writer.episode.id)
      <4>1. SUFFICES ASSUME NEW c \in ToSet(writer.taken), c.kind = "end", c.id = b.id PROVE FALSE
        BY <3>1
      <4>2. c.t = 2 * b.id
        BY <2>3, <4>1 DEF StampOf
      <4>3. c.t < b.t /\ b.t = 2 * b.id /\ b.id \in Nat
        BY <1>a, <2>2, <2>3, <4>1
      <4> QED
        BY <4>2, <4>3
    <3>6. Waits(x.n)
      BY <2>3, <3>1, <3>2, <3>4, <3>5 DEF Waits
    <3> QED
      BY <3>1, <3>3, <3>6 DEF OneOpenFile
  <2>5. \A n : Waits(n)' <=> Waits(n)
    BY <2>1 DEF Waits
  <2> QED
    BY <2>1, <2>4, <2>5 DEF DueKept
<1>4. CASE Wake
  <2>1. UNCHANGED <<due, files, queue>>
    BY <1>4 DEF Wake
  <2>2. writer'.at = "woken" /\ writer'.batch = writer.batch /\ writer'.episode = writer.episode
    BY <1>4, WriterMoves DEF Becomes
  <2>3. \A n : Waits(n) => Waits(n)'
    BY <2>1, <2>2 DEF Waits
  <2> QED
    BY <2>1, <2>3, DueUntouched
<1>5. CASE Drain
  <2>1. UNCHANGED <<due, files>> /\ writer.at = "woken"
    BY <1>5 DEF Drain
  <2>2. writer'.batch = ToSet(queue) /\ writer'.episode = writer.episode /\ writer.batch = {}
    BY <1>5, <2>1, WriterMoves DEF Becomes, WriterPlace
  <2>3. \A n : Waits(n) => Waits(n)'
    BY <2>2 DEF Waits
  <2> QED
    BY <2>1, <2>3, DueUntouched
\* A frame that was logged is there; one that was not comes later.
<1>6. ASSUME NEW shots \in SUBSET Shots, NEW d \in due, NEW why, NEW closes \in BOOLEAN,
             Logs(shots, closes, why), why \in {"start", "watch"} \/ ~closes,
             ~closes /\ writer.episode # None /\ Waits(d.n) =>
                \/ Waits(d.n)'
                \/ \E x \in shots : x.n = d.n /\ x.t >= writer.episode.t
      PROVE  /\ d.file \in 1..Len(files')
             /\ files'[d.file].closed = "end" => d.n \in files'[d.file].shots
             /\ files'[d.file].closed = "no" => d.n \in files'[d.file].shots \/ Waits(d.n)'
  <2>1. /\ d.file \in 1..Len(files)
        /\ files[d.file].closed = "end" => d.n \in files[d.file].shots
        /\ files[d.file].closed = "no" => d.n \in files[d.file].shots \/ Waits(d.n)
    BY DEF DueKept
  <2>2. /\ Len(files') = Len(files) /\ files[d.file].shots \subseteq files'[d.file].shots
        /\ writer.episode # None /\ d.file = writer.episode.file =>
             \A x \in shots : x.t >= writer.episode.t => x.n \in files'[d.file].shots
        /\ files'[d.file].closed = IF closes /\ writer.episode # None /\ d.file = writer.episode.file
                                   THEN why ELSE files[d.file].closed
    BY <1>6, <2>1 DEF Logs
  <2>3. files[d.file].closed = "no" => writer.episode # None /\ d.file = writer.episode.file
    BY <2>1 DEF OneOpenFile
  <2>4. CASE closes /\ writer.episode # None /\ d.file = writer.episode.file
    BY <1>6, <2>1, <2>2, <2>4
  <2>5. CASE ~(closes /\ writer.episode # None /\ d.file = writer.episode.file)
    <3>1. files'[d.file].closed = files[d.file].closed
      BY <2>2, <2>5
    <3>2. CASE files[d.file].closed = "no" /\ d.n \notin files[d.file].shots
      <4>1. ~closes /\ writer.episode # None /\ Waits(d.n) /\ d.file = writer.episode.file
        BY <2>1, <2>3, <2>5, <3>2
      <4>2. CASE Waits(d.n)'
        BY <2>1, <2>2, <3>1, <3>2, <4>2
      <4>3. CASE \E x \in shots : x.n = d.n /\ x.t >= writer.episode.t
        BY <2>1, <2>2, <3>1, <3>2, <4>1, <4>3
      <4> QED
        BY <1>6, <4>1, <4>2, <4>3
    <3>3. CASE ~(files[d.file].closed = "no" /\ d.n \notin files[d.file].shots)
      BY <2>1, <2>2, <3>1, <3>3
    <3> QED
      BY <3>2, <3>3
  <2> QED
    BY <2>4, <2>5
\* Frames from before a boundary are logged with it, the others stay in the batch.
<1>7. ASSUME NEW event, NEW n, event.t \in Nat, writer.episode # None, Waits(n),
             writer.at = "applying", writer'.at = "applying", writer'.episode = writer.episode,
             ToSet(writer'.taken) \subseteq ToSet(writer.taken), queue' = queue,
             writer'.batch = NotBefore(event)
      PROVE  \/ Waits(n)'
             \/ \E x \in Before(event) : x.n = n /\ x.t >= writer.episode.t
  <2>1. PICK x \in Shots :
      /\ x.n = n /\ x.t >= writer.episode.t /\ x.t < 2 * writer.episode.id
      /\ \/ x \in writer.batch
         \/ /\ x \in ToSet(queue)
            /\ \A b \in ToSet(writer.taken) : ~(b.kind = "end" /\ b.id = writer.episode.id)
    BY <1>7 DEF Waits
  <2>2. CASE x \in writer.batch /\ x.t < event.t
    BY <2>1, <2>2 DEF Before
  <2>3. CASE x \in writer.batch /\ ~(x.t < event.t)
    <3>1. x \in writer'.batch
      BY <1>7, <1>a, <2>3 DEF NotBefore
    <3> QED
      BY <1>7, <2>1, <3>1 DEF Waits
  <2>4. CASE x \notin writer.batch
    <3>1. x \in ToSet(queue') /\ \A b \in ToSet(writer'.taken) : ~(b.kind = "end" /\ b.id = writer'.episode.id)
      BY <1>7, <2>1, <2>4
    <3> QED
      BY <1>7, <2>1, <3>1 DEF Waits
  <2> QED
    BY <2>2, <2>3, <2>4
<1>8. CASE RefuseStart
  <2> DEFINE event == Head(writer.taken)
  <2>1. /\ writer.at = "applying" /\ writer.taken # <<>> /\ Logs(Before(event), FALSE, "end")
        /\ due' = due /\ queue' = queue
    BY <1>8, RefuseEffect DEF RefuseStart
  <2>2. /\ writer'.at = "applying" /\ writer'.episode = writer.episode
        /\ writer'.taken = Tail(writer.taken) /\ writer'.batch = NotBefore(event)
    BY <1>8, WriterMoves DEF Becomes
  <2>3. event.t \in Nat /\ ToSet(writer'.taken) \subseteq ToSet(writer.taken)
    BY <1>t, <1>a, <2>1, <2>2, QueueTaken
  <2> HIDE DEF event
  <2>4. Before(event) \in SUBSET Shots
    BY <1>t DEF Before
  <2>5. \A n : writer.episode # None /\ Waits(n) =>
          Waits(n)' \/ \E x \in Before(event) : x.n = n /\ x.t >= writer.episode.t
    BY <1>7, <2>1, <2>2, <2>3
  <2>6. \A d \in due :
             /\ d.file \in 1..Len(files')
             /\ files'[d.file].closed = "end" => d.n \in files'[d.file].shots
             /\ files'[d.file].closed = "no" => d.n \in files'[d.file].shots \/ Waits(d.n)'
    BY <1>6, <2>1, <2>4, <2>5
  <2> QED
    BY <2>1, <2>6 DEF DueKept
<1>9. CASE BeginFinishes
  <2> DEFINE event == Head(writer.taken)
  <2>1. Logs(Before(event), TRUE, "start") /\ due' = due
    BY <1>9, BeginEffect DEF BeginFinishes
  <2>2. Before(event) \in SUBSET Shots
    BY <1>t DEF Before
  <2> HIDE DEF event
  <2>3. \A d \in due :
             /\ d.file \in 1..Len(files')
             /\ files'[d.file].closed = "end" => d.n \in files'[d.file].shots
             /\ files'[d.file].closed = "no" => d.n \in files'[d.file].shots \/ Waits(d.n)'
    BY <1>6, <2>1, <2>2
  <2> QED
    BY <2>1, <2>3 DEF DueKept
<1>10. CASE BeginCreates
  <2>1. writer.at = "creating" /\ due' = due
    BY <1>10 DEF BeginCreates
  <2>2. PICK g \in Files : files' = Append(files, g)
    BY <1>10, CreateEffect
  <2>3. /\ Len(files') = Len(files) + 1 /\ Len(files) \in Nat
        /\ \A f \in 1..Len(files) : files'[f] = files[f] /\ f \in 1..Len(files')
    BY <1>t, <2>2
  <2>4. \A f \in 1..Len(files) : files[f].closed # "no"
    BY <2>1 DEF OneOpenFile, WriterPlace
  <2> QED
    BY <2>1, <2>3, <2>4 DEF DueKept
<1>11. CASE CreateFails
  <2>1. UNCHANGED <<due, files>> /\ writer.episode = None
    BY <1>11 DEF CreateFails, WriterPlace
  <2> QED
    BY <2>1, DueUntouched
<1>12. CASE ApplyEnd
  <2> DEFINE event == Head(writer.taken)
             its == writer.episode # None /\ writer.episode.id = event.id
  <2>1. /\ writer.at = "applying" /\ writer.taken # <<>> /\ event.kind = "end"
        /\ Logs(Before(event), its, "end") /\ due' = due /\ queue' = queue /\ its \in BOOLEAN
    BY <1>12, EndEffect DEF ApplyEnd
  <2>2. /\ writer'.at = "applying" /\ writer'.episode = IF its THEN None ELSE writer.episode
        /\ writer'.taken = Tail(writer.taken) /\ writer'.batch = NotBefore(event)
    BY <1>12, WriterMoves DEF Becomes
  <2>3. /\ event \in Boundaries /\ event \in ToSet(writer.taken)
        /\ ToSet(writer'.taken) \subseteq ToSet(writer.taken)
    BY <1>t, <2>1, <2>2, QueueTaken
  <2>4. event.t \in Nat /\ event.t = 2 * event.id
    BY <1>a, <2>1, <2>3 DEF InOrder, OnTheWay, StampOf
  <2>5. Before(event) \in SUBSET Shots
    BY <1>t DEF Before
  <2>6. CASE ~its
    <3> HIDE DEF event
    <3>1. \A n : writer.episode # None /\ Waits(n) =>
            Waits(n)' \/ \E x \in Before(event) : x.n = n /\ x.t >= writer.episode.t
      BY <1>7, <2>1, <2>2, <2>3, <2>4, <2>6
    <3> HIDE DEF its
    <3>2. \A d \in due :
             /\ d.file \in 1..Len(files')
             /\ files'[d.file].closed = "end" => d.n \in files'[d.file].shots
             /\ files'[d.file].closed = "no" => d.n \in files'[d.file].shots \/ Waits(d.n)'
      BY <1>6, <2>1, <2>5, <2>6, <3>1
    <3> QED
      BY <2>1, <3>2 DEF DueKept
  <2>7. CASE its
    <3>1. ASSUME NEW d \in due
          PROVE  /\ d.file \in 1..Len(files')
                 /\ files'[d.file].closed = "end" => d.n \in files'[d.file].shots
                 /\ files'[d.file].closed # "no"
      <4>1. /\ d.file \in 1..Len(files)
            /\ files[d.file].closed = "end" => d.n \in files[d.file].shots
            /\ files[d.file].closed = "no" => d.n \in files[d.file].shots \/ Waits(d.n)
        BY DEF DueKept
      <4>2. /\ Len(files') = Len(files) /\ files[d.file].shots \subseteq files'[d.file].shots
            /\ d.file = writer.episode.file =>
                 \A x \in Before(event) : x.t >= writer.episode.t => x.n \in files'[d.file].shots
            /\ files'[d.file].closed = IF d.file = writer.episode.file THEN "end" ELSE files[d.file].closed
        BY <2>1, <2>7, <4>1 DEF Logs
      <4>3. CASE d.file # writer.episode.file
        BY <4>1, <4>2, <4>3 DEF OneOpenFile
      <4>4. CASE d.file = writer.episode.file
        <5>1. files[d.file].closed = "no"
          BY <2>7, <4>4 DEF OneOpenFile
        <5>2. CASE Waits(d.n)
          <6>1. PICK x \in Shots :
                  /\ x.n = d.n /\ x.t >= writer.episode.t /\ x.t < 2 * writer.episode.id
                  /\ x \in writer.batch
            BY <2>1, <2>3, <2>7, <5>2 DEF Waits
          <6>2. x \in Before(event)
            BY <2>4, <2>7, <6>1 DEF Before
          <6> QED
            BY <4>1, <4>2, <4>4, <6>1, <6>2
        <5> QED
          BY <4>1, <4>2, <4>4, <5>1, <5>2
      <4> QED
        BY <4>3, <4>4
    <3> QED
      BY <2>1, <3>1 DEF DueKept
  <2> QED
    BY <2>6, <2>7
<1>13. CASE EndTick
  <2>1. due' = due /\ queue' = queue
    BY <1>13 DEF EndTick
  <2>2. PICK closes \in BOOLEAN :
                /\ Logs(writer.batch, closes, "watch")
                /\ Becomes(IF writer.stopping \/ writer.gone THEN "done" ELSE "asleep",
                           writer.stopping, writer.gone, writer.taken, {},
                           IF closes THEN None ELSE writer.episode)
    BY <1>13, WriterMoves
  <2>3. writer'.at \in {"done", "asleep"} /\ (~closes => writer'.episode = writer.episode)
    BY <2>2 DEF Becomes
  <2>4. ASSUME NEW n, ~closes, Waits(n)
        PROVE  Waits(n)' \/ \E x \in writer.batch : x.n = n /\ x.t >= writer.episode.t
    BY <2>1, <2>3, <2>4 DEF Waits
  <2>5. \A d \in due :
             /\ d.file \in 1..Len(files')
             /\ files'[d.file].closed = "end" => d.n \in files'[d.file].shots
             /\ files'[d.file].closed = "no" => d.n \in files'[d.file].shots \/ Waits(d.n)'
    BY <1>6, <1>t, <2>2, <2>4
  <2> QED
    BY <2>1, <2>5 DEF DueKept
<1> QED
  BY <1>1, <1>2, <1>3, <1>4, <1>5, <1>8, <1>9, <1>10, <1>11, <1>12, <1>13
     DEF RecorderNext, Callbacks, WriterSteps, Apply

-----------------------------------------------------------------------------
(* The camera node. *)

RecorderInv ==
    /\ RecorderTypeOK /\ ShotsReady /\ ArmStamp /\ WriterPlace /\ OneOpenFile
    /\ SinksFollowEpisode /\ StartWaits /\ SinksEnd /\ InOrder /\ DueKept

\* The recorder's invariant holds at the start.
LEMMA RecorderStarts == ASSUME RecorderInit PROVE RecorderInv
<1>1. /\ arm.phase = "idle" /\ arm.id = 0 /\ arm.t = 0 /\ wire = <<>> /\ callback = None
      /\ open = FALSE /\ events = <<>> /\ queue = <<>> /\ files = <<>> /\ node = "running" /\ due = {}
      /\ writer.at = "asleep" /\ writer.stopping = FALSE /\ writer.gone = FALSE
      /\ writer.taken = <<>> /\ writer.batch = {} /\ writer.episode = None
      /\ budget \in Budgets /\ \A c \in Cams : sink[c].at = "idle"
  BY DEF RecorderInit
<1>2. budget.episodes \in 0..MaxEpisodes /\ MaxEpisodes \in Nat /\ MaxFrames \in Nat /\ QueueFrames \in Nat
      /\ SilentAfter \in Nat
  BY <1>1, BudgetTyped, RecorderAssumption
<1>3. 0 \in Stamps /\ Never \in Ages /\ 0 \in 0..MaxEpisodes /\ 0 \in 0..MaxFrames
  BY <1>2 DEF Stamps, Ages, Never, Oldest
<1>4. <<>> \in Seq(Boundaries) /\ <<>> \in Seq(Shots) /\ <<>> \in Seq(Files) /\ Len(<<>>) = 0
      /\ ToSet(<<>>) = {}
  BY Nobody
<1>5. RecorderTypeOK
  <2>1. arm \in [phase : {"idle", "starting", "active", "stopping", "dead"},
                 id : 0..MaxEpisodes, t : Stamps]
    BY <1>3 DEF RecorderInit
  <2>2. clock \in [state : Ages, running : Ages, stateT : Stamps, idle : BOOLEAN]
    BY <1>3 DEF RecorderInit
  <2>3. sink \in [Cams -> [at : {"idle", "exposed", "copied", "gone"}, shot : Shots \cup {None}]]
    BY DEF RecorderInit
  <2>4. writer \in Writers
    BY <1>4 DEF RecorderInit, Writers
  <2>5. exposed = 0
    BY DEF RecorderInit
  <2>6. wire \in Seq(Boundaries) /\ events \in Seq(Boundaries) /\ queue \in Seq(Shots)
        /\ files \in Seq(Files)
    BY <1>1, <1>4
  <2>7. Len(queue) <= QueueFrames
    <3>1. queue = <<>> /\ Len(<<>>) = 0 /\ 0 <= QueueFrames
      BY <1>1, <1>2, <1>4
    <3> QED
      BY <3>1
  <2>8. exposed \in 0..MaxFrames
    BY <1>3, <2>5
  <2>9. open \in BOOLEAN /\ callback \in Boundaries \cup {None} /\ budget \in Budgets
        /\ node \in {"running", "closing", "stopping", "down"}
    BY <1>1
  <2> QED
    BY <2>1, <2>2, <2>3, <2>4, <2>6, <2>7, <2>8, <2>9 DEF RecorderTypeOK, Writers
<1>6. ShotsReady /\ WriterPlace /\ OneOpenFile /\ SinksEnd /\ StartWaits /\ DueKept
  BY <1>1, <1>4 DEF ShotsReady, WriterPlace, OneOpenFile, SinksEnd, StartWaits, DueKept
<1>7. ArmStamp
  BY <1>1, <1>2 DEF ArmStamp
<1>8. SinksFollowEpisode
  BY <1>1 DEF SinksFollowEpisode
<1>9. InOrder
  BY <1>1, <1>4 DEF InOrder, OnTheWay
<1> QED
  BY <1>5, <1>6, <1>7, <1>8, <1>9 DEF RecorderInv

\* A step of the other suites leaves the recorder alone.
LEMMA RecorderStill == RecorderInv /\ UNCHANGED recorderVars => RecorderInv'
<1> SUFFICES ASSUME RecorderInv, UNCHANGED recorderVars PROVE RecorderInv'
  OBVIOUS
<1>0. UNCHANGED <<budget, arm, wire, callback, open, events, clock, exposed, sink, queue, writer,
                  files, node, due>>
  BY DEF recorderVars
<1>1. RecorderTypeOK' /\ ShotsReady' /\ ArmStamp' /\ WriterPlace' /\ OneOpenFile'
  BY <1>0 DEF RecorderInv, RecorderTypeOK, ShotsReady, ArmStamp, WriterPlace, OneOpenFile
<1>2. SinksFollowEpisode' /\ StartWaits' /\ SinksEnd' /\ InOrder'
  BY <1>0 DEF RecorderInv, SinksFollowEpisode, StartWaits, SinksEnd, AllSinksGone, InOrder, OnTheWay, StampOf
<1>3. DueKept'
  BY <1>0 DEF RecorderInv, DueKept, Waits
<1> QED
  BY <1>1, <1>2, <1>3 DEF RecorderInv

\* Every step keeps the recorder's invariant.
LEMMA RecorderStep == RecorderInv /\ [RecorderNext]_recorderVars => RecorderInv'
<1>1. ASSUME RecorderInv, RecorderNext PROVE RecorderInv'
  BY <1>1, TypeStep, PlaceStep, FlagStep, SinksEndStep, OrderStep, DueStep DEF RecorderInv
<1> QED
  BY <1>1, RecorderStill

\* The recorder's invariant is more than what the run checks.
LEMMA RecorderImplies ==
    RecorderInv => RecorderTypeOK /\ SinksFollowEpisode /\ LastFramesKept /\ StopsEmpty
<1> SUFFICES ASSUME RecorderInv PROVE LastFramesKept /\ StopsEmpty
  BY DEF RecorderInv
<1>1. LastFramesKept
  BY DEF RecorderInv, DueKept, LastFramesKept
<1>2. ASSUME writer.at = "done" PROVE queue = <<>> /\ \A i \in DOMAIN files : files[i].closed # "no"
  <2>1. queue = <<>> /\ writer.episode = None
    BY <1>2 DEF RecorderInv, SinksEnd
  <2>2. DOMAIN files = 1..Len(files)
    BY DEF RecorderInv, RecorderTypeOK
  <2> QED
    BY <2>1, <2>2 DEF RecorderInv, OneOpenFile
<1> QED
  BY <1>1, <1>2 DEF StopsEmpty

CamerasInv == CaptureInv /\ FramesInv /\ RecorderInv

\* The invariant holds at the start.
LEMMA CamerasStart == CamerasInit => CamerasInv
BY CaptureStarts, FramesStart, RecorderStarts DEF CamerasInit, CamerasInv

\* A step of the suite is a step or a stutter of each part.
LEMMA CamerasMove ==
    [CamerasNext]_camerasVars =>
      [CaptureNext]_captureVars /\ [FramesNext]_framesVars /\ [RecorderNext]_recorderVars
BY DEF CamerasNext, camerasVars

\* The invariant is inductive.
LEMMA CamerasStep == CamerasInv /\ [CamerasNext]_camerasVars => CamerasInv'
BY CamerasMove, CaptureSteps, FramesStep, RecorderStep DEF CamerasInv

\* The inductive invariant of the capture thread, the frames and the recorder.
THEOREM CamerasInvariant == FairCamerasSpec => []CamerasInv
BY CamerasStart, CamerasStep, PTL DEF FairCamerasSpec

\* The variables of the three parts keep their types.
THEOREM CamerasTyped == FairCamerasSpec => []CamerasTypeOK
<1>1. CamerasInv => CamerasTypeOK
  BY CaptureImplies, RecorderImplies DEF CamerasInv, CamerasTypeOK
<1> QED
  BY <1>1, CamerasInvariant, PTL

\* Each sample is one whole frame, numbered by what was lost before it, and the buffers come back;
\* every whole frame that a stream delivers is one that a consumer decodes.
THEOREM SamplesAreWhole == FairCamerasSpec => []CaptureSafety
<1>1. CamerasInv => CaptureSafety
  BY CaptureImplies DEF CamerasInv, CaptureSafety, FramesInv
<1> QED
  BY <1>1, CamerasInvariant, PTL

\* Sinks are armed with an episode, an end closes no file before its last frames, and a recorder
\* that has stopped leaves no frame and no open file.
THEOREM EpisodesAreWhole == FairCamerasSpec => []EpisodeSafety
<1>1. CamerasInv => EpisodeSafety
  BY RecorderImplies DEF CamerasInv, EpisodeSafety
<1> QED
  BY <1>1, CamerasInvariant, PTL
=============================================================================
