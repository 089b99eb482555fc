------------------------ MODULE TargetControlProofs ------------------------
(***************************************************************************)
(* Proofs about TargetControl, for every number of callers, words, tries   *)
(* and cycles: the mutual exclusion of the writers, the seqlock, and from  *)
(* them that target control implements TargetRegister.                     *)
(***************************************************************************)
EXTENDS TargetControl, TLAPS

Last == log[Len(log)]

\* The mutex has one owner, and calls only run on an open handle.
Locked ==
    /\ \A c \in Setters : setter[c].at \in {"modifying", "opening", "storing"} <=> writer = c
    /\ \A c \in Setters : setter[c].at # "out" => handle = "open"

\* Before the first cycle nothing is published; the handle is open until a stop.
Started ==
    /\ stop => handle \in {"stopping", "gone"}
    /\ loop.anchored => log # <<>> /\ handle # "starting"
    /\ ~loop.anchored => /\ log = <<>> /\ seq = 0 /\ handle \in {"starting", "gone"}
                         /\ loop.at = "cycle" => handle = "starting"
                         /\ loop.at \in {"cycle", "ending", "ended"} /\ loop.hold = 0
                         /\ loop.target = Unset /\ ~loop.deviated

\* Each target has a word of its own place and none of a later one.
Distinct(targets) ==
    \A i \in 1..Len(targets) : /\ \A a \in Axes : targets[i][a] <= i
                               /\ \E a \in Axes : targets[i][a] = i
Fresh == Distinct(log)

\* The slot: the last target, or a part of the next one while its writer has the sequence odd.
Seqlock ==
    loop.anchored =>
        /\ (\A c \in Setters : setter[c].at # "storing") => seq = 2 * Len(log) /\ words = Last
        /\ \A c \in Setters : setter[c].at = "storing" =>
               /\ seq = 2 * Len(log) + 1
               /\ \A a \in Axes : words[a] = IF a < setter[c].word THEN setter[c].target[a] ELSE Last[a]
        /\ \A c \in Setters : setter[c].at = "opening" => setter[c].word = 1
        /\ \A c \in Setters : setter[c].at \in {"opening", "storing"} =>
               \E a \in Axes : setter[c].target = [Last EXCEPT ![a] = Len(log) + 1]

\* What the loop has read is of one target, not older than the one it follows, if nothing was
\* published meanwhile.
Reading ==
    loop.at = "copying" =>
        /\ \E k \in 1..Len(log) : loop.before = 2 * k /\ \E j \in 1..k : loop.target = log[j]
        /\ seq = loop.before => \A a \in Axes : a < loop.word => loop.copy[a] = words[a]

Follows ==
    /\ loop.anchored => IF loop.deviated THEN loop.target = Unset
                        ELSE \E j \in 1..Len(log) : loop.target = log[j]
    /\ loop.at \in {"loading", "copying"} => loop.anchored /\ ~loop.deviated
    /\ loop.at \in {"loading", "copying", "planning"} => loop.hold = 0

\* The stop: it is planned with the last target, and nothing is published after it.
Landing ==
    /\ loop.hold = 0 <=> loop.ends = "none"
    /\ loop.stopping /\ ~loop.deviated => stop
    /\ loop.at = "planning" /\ loop.stopping /\ ~loop.deviated => loop.target = Last
    /\ loop.ends = "landed" => stop /\ ~loop.deviated /\ loop.target = Last

\* motion_finished is asked once, after the settle window, and its result is the last step.
Finishing ==
    /\ loop.finished => loop.hold > SettleCycles
    /\ loop.finished => loop.at \in {"observing", "ending", "ended", "panicked"}
    /\ ~loop.finished => loop.waited <= StopTimeout
    /\ loop.result # "none" => loop.at \in {"ending", "ended"}
    /\ loop.result = "ok" => loop.finished /\ ~loop.deviated
    /\ result = "ok" => loop.result = "ok" /\ handle = "gone"

IInv == TypeOK /\ Locked /\ Started /\ Fresh /\ Seqlock /\ Reading /\ Follows /\ Landing /\ Finishing

-----------------------------------------------------------------------------
(* What each step does to the loop's record, field by field. *)

LoopFields == {"at", "target", "previous", "anchored", "deviated", "blocked", "stopping", "cycles",
               "hold", "waited", "finished", "tries", "before", "copy", "word", "ends", "result"}
Shaped(l) == DOMAIN l = LoopFields /\ l = [f \in LoopFields |-> l[f]]
Typed(l) ==
    /\ l.at \in LoopPlaces /\ l.target \in Targets /\ l.previous \in Targets
    /\ l.anchored \in BOOLEAN /\ l.deviated \in BOOLEAN /\ l.blocked \in BOOLEAN
    /\ l.stopping \in BOOLEAN /\ l.cycles \in 0..StopTimeout /\ l.hold \in 0..(SettleCycles + 1)
    /\ l.waited \in 0..(StopTimeout + 1) /\ l.finished \in BOOLEAN /\ l.tries \in 0..(Tries - 1)
    /\ l.before \in Nat /\ l.copy \in Targets /\ l.word \in 1..(Words + 1)
    /\ l.ends \in {"none", "landed", "gave up"} /\ l.result \in {"none", "ok", "error"}
WellFormed(l) == Shaped(l) /\ Typed(l)

\* The fields that are not in changed stay as they are.
Keeps(l, m, changed) == \A f \in LoopFields \ changed : m[f] = l[f]

\* A well-formed record is one of Loops, and the other way round.
LEMMA LoopTyped ==
    ASSUME NEW l
    PROVE  l \in Loops <=> WellFormed(l)
<1>1. l \in Loops => WellFormed(l)
  BY DEF Loops, WellFormed, Shaped, Typed, LoopFields
<1>2. WellFormed(l) => l \in Loops
  BY DEF Loops, WellFormed, Shaped, Typed, LoopFields
<1>3. QED
  BY <1>1, <1>2

\* The constants of the types.
LEMMA Values == Unset \in Targets /\ Anchor \in Targets /\ NoCall \in Calls
  BY SizesAssumption DEF Unset, Anchor, Targets, NoCall, Calls, SetterPlaces, Axes

\* What the proofs need of the sizes, fact by fact.
LEMMA Sizes ==
    /\ Words \in Nat /\ Words > 0 /\ Tries \in Nat /\ Tries > 0
    /\ StopTimeout \in Nat /\ SettleCycles \in Nat /\ MaxSets \in Nat
    /\ 1 \in 0..(SettleCycles + 1)
  BY SizesAssumption

\* The first cycle anchors the target and plans.
LEMMA FirstCycleEffect ==
    ASSUME TypeOK, FirstCycle
    PROVE  /\ WellFormed(loop')
           /\ loop'.at = "planning" /\ loop'.anchored /\ loop'.target = Anchor
           /\ Keeps(loop, loop', {"at", "anchored", "target", "previous"})
<1>1. WellFormed(loop)
  BY LoopTyped DEF TypeOK
<1>2. Shaped(loop')
  BY <1>1 DEF FirstCycle, Planning, WellFormed, Shaped
<1>3. /\ loop'.at = "planning" /\ loop'.anchored /\ loop'.target = Anchor /\ loop'.previous = Unset
      /\ Keeps(loop, loop', {"at", "anchored", "target", "previous"})
  BY <1>1 DEF FirstCycle, Planning, WellFormed, Shaped, LoopFields, Keeps
<1>4. loop'.anchored = TRUE
  BY <1>1 DEF FirstCycle, Planning, WellFormed, Shaped, LoopFields
<1>5. Typed(loop')
  BY <1>1, <1>3, <1>4, Values DEF WellFormed, Typed, Keeps, LoopFields, LoopPlaces
<1>6. QED
  BY <1>2, <1>3, <1>5 DEF WellFormed

\* A cycle samples the stop flag, then freezes, goes on frozen, or loads.
LEMMA CycleEffect ==
    ASSUME TypeOK, Cycle
    PROVE  /\ WellFormed(loop')
           /\ loop'.stopping <=> loop.deviated \/ stop
           /\ Keeps(loop, loop', {"at", "stopping", "previous", "tries", "deviated", "target"})
           /\ \/ loop'.at = "planning" /\ loop'.deviated /\ loop.deviated /\ loop'.target = loop.target
              \/ loop'.at = "planning" /\ loop'.deviated /\ ~loop.deviated /\ loop'.target = Unset
              \/ loop'.at = "loading" /\ ~loop'.deviated /\ ~loop.deviated /\ loop'.target = loop.target
<1> DEFINE stops == loop.deviated \/ stop
<1> DEFINE l == [loop EXCEPT !.stopping = stops, !.previous = loop.target, !.tries = 0]
<1>1. WellFormed(loop) /\ stops \in BOOLEAN
  BY LoopTyped DEF TypeOK
<1>2. /\ loop.deviated => loop' = [l EXCEPT !.at = "planning"]
      /\ ~loop.deviated => \/ loop' = [l EXCEPT !.at = "planning", !.deviated = TRUE, !.target = Unset]
                           \/ loop' = [l EXCEPT !.at = "loading"]
  BY DEF Cycle, Planning
<1> HIDE DEF stops
<1>8. l.stopping = stops
  BY <1>1 DEF WellFormed, Shaped, LoopFields
<1>3. Shaped(l) /\ l.stopping \in BOOLEAN /\ l.previous = loop.target /\ l.tries = 0
      /\ Keeps(loop, l, {"stopping", "previous", "tries"})
  BY <1>1 DEF WellFormed, Shaped, LoopFields, Keeps
<1> HIDE DEF l
<1>4. Typed(l)
  <2>1. l.stopping \in BOOLEAN /\ l.previous \in Targets
    BY <1>1, <1>3 DEF WellFormed, Typed
  <2>2. l.tries \in 0..(Tries - 1)
    BY <1>3, Sizes
  <2>3. QED
    BY <1>1, <1>3, <2>1, <2>2 DEF WellFormed, Typed, Keeps, LoopFields
<1>9. l.stopping <=> loop.deviated \/ stop
  BY <1>8 DEF stops
<1>5. CASE ~loop.deviated /\ loop' = [l EXCEPT !.at = "planning", !.deviated = TRUE, !.target = Unset]
  <2>1. Shaped(loop') /\ loop'.at = "planning" /\ loop'.deviated = TRUE /\ loop'.target = Unset
        /\ Keeps(l, loop', {"at", "deviated", "target"})
    BY <1>3, <1>5 DEF Shaped, LoopFields, Keeps
  <2>2. Typed(loop')
    BY <1>4, <2>1, Values DEF Typed, Keeps, LoopFields, LoopPlaces
  <2>3. QED
    BY <1>3, <1>5, <1>9, <2>1, <2>2 DEF WellFormed, Keeps, LoopFields
<1>6. ASSUME NEW at \in {"planning", "loading"}, loop' = [l EXCEPT !.at = at]
      PROVE  WellFormed(loop') /\ loop'.at = at /\ Keeps(l, loop', {"at"})
  <2>1. Shaped(loop') /\ loop'.at = at /\ Keeps(l, loop', {"at"})
    BY <1>3, <1>6 DEF Shaped, LoopFields, Keeps
  <2>2. Typed(loop')
    BY <1>4, <2>1 DEF Typed, Keeps, LoopFields, LoopPlaces
  <2>3. QED
    BY <2>1, <2>2 DEF WellFormed
<1>7. QED
  BY <1>1, <1>2, <1>3, <1>5, <1>6, <1>9 DEF Keeps, LoopFields

\* A try that fails: another try, or the plan when no stop waits.
LEMMA TryFailsEffect ==
    ASSUME NEW l, WellFormed(l)
    PROVE  /\ WellFormed(TryFails(l))
           /\ Keeps(l, TryFails(l), {"at", "tries"})
           /\ \/ TryFails(l).at = "loading"
              \/ TryFails(l).at = "planning" /\ ~l.stopping
<1> DEFINE again == [l EXCEPT !.at = "loading", !.tries = @ + 1]
<1> DEFINE anew == [l EXCEPT !.at = "loading", !.tries = 0]
<1> DEFINE enough == [l EXCEPT !.at = "planning"]
<1>1. /\ Shaped(again) /\ again.at = "loading" /\ again.tries = l.tries + 1
      /\ Keeps(l, again, {"at", "tries"})
  BY DEF WellFormed, Shaped, LoopFields, Keeps
<1>2. /\ Shaped(anew) /\ anew.at = "loading" /\ anew.tries = 0
      /\ Keeps(l, anew, {"at", "tries"})
  BY DEF WellFormed, Shaped, LoopFields, Keeps
<1>3. Shaped(enough) /\ enough.at = "planning" /\ enough.tries = l.tries /\ Keeps(l, enough, {"at", "tries"})
  BY DEF WellFormed, Shaped, LoopFields, Keeps
<1>4. /\ l.tries + 1 < Tries => TryFails(l) = again
      /\ ~(l.tries + 1 < Tries) /\ l.stopping => TryFails(l) = anew
      /\ ~(l.tries + 1 < Tries) /\ ~l.stopping => TryFails(l) = enough
  BY DEF TryFails, Planning
<1> HIDE DEF again, anew, enough
<1>5. l.tries \in 0..(Tries - 1)
  BY DEF WellFormed, Typed
<1>10. 0 \in 0..(Tries - 1)
  BY Sizes
<1>6. l.tries + 1 < Tries => l.tries + 1 \in 0..(Tries - 1)
  BY <1>5, Sizes
<1>7. l.tries + 1 < Tries => WellFormed(again)
  BY <1>1, <1>6 DEF WellFormed, Typed, Keeps, LoopFields, LoopPlaces
<1>8. WellFormed(anew)
  BY <1>2, <1>10 DEF WellFormed, Typed, Keeps, LoopFields, LoopPlaces
<1>9. WellFormed(enough)
  BY <1>3 DEF WellFormed, Typed, Keeps, LoopFields, LoopPlaces
<1>11. QED
  BY <1>1, <1>2, <1>3, <1>4, <1>7, <1>8, <1>9

\* A load starts to copy from an even sequence, or is a try that fails.
LEMMA LoadEffect ==
    ASSUME TypeOK, Load
    PROVE  /\ WellFormed(loop')
           /\ Keeps(loop, loop', {"at", "tries", "before", "word"})
           /\ \/ /\ loop'.at = "loading" /\ loop'.before = loop.before /\ loop'.word = loop.word
              \/ /\ loop'.at = "planning" /\ ~loop.stopping
              \/ /\ loop'.at = "copying" /\ loop'.before = seq /\ loop'.word = 1
                 /\ seq # 0 /\ seq % 2 # 1
<1>1. WellFormed(loop) /\ seq \in Nat
  BY LoopTyped DEF TypeOK
<1>2. CASE seq = 0 \/ seq % 2 = 1
  <2>1. loop' = TryFails(loop)
    BY <1>2 DEF Load
  <2>2. QED
    BY <1>1, <2>1, TryFailsEffect DEF Keeps, LoopFields
<1>3. CASE ~(seq = 0 \/ seq % 2 = 1)
  <2>1. loop' = [loop EXCEPT !.at = "copying", !.before = seq, !.word = 1]
    BY <1>3 DEF Load
  <2>2. /\ Shaped(loop') /\ loop'.at = "copying" /\ loop'.before = seq /\ loop'.word = 1
        /\ Keeps(loop, loop', {"at", "before", "word"})
    BY <1>1, <2>1 DEF WellFormed, Shaped, LoopFields, Keeps
  <2>3. 1 \in 1..(Words + 1)
    BY Sizes
  <2>4. Typed(loop')
    BY <1>1, <2>2, <2>3 DEF WellFormed, Typed, Keeps, LoopFields, LoopPlaces
  <2>5. QED
    BY <1>3, <2>2, <2>4 DEF WellFormed, Keeps, LoopFields
<1>4. QED
  BY <1>2, <1>3

\* A copy reads one word.
LEMMA CopyEffect ==
    ASSUME TypeOK, Copy
    PROVE  /\ WellFormed(loop')
           /\ Keeps(loop, loop', {"copy", "word"})
           /\ loop'.copy = [loop.copy EXCEPT ![loop.word] = words[loop.word]]
           /\ loop'.word = loop.word + 1
<1>1. WellFormed(loop) /\ words \in Targets /\ loop.word \in Axes /\ loop.copy \in Targets
  BY LoopTyped DEF TypeOK, Copy, WellFormed, Typed
<1>2. /\ Shaped(loop') /\ Keeps(loop, loop', {"copy", "word"})
      /\ loop'.copy = [loop.copy EXCEPT ![loop.word] = words[loop.word]]
      /\ loop'.word = loop.word + 1
  BY <1>1 DEF Copy, WellFormed, Shaped, LoopFields, Keeps
<1>3. loop'.copy \in Targets /\ loop'.word \in 1..(Words + 1)
  BY <1>1, <1>2, Sizes DEF Targets, Axes
<1>4. Typed(loop')
  BY <1>1, <1>2, <1>3 DEF WellFormed, Typed, Keeps, LoopFields
<1>5. QED
  BY <1>2, <1>4 DEF WellFormed

\* A load is taken if the sequence has not moved, or is a try that fails.
LEMMA LoadedEffect ==
    ASSUME TypeOK, Loaded
    PROVE  /\ WellFormed(loop')
           /\ Keeps(loop, loop', {"at", "tries", "target"})
           /\ \/ loop'.at = "loading" /\ loop'.target = loop.target
              \/ loop'.at = "planning" /\ ~loop.stopping /\ loop'.target = loop.target
              \/ loop'.at = "planning" /\ loop'.target = loop.copy /\ seq = loop.before
<1>1. WellFormed(loop)
  BY LoopTyped DEF TypeOK
<1>2. CASE seq # loop.before
  <2>1. loop' = TryFails(loop)
    BY <1>2 DEF Loaded
  <2>2. QED
    BY <1>1, <2>1, TryFailsEffect DEF Keeps, LoopFields
<1>3. CASE seq = loop.before
  <2>1. /\ Shaped(loop') /\ loop'.at = "planning" /\ loop'.target = loop.copy
        /\ Keeps(loop, loop', {"at", "target"})
    BY <1>1, <1>3 DEF Loaded, Planning, WellFormed, Shaped, LoopFields, Keeps
  <2>2. Typed(loop')
    BY <1>1, <2>1 DEF WellFormed, Typed, Keeps, LoopFields, LoopPlaces
  <2>3. QED
    BY <1>3, <2>1, <2>2 DEF WellFormed, Keeps, LoopFields
<1>4. QED
  BY <1>2, <1>3

\* A plan goes on, or ends the way: landed, or given up.
LEMMA PlanEffect ==
    ASSUME TypeOK, Plan
    PROVE  /\ WellFormed(loop')
           /\ loop'.at = "observing"
           /\ Keeps(loop, loop', {"at", "blocked", "hold", "ends", "cycles"})
           /\ \/ loop'.hold = loop.hold /\ loop'.ends = loop.ends
              \/ /\ loop.stopping \/ loop.deviated
                 /\ loop'.hold = 1 /\ loop'.ends \in {"landed", "gave up"}
                 /\ loop'.ends = "landed" => ~loop.deviated
<1>0. PICK atTarget \in BOOLEAN, blocked \in BOOLEAN :
        LET l == [loop EXCEPT !.at = "observing", !.blocked = blocked]
            landed == Lands(atTarget)
        IN  loop' = IF ~(loop.stopping \/ loop.deviated) THEN l
                    ELSE IF landed \/ loop.cycles + 1 >= StopTimeout
                    THEN [l EXCEPT !.hold = 1,
                                   !.ends = IF ~loop.deviated /\ landed THEN "landed" ELSE "gave up"]
                    ELSE [l EXCEPT !.cycles = @ + 1]
  BY DEF Plan
<1> DEFINE l == [loop EXCEPT !.at = "observing", !.blocked = blocked]
<1>1. WellFormed(loop)
  BY LoopTyped DEF TypeOK
<1>2. Shaped(l) /\ l.at = "observing" /\ l.blocked = blocked /\ Keeps(loop, l, {"at", "blocked"})
  BY <1>1 DEF WellFormed, Shaped, LoopFields, Keeps
<1>3. \/ loop' = l
      \/ /\ loop.stopping \/ loop.deviated
         /\ \E ends \in {"landed", "gave up"} : /\ loop' = [l EXCEPT !.hold = 1, !.ends = ends]
                                                /\ ends = "landed" => ~loop.deviated
      \/ loop.cycles + 1 < StopTimeout /\ loop' = [l EXCEPT !.cycles = @ + 1]
  <2>1. CASE ~(loop.stopping \/ loop.deviated)
    BY <1>0, <2>1
  <2>2. CASE (loop.stopping \/ loop.deviated) /\ (Lands(atTarget) \/ loop.cycles + 1 >= StopTimeout)
    <3> DEFINE ends == IF ~loop.deviated /\ Lands(atTarget) THEN "landed" ELSE "gave up"
    <3>1. loop' = [l EXCEPT !.hold = 1, !.ends = ends]
      BY <1>0, <2>2
    <3>2. ends \in {"landed", "gave up"} /\ (ends = "landed" => ~loop.deviated)
      OBVIOUS
    <3> HIDE DEF ends, l
    <3>3. QED
      BY <2>2, <3>1, <3>2
  <2>3. CASE (loop.stopping \/ loop.deviated) /\ ~(Lands(atTarget) \/ loop.cycles + 1 >= StopTimeout)
    <3>1. loop' = [l EXCEPT !.cycles = @ + 1]
      BY <1>0, <2>3
    <3>2. loop.cycles \in Nat /\ StopTimeout \in Nat
      <4>1. loop.cycles \in 0..StopTimeout
        BY <1>1 DEF WellFormed, Typed
      <4>2. QED
        BY <4>1, Sizes
    <3>3. QED
      BY <2>3, <3>1, <3>2
  <2>4. QED
    BY <2>1, <2>2, <2>3
<1> HIDE DEF l
<1>4. Typed(l)
  BY <1>1, <1>2 DEF WellFormed, Typed, Keeps, LoopFields, LoopPlaces
<1>5. CASE loop' = l
  BY <1>2, <1>4, <1>5 DEF WellFormed, Keeps, LoopFields
<1>6. ASSUME loop.stopping \/ loop.deviated, NEW ends \in {"landed", "gave up"},
             loop' = [l EXCEPT !.hold = 1, !.ends = ends], ends = "landed" => ~loop.deviated
      PROVE  /\ WellFormed(loop') /\ loop'.at = "observing"
             /\ Keeps(loop, loop', {"at", "blocked", "hold", "ends", "cycles"})
             /\ loop'.hold = 1 /\ loop'.ends = ends
  <2>1. Shaped(loop') /\ loop'.hold = 1 /\ loop'.ends = ends /\ Keeps(l, loop', {"hold", "ends"})
    BY <1>2, <1>6 DEF Shaped, LoopFields, Keeps
  <2>2. 1 \in 0..(SettleCycles + 1)
    BY Sizes, Zenon
  <2>3. Typed(loop')
    BY <1>4, <2>1, <2>2 DEF Typed, Keeps, LoopFields
  <2>4. QED
    BY <1>2, <2>1, <2>3 DEF WellFormed, Keeps, LoopFields
<1>7. CASE loop.cycles + 1 < StopTimeout /\ loop' = [l EXCEPT !.cycles = @ + 1]
  <2>1. Shaped(loop') /\ loop'.cycles = l.cycles + 1 /\ Keeps(l, loop', {"cycles"})
    BY <1>2, <1>7 DEF Shaped, LoopFields, Keeps
  <2>2. l.cycles = loop.cycles /\ l.cycles \in 0..StopTimeout
    BY <1>2, <1>4 DEF Typed, Keeps, LoopFields
  <2>3. loop'.cycles \in 0..StopTimeout
    BY <1>7, <2>1, <2>2, Sizes
  <2>4. Typed(loop')
    BY <1>4, <2>1, <2>3 DEF Typed, Keeps, LoopFields
  <2>5. QED
    BY <1>2, <2>1, <2>4 DEF WellFormed, Keeps, LoopFields
<1>8. QED
  BY <1>3, <1>5, <1>6, <1>7

\* The hold repeats the command; it asks to finish after the settle window only.
LEMMA HoldEffect ==
    ASSUME TypeOK, Finishing, Hold
    PROVE  /\ WellFormed(loop')
           /\ loop'.at = "observing" /\ loop'.hold > 0
           /\ Keeps(loop, loop', {"at", "hold", "waited", "finished"})
           /\ loop'.finished => loop'.hold > SettleCycles
           /\ ~loop'.finished => loop'.waited <= StopTimeout
<1>1. WellFormed(loop)
  BY LoopTyped DEF TypeOK
<1>2. /\ loop.hold \in Nat /\ SettleCycles \in Nat /\ StopTimeout \in Nat /\ loop.waited \in Nat
      /\ loop.finished = FALSE /\ loop.waited <= StopTimeout /\ loop.hold > 0
  <2>1. loop.hold \in Nat /\ SettleCycles \in Nat /\ StopTimeout \in Nat /\ loop.waited \in Nat
    <3>1. loop.hold \in 0..(SettleCycles + 1) /\ loop.waited \in 0..(StopTimeout + 1)
      BY <1>1 DEF WellFormed, Typed
    <3>2. QED
      BY <3>1, Sizes
  <2>2. loop.finished = FALSE
    BY <1>1 DEF WellFormed, Typed, Hold, Finishing
  <2>3. QED
    BY <2>1, <2>2 DEF Finishing, Hold
<1>3. CASE loop.hold < SettleCycles
  <2>1. /\ Shaped(loop') /\ loop'.at = "observing" /\ loop'.hold = loop.hold + 1
        /\ Keeps(loop, loop', {"at", "hold"})
    BY <1>1, <1>3 DEF Hold, WellFormed, Shaped, LoopFields, Keeps
  <2>2. loop'.hold \in 0..(SettleCycles + 1) /\ loop'.hold > 0
    BY <1>2, <1>3, <2>1
  <2>3. Typed(loop')
    BY <1>1, <2>1, <2>2 DEF WellFormed, Typed, Keeps, LoopFields, LoopPlaces
  <2>4. QED
    BY <1>2, <2>1, <2>2, <2>3 DEF WellFormed, Keeps, LoopFields
<1>4. CASE ~(loop.hold < SettleCycles)
  <2>0. PICK atRest \in BOOLEAN :
          loop' = [loop EXCEPT !.at = "observing", !.hold = SettleCycles + 1, !.waited = @ + 1,
                               !.finished = atRest \/ loop.waited >= StopTimeout]
    BY <1>4 DEF Hold
  <2>1. /\ Shaped(loop') /\ loop'.at = "observing" /\ loop'.hold = SettleCycles + 1
        /\ loop'.waited = loop.waited + 1 /\ Keeps(loop, loop', {"at", "hold", "waited", "finished"})
    BY <1>1, <2>0 DEF WellFormed, Shaped, LoopFields, Keeps
  <2>2. loop'.finished = (atRest \/ loop.waited >= StopTimeout)
    BY <1>1, <2>0 DEF WellFormed, Shaped, LoopFields
  <2>3. loop'.finished \in BOOLEAN /\ (~loop'.finished => loop.waited < StopTimeout)
    <3>1. loop'.finished \in BOOLEAN
      BY <2>2, Zenon
    <3>2. ~loop'.finished => ~(loop.waited >= StopTimeout)
      BY <2>2, Zenon
    <3>3. QED
      BY <1>2, <3>1, <3>2
  <2>4. /\ loop'.hold \in 0..(SettleCycles + 1) /\ loop'.waited \in 0..(StopTimeout + 1)
        /\ loop'.hold > SettleCycles /\ loop'.hold > 0
        /\ ~loop'.finished => loop'.waited <= StopTimeout
    BY <1>2, <2>1, <2>3
  <2>5. Typed(loop')
    BY <1>1, <2>1, <2>3, <2>4 DEF WellFormed, Typed, Keeps, LoopFields, LoopPlaces
  <2>6. QED
    BY <2>1, <2>4, <2>5 DEF WellFormed
<1>5. QED
  BY <1>3, <1>4

\* The observer, and the ends of the thread.
LEMMA EndEffect ==
    ASSUME TypeOK, Observed \/ Panics \/ LoopFails \/ Ends
    PROVE  /\ WellFormed(loop')
           /\ Keeps(loop, loop', {"at", "result"})
           /\ \/ Observed /\ ~loop.finished /\ loop'.at = "cycle" /\ loop'.result = loop.result
              \/ /\ Observed /\ loop.finished /\ loop'.at = "ending"
                 /\ loop'.result = "ok" => ~loop.deviated
              \/ Panics /\ loop'.at = "panicked" /\ loop'.result = loop.result
              \/ LoopFails /\ loop'.at = "ending" /\ loop'.result = "error"
              \/ Ends /\ loop'.at = "ended" /\ loop'.result = loop.result
<1>1. WellFormed(loop)
  BY LoopTyped DEF TypeOK
<1>2. ASSUME NEW at \in LoopPlaces, loop' = [loop EXCEPT !.at = at]
      PROVE  /\ WellFormed(loop') /\ loop'.at = at /\ loop'.result = loop.result
             /\ Keeps(loop, loop', {"at", "result"})
  <2>1. Shaped(loop') /\ loop'.at = at /\ Keeps(loop, loop', {"at"})
    BY <1>1, <1>2 DEF WellFormed, Shaped, LoopFields, Keeps
  <2>2. Typed(loop')
    BY <1>1, <2>1 DEF WellFormed, Typed, Keeps, LoopFields
  <2>3. QED
    BY <2>1, <2>2 DEF WellFormed, Keeps, LoopFields
<1>3. ASSUME NEW verdict \in {"ok", "error"}, loop' = [loop EXCEPT !.at = "ending", !.result = verdict]
      PROVE  /\ WellFormed(loop') /\ loop'.at = "ending" /\ loop'.result = verdict
             /\ Keeps(loop, loop', {"at", "result"})
  <2>1. /\ Shaped(loop') /\ loop'.at = "ending" /\ loop'.result = verdict
        /\ Keeps(loop, loop', {"at", "result"})
    BY <1>1, <1>3 DEF WellFormed, Shaped, LoopFields, Keeps
  <2>2. Typed(loop')
    BY <1>1, <2>1 DEF WellFormed, Typed, Keeps, LoopFields, LoopPlaces
  <2>3. QED
    BY <2>1, <2>2 DEF WellFormed
<1>4. CASE Observed /\ ~loop.finished
  BY <1>2, <1>4 DEF Observed, LoopPlaces
<1>5. CASE Observed /\ loop.finished
  <2>1. \E verdict \in {"ok", "error"} : /\ loop' = [loop EXCEPT !.at = "ending", !.result = verdict]
                                         /\ verdict = "ok" => ~loop.deviated
    <3>1. CASE loop.deviated
      BY <1>5, <3>1 DEF Observed
    <3>2. CASE ~loop.deviated
      BY <1>5, <3>2 DEF Observed
    <3>3. QED
      BY <3>1, <3>2
  <2>2. QED
    BY <1>3, <1>5, <2>1
<1>6. CASE Panics
  BY <1>2, <1>6 DEF Panics, LoopPlaces
<1>7. CASE LoopFails
  BY <1>3, <1>7 DEF LoopFails
<1>8. CASE Ends
  BY <1>2, <1>8 DEF Ends, LoopPlaces
<1>9. QED
  BY <1>4, <1>5, <1>6, <1>7, <1>8

-----------------------------------------------------------------------------
(* The parts of the invariant are preserved by every step. *)

\* The steps of the loop after its first cycle.
LoopStep ==
    \/ Cycle \/ Load \/ Copy \/ Loaded \/ Plan \/ Hold
    \/ Observed \/ Panics \/ LoopFails \/ Ends

\* The loop after its first cycle writes no variable of the callers'.
LEMMA LoopStepKeeps ==
    ASSUME TypeOK, Finishing, LoopStep
    PROVE  /\ WellFormed(loop') /\ (loop'.anchored <=> loop.anchored)
           /\ UNCHANGED <<seq, words, writer, stop, setter, handle, result, sets, log>>
           /\ running' \in BOOLEAN
<1>1. UNCHANGED <<seq, words, writer, stop, setter, handle, result, sets, log>> /\ running' \in BOOLEAN
  BY DEF LoopStep, Cycle, Load, Copy, Loaded, Plan, Hold, Observed, Panics, LoopFails, Ends, Quiet,
         slot, TypeOK
<1>2. WellFormed(loop') /\ (loop'.anchored <=> loop.anchored)
  BY CycleEffect, LoadEffect, CopyEffect, LoadedEffect, PlanEffect, HoldEffect, EndEffect
     DEF LoopStep, Keeps, LoopFields
<1>3. QED
  BY <1>1, <1>2

\* Every step preserves the types.
LEMMA TypeStep ==
    ASSUME IInv, [Next]_vars
    PROVE  TypeOK'
<1>0. TypeOK /\ Finishing
  BY DEF IInv
<1>1. ASSUME NEW c \in Setters, Call(c) PROVE TypeOK'
  <2>1. setter' \in [Setters -> Calls]
    BY <1>0, <1>1 DEF Call, TypeOK, Calls, SetterPlaces
  <2>2. sets' \in 0..MaxSets
    BY <1>0, <1>1, Sizes DEF Call, TypeOK
  <2>3. QED
    BY <1>0, <1>1, <2>1, <2>2 DEF Call, TypeOK, slot
<1>2. ASSUME NEW c \in Setters, Lock(c) PROVE TypeOK'
  <2>1. setter' \in [Setters -> Calls]
    <3>1. CASE setter' = [setter EXCEPT ![c] = NoCall]
      BY <1>0, <3>1, Values DEF TypeOK
    <3>2. CASE setter' = [setter EXCEPT ![c].at = "modifying"]
      BY <1>0, <3>2 DEF TypeOK, Calls, SetterPlaces
    <3>3. QED
      BY <1>2, <3>1, <3>2 DEF Lock
  <2>2. writer' \in Setters \cup {NoSetter}
    BY <1>0, <1>2 DEF Lock, TypeOK
  <2>3. QED
    BY <1>0, <1>2, <2>1, <2>2 DEF Lock, TypeOK, slot
<1>3. ASSUME NEW c \in Setters, Modify(c) PROVE TypeOK'
  <2>1. CASE setter' = [setter EXCEPT ![c] = NoCall] /\ writer' = NoSetter
    BY <1>0, <1>3, <2>1, Values DEF Modify, TypeOK, slot
  <2>2. ASSUME NEW a \in Axes, writer' = writer,
               setter' = [setter EXCEPT ![c] = [at |-> "opening", word |-> 1,
                                                target |-> [words EXCEPT ![a] = Len(log) + 1]]]
        PROVE  TypeOK'
    <3>1. [words EXCEPT ![a] = Len(log) + 1] \in Targets
      BY <1>0 DEF TypeOK, Targets
    <3>2. 1 \in 1..(Words + 1)
      BY Sizes
    <3>3. [at |-> "opening", word |-> 1, target |-> [words EXCEPT ![a] = Len(log) + 1]] \in Calls
      BY <3>1, <3>2 DEF Calls, SetterPlaces
    <3>4. setter' \in [Setters -> Calls]
      BY <1>0, <2>2, <3>3 DEF TypeOK
    <3>5. QED
      BY <1>0, <1>3, <2>2, <3>4 DEF Modify, TypeOK, slot
  <2>3. QED
    BY <1>3, <2>1, <2>2 DEF Modify
<1>4. ASSUME NEW c \in Setters, Open(c) PROVE TypeOK'
  <2>1. setter' \in [Setters -> Calls]
    BY <1>0, <1>4 DEF Open, TypeOK, Calls, SetterPlaces
  <2>2. QED
    BY <1>0, <1>4, <2>1 DEF Open, TypeOK, slot
<1>5. ASSUME NEW c \in Setters, Store(c) PROVE TypeOK'
  <2>1. setter[c] \in Calls /\ setter[c].word \in Axes
    BY <1>0, <1>5 DEF Store, TypeOK
  <2>2. words' \in Targets
    BY <1>0, <1>5, <2>1 DEF Store, TypeOK, Targets, Calls
  <2>3. setter' \in [Setters -> Calls]
    <3>1. setter[c].word + 1 \in 1..(Words + 1)
      BY <2>1, Sizes DEF Axes
    <3>2. QED
      BY <1>0, <1>5, <2>1, <3>1 DEF Store, TypeOK, Calls
  <2>4. QED
    BY <1>0, <1>5, <2>2, <2>3 DEF Store, TypeOK, slot
<1>6. ASSUME NEW c \in Setters, Close(c) PROVE TypeOK'
  <2>1. setter[c].target \in Targets
    BY <1>0 DEF TypeOK, Calls
  <2>2. log' \in Seq(Targets)
    BY <1>0, <1>6, <2>1 DEF Close, TypeOK
  <2>3. setter' \in [Setters -> Calls] /\ seq' \in Nat
    BY <1>0, <1>6, Values DEF Close, TypeOK
  <2>4. QED
    BY <1>0, <1>6, <2>2, <2>3 DEF Close, TypeOK, slot
<1>7. CASE Stop \/ Drop \/ Join
  <2>1. loop.result \in {"none", "ok", "error"}
    BY <1>0, LoopTyped DEF TypeOK, WellFormed, Typed
  <2>2. QED
    BY <1>0, <1>7, <2>1 DEF Stop, Drop, Join, TypeOK, slot
<1>8. CASE FirstCycle
  <2>1. loop' \in Loops
    BY <1>0, <1>8, FirstCycleEffect, LoopTyped
  <2>2. log' \in Seq(Targets) /\ words' \in Targets /\ seq' \in Nat
    BY <1>0, <1>8, Values DEF FirstCycle, TypeOK
  <2>3. QED
    BY <1>0, <1>8, <2>1, <2>2 DEF FirstCycle, TypeOK
<1>9. CASE LoopStep
  <2>1. loop' \in Loops
    BY <1>0, <1>9, LoopStepKeeps, LoopTyped
  <2>2. QED
    BY <1>0, <1>9, <2>1, LoopStepKeeps DEF TypeOK
<1>10. CASE UNCHANGED vars
  BY <1>0, <1>10 DEF vars, slot, TypeOK
<1>11. QED
  BY <1>1, <1>2, <1>3, <1>4, <1>5, <1>6, <1>7, <1>8, <1>9, <1>10
     DEF Next, Sets, Cycles, LoopStep

\* Every step preserves the mutual exclusion of the writers.
LEMMA LockedStep ==
    ASSUME IInv, [Next]_vars
    PROVE  Locked'
<1>0. TypeOK /\ Locked /\ Started /\ Finishing
  BY DEF IInv
<1>1. ASSUME NEW c \in Setters, Call(c) PROVE Locked'
  BY <1>0, <1>1, SettersAssumption DEF Call, Locked, TypeOK, Calls
<1>2. ASSUME NEW c \in Setters, Lock(c) PROVE Locked'
  BY <1>0, <1>2, SettersAssumption DEF Lock, Locked, TypeOK, Calls, NoCall
<1>3. ASSUME NEW c \in Setters, Modify(c) PROVE Locked'
  BY <1>0, <1>3, SettersAssumption DEF Modify, Locked, TypeOK, Calls, NoCall
<1>4. ASSUME NEW c \in Setters, Open(c) \/ Store(c) PROVE Locked'
  BY <1>0, <1>4, SettersAssumption DEF Open, Store, Locked, TypeOK, Calls
<1>5. ASSUME NEW c \in Setters, Close(c) PROVE Locked'
  BY <1>0, <1>5, SettersAssumption DEF Close, Locked, TypeOK, Calls, NoCall
<1>6. CASE Stop \/ Drop \/ Join
  BY <1>0, <1>6 DEF Stop, Drop, Join, NoCalls, Locked
<1>7. CASE FirstCycle
  BY <1>0, <1>7 DEF FirstCycle, Locked, Started
<1>8. CASE LoopStep
  BY <1>0, <1>8, LoopStepKeeps DEF Locked
<1>9. CASE UNCHANGED vars
  BY <1>0, <1>9 DEF vars, Locked
<1>10. QED
  BY <1>1, <1>2, <1>3, <1>4, <1>5, <1>6, <1>7, <1>8, <1>9 DEF Next, Sets, Cycles, LoopStep

\* Every step preserves what holds before the first cycle and after a stop.
LEMMA StartedStep ==
    ASSUME IInv, [Next]_vars
    PROVE  Started'
<1>0. TypeOK /\ Locked /\ Started /\ Finishing /\ Follows
  BY DEF IInv
<1>1. ASSUME NEW c \in Setters, Call(c) \/ Lock(c) \/ Modify(c) \/ Open(c) \/ Store(c) PROVE Started'
  BY <1>0, <1>1 DEF Call, Lock, Modify, Open, Store, Started, Locked, slot
<1>2. ASSUME NEW c \in Setters, Close(c) PROVE Started'
  BY <1>0, <1>2 DEF Close, Started, Locked, TypeOK
<1>3. CASE Stop \/ Drop \/ Join
  BY <1>0, <1>3 DEF Stop, Drop, Join, Over, Started, slot
<1>4. CASE FirstCycle
  BY <1>0, <1>4, FirstCycleEffect DEF FirstCycle, Started, TypeOK
<1>5. CASE LoopStep
  <2>1. CASE loop.anchored
    BY <1>0, <1>5, <2>1, LoopStepKeeps DEF Started
  <2>2. CASE ~loop.anchored
    <3>1. ~Cycle /\ ~Hold
      <4>1. (Cycle => loop.anchored) /\ (Hold => loop.hold > 0)
        BY DEF Cycle, Hold
      <4>2. QED
        BY <1>0, <2>2, <4>1 DEF Started
    <3>2. ~Load /\ ~Copy /\ ~Loaded /\ ~Plan /\ ~Observed /\ ~Panics
      BY <1>0, <2>2 DEF Load, Copy, Loaded, Plan, Observed, Panics, Started
    <3>3. LoopFails \/ Ends
      BY <1>5, <3>1, <3>2 DEF LoopStep
    <3>4. /\ loop'.at \in {"ending", "ended"} /\ loop'.hold = loop.hold /\ loop'.target = loop.target
          /\ loop'.deviated = loop.deviated
      BY <1>0, <3>3, EndEffect DEF Keeps, LoopFields, LoopFails, Ends, Observed, Panics
    <3>5. QED
      BY <1>0, <1>5, <2>2, <3>4, LoopStepKeeps DEF Started
  <2>3. QED
    BY <2>1, <2>2
<1>6. CASE UNCHANGED vars
  BY <1>0, <1>6 DEF vars, slot, Started
<1>7. QED
  BY <1>1, <1>2, <1>3, <1>4, <1>5, <1>6 DEF Next, Sets, Cycles, LoopStep

\* Every step preserves that the targets in the log are different.
LEMMA FreshStep ==
    ASSUME IInv, [Next]_vars
    PROVE  Fresh'
<1>0. TypeOK /\ Locked /\ Started /\ Fresh /\ Seqlock /\ Finishing
  BY DEF IInv
<1>1. ASSUME NEW c \in Setters, Close(c) PROVE Fresh'
  <2> DEFINE n == Len(log)
  <2>1. loop.anchored /\ n \in Nat \ {0} /\ log \in Seq(Targets) /\ setter[c].target \in Targets
    BY <1>0, <1>1 DEF Close, Locked, Started, TypeOK, Calls
  <2>2. PICK a \in Axes : setter[c].target = [Last EXCEPT ![a] = n + 1]
    BY <1>0, <1>1, <2>1 DEF Seqlock, Close
  <2>3. Last \in Targets /\ \A b \in Axes : Last[b] <= n /\ Last[b] \in Nat
    <3>1. Last = log[n] /\ n \in 1..Len(log)
      BY <2>1 DEF Last
    <3>2. Last \in Targets
      BY <2>1, <3>1
    <3>3. \A b \in Axes : Last[b] <= n
      BY <1>0, <3>1 DEF Fresh, Distinct
    <3>4. QED
      BY <3>2, <3>3 DEF Targets
  <2>4. /\ Len(log') = n + 1 /\ log'[n + 1] = setter[c].target
        /\ \A i \in 1..n : log'[i] = log[i]
    BY <1>1, <2>1 DEF Close
  <2>5. setter[c].target[a] = n + 1 /\ \A b \in Axes : setter[c].target[b] <= n + 1
    BY <2>1, <2>2, <2>3 DEF Targets
  <2>6. QED
    BY <1>0, <2>1, <2>4, <2>5 DEF Fresh, Distinct
<1>2. CASE FirstCycle
  <2>1. log = <<>>
    BY <1>0, <1>2 DEF FirstCycle, Started
  <2>2. Len(log') = 1 /\ log'[1] = Anchor
    BY <1>2, <2>1 DEF FirstCycle
  <2>3. 1 \in Axes /\ \A a \in Axes : Anchor[a] = 1
    BY Sizes DEF Axes, Anchor
  <2>4. QED
    BY <2>2, <2>3 DEF Fresh, Distinct
<1>3. ASSUME log' = log PROVE Fresh'
  BY <1>0, <1>3 DEF Fresh, Distinct
<1>4. ASSUME NEW c \in Setters, Call(c) \/ Lock(c) \/ Modify(c) \/ Open(c) \/ Store(c)
      PROVE  log' = log
  BY <1>4 DEF Call, Lock, Modify, Open, Store
<1>5. Stop \/ Drop \/ Join \/ UNCHANGED vars => log' = log
  BY DEF Stop, Drop, Join, vars
<1>6. LoopStep => log' = log
  BY <1>0, LoopStepKeeps
<1>7. QED
  BY <1>1, <1>2, <1>3, <1>4, <1>5, <1>6 DEF Next, Sets, Cycles, LoopStep

\* Every step preserves what the slot holds while its sequence is even, and odd.
LEMMA SeqlockStep ==
    ASSUME IInv, [Next]_vars
    PROVE  Seqlock'
<1>0. TypeOK /\ Locked /\ Started /\ Seqlock /\ Finishing
  BY DEF IInv
<1>a. ASSUME UNCHANGED <<seq, words, loop, log>>,
             \A d \in Setters : \/ setter'[d] = setter[d]
                                \/ /\ setter[d].at \notin {"opening", "storing"}
                                   /\ setter'[d].at \notin {"opening", "storing"}
      PROVE  Seqlock'
  BY <1>0, <1>a DEF Seqlock, Last
<1>1. ASSUME NEW c \in Setters, Call(c) PROVE Seqlock'
  <2>1. UNCHANGED <<seq, words, loop, log>> /\ setter[c].at = "out" /\ setter'[c].at = "locking"
        /\ \A d \in Setters \ {c} : setter'[d] = setter[d]
    BY <1>0, <1>1 DEF Call, TypeOK, Calls, slot
  <2>2. QED
    BY <1>a, <2>1
<1>2. ASSUME NEW c \in Setters, Lock(c) PROVE Seqlock'
  <2>1. UNCHANGED <<seq, words, loop, log>> /\ setter[c].at = "locking"
    BY <1>2 DEF Lock, slot
  <2>2. setter' = [setter EXCEPT ![c] = NoCall] \/ setter' = [setter EXCEPT ![c].at = "modifying"]
    BY <1>2 DEF Lock
  <2>3. setter'[c].at \in {"out", "modifying"} /\ \A d \in Setters \ {c} : setter'[d] = setter[d]
    BY <1>0, <2>2 DEF TypeOK, Calls, NoCall
  <2>4. QED
    BY <1>a, <2>1, <2>3
<1>3. ASSUME NEW c \in Setters, Modify(c) PROVE Seqlock'
  <2>1. loop.anchored /\ UNCHANGED <<seq, words, loop, log>> /\ writer = c
    BY <1>0, <1>3 DEF Modify, Locked, Started, slot
  <2>2. \A d \in Setters : setter[d].at \notin {"opening", "storing"}
    BY <1>0, <1>3, <2>1 DEF Modify, Locked
  <2>3. words = Last
    BY <1>0, <2>1, <2>2 DEF Seqlock
  <2>4. CASE setter' = [setter EXCEPT ![c] = NoCall]
    <3>1. setter'[c].at = "out" /\ \A d \in Setters \ {c} : setter'[d] = setter[d]
      BY <1>0, <2>4 DEF TypeOK, NoCall
    <3>2. QED
      BY <1>a, <2>1, <2>2, <3>1
  <2>5. ASSUME NEW a \in Axes,
               setter' = [setter EXCEPT ![c] = [at |-> "opening", word |-> 1,
                                                target |-> [words EXCEPT ![a] = Len(log) + 1]]]
        PROVE  Seqlock'
    <3>1. /\ setter'[c].at = "opening" /\ setter'[c].word = 1
          /\ setter'[c].target = [Last EXCEPT ![a] = Len(log) + 1]
          /\ \A d \in Setters \ {c} : setter'[d] = setter[d]
      BY <1>0, <2>3, <2>5 DEF TypeOK
    <3>2. QED
      BY <1>0, <2>1, <2>2, <3>1 DEF Seqlock, Last
  <2>6. QED
    BY <1>3, <2>4, <2>5 DEF Modify
<1>4. ASSUME NEW c \in Setters, Open(c) PROVE Seqlock'
  <2>1. loop.anchored /\ UNCHANGED <<words, loop, log>> /\ writer = c /\ seq' = seq + 1
    BY <1>0, <1>4 DEF Open, Locked, Started
  <2>2. \A d \in Setters : setter[d].at # "storing" /\ (d # c => setter[d].at # "opening")
    BY <1>0, <1>4, <2>1 DEF Open, Locked
  <2>3. seq = 2 * Len(log) /\ words = Last
    BY <1>0, <2>1, <2>2 DEF Seqlock
  <2>4. /\ setter'[c].at = "storing" /\ setter'[c].word = 1 /\ setter'[c].target = setter[c].target
        /\ \A d \in Setters \ {c} : setter'[d] = setter[d]
    BY <1>0, <1>4, <2>1 DEF Open, TypeOK, Calls, Seqlock
  <2>5. \E a \in Axes : setter[c].target = [Last EXCEPT ![a] = Len(log) + 1]
    BY <1>0, <1>4, <2>1 DEF Open, Seqlock
  <2>6. \A a \in Axes : ~(a < 1)
    BY DEF Axes
  <2>7. seq' = 2 * Len(log) + 1
    BY <2>1, <2>3
  <2>8. QED
    BY <2>1, <2>2, <2>3, <2>4, <2>5, <2>6, <2>7 DEF Seqlock, Last
<1>5. ASSUME NEW c \in Setters, Store(c) PROVE Seqlock'
  <2> DEFINE w == setter[c].word
  <2>1. loop.anchored /\ UNCHANGED <<seq, loop, log>> /\ writer = c /\ setter[c].at = "storing"
        /\ w \in Axes
    BY <1>0, <1>5 DEF Store, Locked, Started
  <2>2. \A d \in Setters \ {c} : setter[d].at \notin {"opening", "storing"}
    BY <1>0, <2>1 DEF Locked
  <2>3. /\ setter'[c].at = "storing" /\ setter'[c].word = w + 1 /\ setter'[c].target = setter[c].target
        /\ \A d \in Setters \ {c} : setter'[d] = setter[d]
    BY <1>0, <1>5, <2>1 DEF Store, TypeOK, Calls
  <2>4. /\ seq = 2 * Len(log) + 1
        /\ \A a \in Axes : words[a] = IF a < w THEN setter[c].target[a] ELSE Last[a]
        /\ \E a \in Axes : setter[c].target = [Last EXCEPT ![a] = Len(log) + 1]
    BY <1>0, <2>1 DEF Seqlock
  <2>5. words' = [words EXCEPT ![w] = setter[c].target[w]] /\ words \in Targets
    BY <1>0, <1>5 DEF Store, TypeOK
  <2>6. \A a \in Axes : words'[a] = IF a < w + 1 THEN setter[c].target[a] ELSE Last[a]
    BY <2>1, <2>4, <2>5 DEF Targets, Axes
  <2> HIDE DEF w
  <2>7. UNCHANGED <<Last, seq>> /\ Len(log') = Len(log) /\ loop'.anchored
    BY <2>1 DEF Last
  <2>8. \A d \in Setters \ {c} : setter'[d].at \notin {"opening", "storing"}
    BY <2>2, <2>3
  <2>9. /\ seq' = 2 * Len(log') + 1
        /\ \A a \in Axes : words'[a] = IF a < setter'[c].word THEN setter'[c].target[a] ELSE Last'[a]
        /\ \E a \in Axes : setter'[c].target = [Last' EXCEPT ![a] = Len(log') + 1]
    BY <2>3, <2>4, <2>6, <2>7
  <2>10. QED
    BY <2>3, <2>8, <2>9 DEF Seqlock
<1>6. ASSUME NEW c \in Setters, Close(c) PROVE Seqlock'
  <2>1. loop.anchored /\ UNCHANGED <<words, loop>> /\ writer = c /\ setter[c].at = "storing"
        /\ setter[c] \in Calls /\ setter[c].word \notin Axes /\ words \in Targets
        /\ log \in Seq(Targets)
    BY <1>0, <1>6 DEF Close, Locked, Started, TypeOK
  <2>2. \A d \in Setters \ {c} : setter[d].at \notin {"opening", "storing"}
    BY <1>0, <2>1 DEF Locked
  <2>3. setter'[c].at = "out" /\ \A d \in Setters \ {c} : setter'[d] = setter[d]
    BY <1>0, <1>6 DEF Close, TypeOK, NoCall
  <2>4. /\ seq = 2 * Len(log) + 1
        /\ \A a \in Axes : words[a] = IF a < setter[c].word THEN setter[c].target[a] ELSE Last[a]
    BY <1>0, <2>1 DEF Seqlock
  <2>5. \A a \in Axes : a < setter[c].word
    BY <2>1, Sizes DEF Calls, Axes
  <2>6. words = setter[c].target
    BY <2>1, <2>4, <2>5 DEF Calls, Targets
  <2>7. seq' = 2 * Len(log') /\ Last' = setter[c].target
    BY <1>6, <2>1, <2>4 DEF Close, Last, Calls
  <2>8. QED
    BY <2>1, <2>2, <2>3, <2>6, <2>7 DEF Seqlock
<1>7. CASE Stop \/ Drop \/ Join \/ UNCHANGED vars
  <2>1. UNCHANGED <<seq, words, loop, log, setter>>
    BY <1>7 DEF Stop, Drop, Join, vars, slot
  <2>2. QED
    BY <1>a, <2>1
<1>8. CASE FirstCycle
  <2>1. log = <<>> /\ seq = 0 /\ \A d \in Setters : setter[d].at = "out"
    BY <1>0, <1>8 DEF FirstCycle, Started, Locked
  <2>2. seq' = 2 /\ words' = Anchor /\ log' = <<Anchor>> /\ setter' = setter
    BY <1>8, <2>1 DEF FirstCycle
  <2>3. QED
    BY <2>1, <2>2 DEF Seqlock, Last
<1>9. CASE LoopStep
  BY <1>0, <1>9, LoopStepKeeps DEF Seqlock, Last
<1>10. QED
  BY <1>1, <1>2, <1>3, <1>4, <1>5, <1>6, <1>7, <1>8, <1>9 DEF Next, Sets, Cycles, LoopStep

\* Every step preserves what a load has read so far.
LEMMA ReadingStep ==
    ASSUME IInv, [Next]_vars
    PROVE  Reading'
<1>0. TypeOK /\ Locked /\ Started /\ Seqlock /\ Reading /\ Follows /\ Finishing
  BY DEF IInv
<1>a. ASSUME UNCHANGED <<seq, words, loop, log>> PROVE Reading'
  BY <1>0, <1>a DEF Reading
<1>b. loop.at = "copying" => loop.anchored
  BY <1>0 DEF Follows
<1>1. ASSUME NEW c \in Setters, Call(c) \/ Lock(c) \/ Modify(c) PROVE Reading'
  <2>1. UNCHANGED <<seq, words, loop, log>>
    BY <1>1 DEF Call, Lock, Modify, slot
  <2>2. QED
    BY <1>a, <2>1
<1>2. ASSUME NEW c \in Setters, Open(c), loop.at = "copying" PROVE Reading'
  <2>1. UNCHANGED <<words, loop, log>> /\ seq' = seq + 1
    BY <1>2 DEF Open
  <2>2. \A d \in Setters : setter[d].at # "storing"
    BY <1>0, <1>2 DEF Open, Locked
  <2>3. seq = 2 * Len(log) /\ Len(log) \in Nat
    BY <1>0, <1>2, <1>b, <2>2 DEF Seqlock, TypeOK
  <2>4. PICK k \in 1..Len(log) : loop.before = 2 * k /\ \E j \in 1..k : loop.target = log[j]
    BY <1>0, <1>2 DEF Reading
  <2>5. seq' # loop.before
    BY <2>1, <2>3, <2>4
  <2>6. QED
    BY <2>1, <2>4, <2>5 DEF Reading
<1>3. ASSUME NEW c \in Setters, Store(c), loop.at = "copying" PROVE Reading'
  <2>1. UNCHANGED <<seq, loop, log>>
    BY <1>3 DEF Store
  <2>2. seq = 2 * Len(log) + 1 /\ Len(log) \in Nat
    BY <1>0, <1>3, <1>b DEF Store, Seqlock, TypeOK
  <2>3. PICK k \in 1..Len(log) : loop.before = 2 * k /\ \E j \in 1..k : loop.target = log[j]
    BY <1>0, <1>3 DEF Reading
  <2>4. seq' # loop.before
    BY <2>1, <2>2, <2>3
  <2>5. QED
    BY <2>1, <2>3, <2>4 DEF Reading
<1>4. ASSUME NEW c \in Setters, Close(c), loop.at = "copying" PROVE Reading'
  <2>1. UNCHANGED <<words, loop>> /\ log' = Append(log, setter[c].target) /\ seq' = seq + 1
    BY <1>4 DEF Close
  <2>2. seq = 2 * Len(log) + 1 /\ Len(log) \in Nat /\ log \in Seq(Targets)
    BY <1>0, <1>4, <1>b DEF Close, Seqlock, TypeOK
  <2>3. PICK k \in 1..Len(log) : loop.before = 2 * k /\ \E j \in 1..k : loop.target = log[j]
    BY <1>0, <1>4 DEF Reading
  <2>4. seq' # loop.before
    BY <2>1, <2>2, <2>3
  <2>5. Len(log') = Len(log) + 1 /\ \A i \in 1..Len(log) : log'[i] = log[i]
    BY <2>1, <2>2
  <2>6. k \in 1..Len(log') /\ \E j \in 1..k : loop.target = log'[j]
    BY <2>2, <2>3, <2>5
  <2>7. QED
    BY <2>1, <2>3, <2>4, <2>6 DEF Reading
<1>5. ASSUME NEW c \in Setters, Open(c) \/ Store(c) \/ Close(c), loop.at # "copying" PROVE Reading'
  BY <1>5 DEF Open, Store, Close, Reading
<1>6. CASE Stop \/ Drop \/ Join \/ UNCHANGED vars
  <2>1. UNCHANGED <<seq, words, loop, log>>
    BY <1>6 DEF Stop, Drop, Join, vars, slot
  <2>2. QED
    BY <1>a, <2>1
<1>7. CASE Load
  <2>1. UNCHANGED <<seq, words, log>> /\ loop.anchored /\ ~loop.deviated /\ loop.at = "loading"
    BY <1>0, <1>7 DEF Load, Quiet, slot, Follows
  <2>2. PICK j \in 1..Len(log) : loop.target = log[j]
    BY <1>0, <2>1 DEF Follows
  <2>3. Len(log) \in Nat /\ loop'.target = loop.target
    BY <1>0, <1>7, LoadEffect DEF TypeOK, Keeps, LoopFields
  <2>4. ASSUME loop'.at = "copying" PROVE Reading'
    <3>1. loop'.before = seq /\ loop'.word = 1 /\ seq # 0 /\ seq % 2 # 1
      BY <1>0, <1>7, <2>4, LoadEffect
    <3>2. \A d \in Setters : setter[d].at # "storing"
      <4>1. ASSUME NEW d \in Setters, setter[d].at = "storing" PROVE FALSE
        <5>1. seq = 2 * Len(log) + 1
          BY <1>0, <2>1, <4>1 DEF Seqlock
        <5>2. QED
          BY <2>3, <3>1, <5>1
      <4>2. QED
        BY <4>1
    <3>3. seq = 2 * Len(log)
      BY <1>0, <2>1, <3>2 DEF Seqlock
    <3>4. \A a \in Axes : ~(a < 1)
      BY DEF Axes
    <3>5. Len(log) \in 1..Len(log) /\ \E i \in 1..Len(log) : loop'.target = log[i]
      BY <2>2, <2>3
    <3>6. QED
      BY <2>1, <3>1, <3>3, <3>4, <3>5 DEF Reading
  <2>5. QED
    BY <2>4 DEF Reading
<1>8. CASE Copy
  <2>1. UNCHANGED <<seq, words, log>> /\ loop.at = "copying" /\ loop.word \in Axes
    BY <1>8 DEF Copy, Quiet, slot
  <2>2. /\ loop'.before = loop.before /\ loop'.target = loop.target
        /\ loop'.copy = [loop.copy EXCEPT ![loop.word] = words[loop.word]]
        /\ loop'.word = loop.word + 1 /\ loop.copy \in Targets
    BY <1>0, <1>8, CopyEffect, LoopTyped DEF Keeps, LoopFields, TypeOK, WellFormed, Typed
  <2>3. ASSUME seq = loop.before, NEW a \in Axes, a < loop.word + 1
        PROVE  loop'.copy[a] = words[a]
    <3>1. a < loop.word => loop.copy[a] = words[a]
      BY <1>0, <2>1, <2>3 DEF Reading
    <3>2. a < loop.word \/ a = loop.word
      BY <2>1, <2>3 DEF Axes
    <3>3. loop'.copy[a] = IF a = loop.word THEN words[a] ELSE loop.copy[a]
      BY <2>2 DEF Targets
    <3>4. QED
      BY <2>1, <3>1, <3>2, <3>3 DEF Axes
  <2>4. QED
    BY <1>0, <2>1, <2>2, <2>3 DEF Reading
<1>9. CASE Cycle \/ Loaded \/ Plan \/ Hold \/ Observed \/ Panics \/ LoopFails \/ Ends
  <2>1. loop'.at # "copying"
    BY <1>0, <1>9, CycleEffect, LoadedEffect, PlanEffect, HoldEffect, EndEffect
  <2>2. QED
    BY <2>1 DEF Reading
<1>10. CASE FirstCycle
  BY <1>0, <1>10, FirstCycleEffect DEF Reading
<1>11. QED
  BY <1>1, <1>2, <1>3, <1>4, <1>5, <1>6, <1>7, <1>8, <1>9, <1>10 DEF Next, Sets, Cycles

\* What a load that is not refused has read is the last target.
LEMMA LoadIsLast ==
    ASSUME TypeOK, Started, Seqlock, Reading, Follows, Loaded, seq = loop.before
    PROVE  loop.copy = Last /\ Len(log) \in 1..Len(log)
<1>1. /\ loop.at = "copying" /\ loop.word \notin Axes /\ loop.anchored
      /\ loop.word \in 1..(Words + 1) /\ loop.copy \in Targets /\ words \in Targets
      /\ log \in Seq(Targets) /\ log # <<>>
  <2>1. loop.at = "copying" /\ loop.word \notin Axes
    BY DEF Loaded
  <2>2. loop.word \in 1..(Words + 1) /\ loop.copy \in Targets
    BY LoopTyped DEF TypeOK, WellFormed, Typed
  <2>3. loop.anchored
    BY <2>1 DEF Follows
  <2>4. QED
    BY <2>1, <2>2, <2>3 DEF Started, TypeOK
<1>2. \A a \in Axes : a < loop.word
  BY <1>1, Sizes DEF Axes
<1>3. loop.copy = words
  BY <1>1, <1>2 DEF Reading, Targets
<1>4. Len(log) \in Nat
  BY <1>1
<1>5. \A d \in Setters : setter[d].at # "storing"
  <2>1. PICK k \in 1..Len(log) : loop.before = 2 * k
    BY <1>1 DEF Reading
  <2>2. ASSUME NEW d \in Setters, setter[d].at = "storing" PROVE FALSE
    <3>1. seq = 2 * Len(log) + 1
      BY <1>1, <2>2 DEF Seqlock
    <3>2. QED
      BY <1>4, <2>1, <3>1
  <2>3. QED
    BY <2>2
<1>6. words = Last
  BY <1>1, <1>5 DEF Seqlock
<1>7. QED
  BY <1>1, <1>3, <1>6

\* Every step preserves that the loop follows a target of the log, or none.
LEMMA FollowsStep ==
    ASSUME IInv, [Next]_vars
    PROVE  Follows'
<1>0. TypeOK /\ Locked /\ Started /\ Seqlock /\ Reading /\ Follows /\ Finishing
  BY DEF IInv
<1>1. ASSUME NEW c \in Setters, Call(c) \/ Lock(c) \/ Modify(c) \/ Open(c) \/ Store(c) PROVE Follows'
  BY <1>0, <1>1 DEF Call, Lock, Modify, Open, Store, Follows
<1>2. ASSUME NEW c \in Setters, Close(c) PROVE Follows'
  <2>1. loop' = loop /\ log' = Append(log, setter[c].target) /\ log \in Seq(Targets)
    BY <1>0, <1>2 DEF Close, TypeOK
  <2>2. Len(log') = Len(log) + 1 /\ Len(log) \in Nat /\ \A i \in 1..Len(log) : log'[i] = log[i]
    BY <2>1
  <2>3. \A j \in 1..Len(log) : loop.target = log[j] => j \in 1..Len(log') /\ loop.target = log'[j]
    BY <2>2
  <2>4. QED
    BY <1>0, <2>1, <2>3 DEF Follows
<1>3. CASE Stop \/ Drop \/ Join \/ UNCHANGED vars
  BY <1>0, <1>3 DEF Stop, Drop, Join, vars, Follows
<1>4. CASE FirstCycle
  <2>1. log = <<>> /\ ~loop.deviated /\ loop.hold = 0
    BY <1>0, <1>4 DEF FirstCycle, Started
  <2>2. log' = <<Anchor>>
    BY <1>4, <2>1 DEF FirstCycle
  <2>3. /\ loop'.at = "planning" /\ loop'.anchored /\ loop'.target = Anchor
        /\ loop'.deviated = loop.deviated /\ loop'.hold = loop.hold
    BY <1>0, <1>4, FirstCycleEffect DEF Keeps, LoopFields
  <2>4. 1 \in 1..Len(log') /\ log'[1] = Anchor
    BY <2>2
  <2>5. QED
    BY <2>1, <2>3, <2>4 DEF Follows
<1>5. CASE Cycle
  <2>1. log' = log /\ loop.anchored /\ loop.hold = 0
    BY <1>5 DEF Cycle, Quiet
  <2>2. (loop'.anchored <=> loop.anchored) /\ loop'.hold = loop.hold
    BY <1>0, <1>5, CycleEffect DEF Keeps, LoopFields
  <2>3. \/ loop'.at = "planning" /\ loop'.deviated /\ loop.deviated /\ loop'.target = loop.target
        \/ loop'.at = "planning" /\ loop'.deviated /\ ~loop.deviated /\ loop'.target = Unset
        \/ loop'.at = "loading" /\ ~loop'.deviated /\ ~loop.deviated /\ loop'.target = loop.target
    BY <1>0, <1>5, CycleEffect
  <2>4. QED
    BY <1>0, <2>1, <2>2, <2>3 DEF Follows
<1>6. CASE Load
  <2>1. log' = log /\ loop.at = "loading"
    BY <1>6 DEF Load, Quiet
  <2>2. /\ (loop'.anchored <=> loop.anchored) /\ (loop'.deviated <=> loop.deviated)
        /\ loop'.hold = loop.hold /\ loop'.target = loop.target
    BY <1>0, <1>6, LoadEffect DEF Keeps, LoopFields
  <2>3. QED
    BY <1>0, <2>1, <2>2 DEF Follows
<1>7. CASE Copy
  <2>1. log' = log /\ loop.at = "copying"
    BY <1>7 DEF Copy, Quiet
  <2>2. /\ (loop'.anchored <=> loop.anchored) /\ (loop'.deviated <=> loop.deviated)
        /\ loop'.hold = loop.hold /\ loop'.target = loop.target
    BY <1>0, <1>7, CopyEffect DEF Keeps, LoopFields
  <2>3. QED
    BY <1>0, <2>1, <2>2 DEF Follows
<1>8. CASE Loaded
  <2>1. log' = log /\ loop.at = "copying" /\ loop.word \notin Axes
    BY <1>8 DEF Loaded, Quiet
  <2>2. loop.anchored /\ ~loop.deviated /\ loop.hold = 0
    BY <1>0, <2>1 DEF Follows
  <2>3. /\ (loop'.anchored <=> loop.anchored) /\ (loop'.deviated <=> loop.deviated)
        /\ loop'.hold = loop.hold
    BY <1>0, <1>8, LoadedEffect DEF Keeps, LoopFields
  <2>4. CASE loop'.target = loop.target
    BY <1>0, <2>1, <2>2, <2>3, <2>4 DEF Follows
  <2>5. CASE loop'.target = loop.copy /\ seq = loop.before
    <3>1. loop.copy = Last /\ Len(log) \in 1..Len(log)
      BY <1>0, <1>8, <2>5, LoadIsLast
    <3>2. QED
      BY <2>1, <2>2, <2>3, <2>5, <3>1 DEF Follows, Last
  <2>6. QED
    BY <1>0, <1>8, <2>4, <2>5, LoadedEffect
<1>9. CASE Plan \/ Hold \/ Observed \/ Panics \/ LoopFails \/ Ends
  <2>1. log' = log /\ (loop'.anchored <=> loop.anchored) /\ loop'.at \notin {"loading", "copying", "planning"}
    BY <1>0, <1>9, LoopStepKeeps, PlanEffect, HoldEffect, EndEffect DEF LoopStep
  <2>2. (loop'.deviated <=> loop.deviated) /\ loop'.target = loop.target
    BY <1>0, <1>9, PlanEffect, HoldEffect, EndEffect DEF Keeps, LoopFields
  <2>3. QED
    BY <1>0, <2>1, <2>2 DEF Follows
<1>10. QED
  BY <1>1, <1>2, <1>3, <1>4, <1>5, <1>6, <1>7, <1>8, <1>9 DEF Next, Sets, Cycles

\* Every step preserves that a stop is planned with the last target.
LEMMA LandingStep ==
    ASSUME IInv, [Next]_vars
    PROVE  Landing'
<1>0. TypeOK /\ Locked /\ Started /\ Seqlock /\ Reading /\ Follows /\ Landing /\ Finishing
  BY DEF IInv
<1>1. ASSUME NEW c \in Setters, Call(c) \/ Lock(c) \/ Modify(c) \/ Open(c) \/ Store(c) PROVE Landing'
  BY <1>0, <1>1 DEF Call, Lock, Modify, Open, Store, Landing, Last
<1>2. ASSUME NEW c \in Setters, Close(c) PROVE Landing'
  <2>1. ~stop /\ loop' = loop /\ stop' = stop
    BY <1>0, <1>2 DEF Close, Locked, Started
  <2>2. QED
    BY <1>0, <2>1 DEF Landing
<1>3. CASE Stop \/ Drop \/ Join \/ UNCHANGED vars
  BY <1>0, <1>3 DEF Stop, Drop, Join, vars, Landing, Last
<1>4. CASE FirstCycle
  <2>1. log = <<>> /\ loop.hold = 0 /\ loop.ends = "none" /\ stop' = stop
    BY <1>0, <1>4 DEF FirstCycle, Started, Landing
  <2>2. Last' = Anchor
    BY <1>4, <2>1 DEF FirstCycle, Last
  <2>3. /\ loop'.target = Anchor /\ loop'.hold = loop.hold /\ loop'.ends = loop.ends
        /\ (loop'.stopping <=> loop.stopping) /\ (loop'.deviated <=> loop.deviated)
    BY <1>0, <1>4, FirstCycleEffect DEF Keeps, LoopFields
  <2>4. QED
    BY <1>0, <2>1, <2>2, <2>3 DEF Landing
<1>5. CASE LoopStep
  <2>0. UNCHANGED <<stop, log, Last>>
    BY <1>0, <1>5, LoopStepKeeps DEF Last
  <2>1. CASE Cycle
    <3>1. loop.hold = 0 /\ loop.ends = "none"
      BY <1>0, <2>1 DEF Cycle, Landing
    <3>2. /\ loop'.hold = loop.hold /\ loop'.ends = loop.ends
          /\ loop'.stopping <=> loop.deviated \/ stop
      BY <1>0, <2>1, CycleEffect DEF Keeps, LoopFields
    <3>3. \/ loop'.at = "planning" /\ loop'.deviated
          \/ loop'.at = "loading" /\ ~loop'.deviated /\ ~loop.deviated
      BY <1>0, <2>1, CycleEffect
    <3>4. QED
      BY <2>0, <3>1, <3>2, <3>3 DEF Landing
  <2>2. CASE Load
    <3>1. /\ loop'.hold = loop.hold /\ loop'.ends = loop.ends /\ loop'.target = loop.target
          /\ (loop'.stopping <=> loop.stopping) /\ (loop'.deviated <=> loop.deviated)
      BY <1>0, <2>2, LoadEffect DEF Keeps, LoopFields
    <3>2. loop'.at = "planning" => ~loop.stopping
      BY <1>0, <2>2, LoadEffect
    <3>3. QED
      BY <1>0, <2>0, <3>1, <3>2 DEF Landing
  <2>3. CASE Copy
    <3>1. /\ loop'.hold = loop.hold /\ loop'.ends = loop.ends /\ loop'.target = loop.target
          /\ (loop'.stopping <=> loop.stopping) /\ (loop'.deviated <=> loop.deviated)
          /\ loop'.at = loop.at
      BY <1>0, <2>3, CopyEffect DEF Keeps, LoopFields
    <3>2. QED
      BY <1>0, <2>0, <3>1 DEF Landing
  <2>4. CASE Loaded
    <3>1. /\ loop'.hold = loop.hold /\ loop'.ends = loop.ends
          /\ (loop'.stopping <=> loop.stopping) /\ (loop'.deviated <=> loop.deviated)
      BY <1>0, <2>4, LoadedEffect DEF Keeps, LoopFields
    <3>2. loop'.at = "planning" /\ loop.stopping => loop'.target = Last
      BY <1>0, <2>4, LoadedEffect, LoadIsLast
    <3>3. loop.at = "copying"
      BY <2>4 DEF Loaded
    <3>4. loop.ends = "none"
      BY <1>0, <3>3 DEF Follows, Landing
    <3>5. QED
      BY <1>0, <2>0, <3>1, <3>2, <3>4 DEF Landing
  <2>5. CASE Plan
    <3>1. loop.at = "planning" /\ loop.hold = 0
      BY <1>0, <2>5 DEF Plan, Follows
    <3>2. /\ loop'.at = "observing" /\ loop'.target = loop.target
          /\ (loop'.stopping <=> loop.stopping) /\ (loop'.deviated <=> loop.deviated)
      BY <1>0, <2>5, PlanEffect DEF Keeps, LoopFields
    <3>3. CASE loop'.hold = loop.hold /\ loop'.ends = loop.ends
      BY <1>0, <2>0, <3>2, <3>3 DEF Landing
    <3>4. CASE /\ loop.stopping \/ loop.deviated
               /\ loop'.hold = 1 /\ loop'.ends \in {"landed", "gave up"}
               /\ loop'.ends = "landed" => ~loop.deviated
      <4>1. loop'.ends = "landed" => stop /\ ~loop.deviated /\ loop.target = Last
        BY <1>0, <3>1, <3>4 DEF Landing
      <4>5. loop'.hold = 1 /\ loop'.ends \in {"landed", "gave up"}
        BY <3>4
      <4>2. loop'.hold # 0 /\ loop'.ends # "none"
        <5>1. 1 # 0 /\ \A e \in {"landed", "gave up"} : e # "none"
          OBVIOUS
        <5>2. QED
          BY <4>5, <5>1
      <4>3. loop.stopping /\ ~loop.deviated => stop
        BY <1>0 DEF Landing
      <4>4. QED
        BY <2>0, <3>2, <4>1, <4>2, <4>3 DEF Landing
    <3>5. QED
      BY <1>0, <2>5, <3>3, <3>4, PlanEffect
  <2>6. CASE Hold
    <3>1. /\ loop'.at = "observing" /\ loop'.hold > 0 /\ loop'.ends = loop.ends
          /\ loop'.target = loop.target
          /\ (loop'.stopping <=> loop.stopping) /\ (loop'.deviated <=> loop.deviated)
      BY <1>0, <2>6, HoldEffect DEF Keeps, LoopFields
    <3>2. loop.hold > 0
      BY <2>6 DEF Hold
    <3>3. loop.hold # 0 /\ loop'.hold # 0
      BY <3>1, <3>2
    <3>4. QED
      BY <1>0, <2>0, <3>1, <3>3 DEF Landing
  <2>7. CASE Observed \/ Panics \/ LoopFails \/ Ends
    <3>1. /\ loop'.hold = loop.hold /\ loop'.ends = loop.ends /\ loop'.target = loop.target
          /\ (loop'.stopping <=> loop.stopping) /\ (loop'.deviated <=> loop.deviated)
      BY <1>0, <2>7, EndEffect DEF Keeps, LoopFields
    <3>2. loop'.at # "planning"
      BY <1>0, <2>7, EndEffect
    <3>3. QED
      BY <1>0, <2>0, <3>1, <3>2 DEF Landing
  <2>8. QED
    BY <1>5, <2>1, <2>2, <2>3, <2>4, <2>5, <2>6, <2>7 DEF LoopStep
<1>6. QED
  BY <1>1, <1>2, <1>3, <1>4, <1>5 DEF Next, Sets, Cycles, LoopStep

\* Every step preserves that the result comes after the settle window.
LEMMA FinishingStep ==
    ASSUME IInv, [Next]_vars
    PROVE  Finishing'
<1>0. TypeOK /\ Locked /\ Started /\ Follows /\ Finishing
  BY DEF IInv
<1>1. ASSUME NEW c \in Setters, Call(c) \/ Lock(c) \/ Modify(c) \/ Open(c) \/ Store(c) \/ Close(c)
      PROVE  Finishing'
  BY <1>0, <1>1 DEF Call, Lock, Modify, Open, Store, Close, Finishing
<1>2. CASE Stop \/ Drop \/ UNCHANGED vars
  BY <1>0, <1>2 DEF Stop, Drop, vars, Finishing
<1>3. CASE Join
  <2>1. loop' = loop /\ handle' = "gone" /\ (result' = "error" \/ result' = loop.result)
    BY <1>3 DEF Join
  <2>2. QED
    BY <1>0, <2>1 DEF Finishing
<1>4. CASE FirstCycle
  <2>1. loop.at = "cycle" /\ result' = result /\ handle = "starting"
    BY <1>0, <1>4 DEF FirstCycle, Started
  <2>2. ~loop.finished /\ loop.result = "none" /\ result # "ok"
    BY <1>0, <2>1 DEF Finishing
  <2>3. /\ (loop'.finished <=> loop.finished) /\ loop'.result = loop.result
        /\ loop'.waited = loop.waited
    BY <1>0, <1>4, FirstCycleEffect DEF Keeps, LoopFields
  <2>4. QED
    BY <1>0, <2>1, <2>2, <2>3 DEF Finishing
<1>5. CASE LoopStep
  <2>0. UNCHANGED <<handle, result>>
    BY <1>0, <1>5, LoopStepKeeps
  <2>1. CASE Cycle \/ Load \/ Copy \/ Loaded \/ Plan
    <3>1. loop.at \in {"cycle", "loading", "copying", "planning"}
      BY <2>1 DEF Cycle, Load, Copy, Loaded, Plan
    <3>2. ~loop.finished /\ loop.result = "none" /\ result # "ok"
      BY <1>0, <3>1 DEF Finishing
    <3>3. /\ (loop'.finished <=> loop.finished) /\ loop'.result = loop.result
          /\ loop'.waited = loop.waited
      BY <1>0, <2>1, CycleEffect, LoadEffect, CopyEffect, LoadedEffect, PlanEffect
         DEF Keeps, LoopFields
    <3>4. QED
      BY <1>0, <2>0, <3>2, <3>3 DEF Finishing
  <2>2. CASE Hold
    <3>1. loop.at = "cycle"
      BY <2>2 DEF Hold
    <3>2. loop.result = "none" /\ result # "ok"
      BY <1>0, <3>1 DEF Finishing
    <3>3. loop'.result = loop.result
      BY <1>0, <2>2, HoldEffect DEF Keeps, LoopFields
    <3>4. QED
      BY <1>0, <2>0, <2>2, <3>2, <3>3, HoldEffect DEF Finishing
  <2>3. CASE Observed \/ Panics \/ LoopFails \/ Ends
    <3>1. /\ (loop'.finished <=> loop.finished) /\ (loop'.deviated <=> loop.deviated)
          /\ loop'.hold = loop.hold /\ loop'.waited = loop.waited
      BY <1>0, <2>3, EndEffect DEF Keeps, LoopFields
    <3>2. Observed \/ Panics => loop.at = "observing"
      BY DEF Observed, Panics
    <3>3. (LoopFails => loop.at = "cycle") /\ (Ends => loop.at = "ending")
      BY DEF LoopFails, Ends
    <3>4. CASE Ends /\ loop'.at = "ended" /\ loop'.result = loop.result
      BY <1>0, <2>0, <3>1, <3>4 DEF Finishing
    <3>5. CASE LoopFails /\ loop'.at = "ending" /\ loop'.result = "error"
      BY <1>0, <2>0, <3>1, <3>3, <3>5 DEF Finishing
    <3>6. CASE Panics /\ loop'.at = "panicked" /\ loop'.result = loop.result
      BY <1>0, <2>0, <3>1, <3>2, <3>6 DEF Finishing
    <3>7. CASE Observed /\ ~loop.finished /\ loop'.at = "cycle" /\ loop'.result = loop.result
      BY <1>0, <2>0, <3>1, <3>2, <3>7 DEF Finishing
    <3>8. CASE /\ Observed /\ loop.finished /\ loop'.at = "ending"
               /\ loop'.result = "ok" => ~loop.deviated
      BY <1>0, <2>0, <3>1, <3>2, <3>8 DEF Finishing
    <3>9. QED
      BY <1>0, <2>3, <3>4, <3>5, <3>6, <3>7, <3>8, EndEffect
  <2>4. QED
    BY <1>5, <2>1, <2>2, <2>3 DEF LoopStep
<1>6. QED
  BY <1>1, <1>2, <1>3, <1>4, <1>5 DEF Next, Sets, Cycles, LoopStep

-----------------------------------------------------------------------------
(* The invariant. *)

\* The invariant holds at the start.
LEMMA Initially == Init => IInv
<1> SUFFICES ASSUME Init
             PROVE  IInv
  OBVIOUS
<1>1. /\ WellFormed(loop) /\ loop.at = "cycle" /\ loop.target = Unset /\ loop.hold = 0
      /\ loop.ends = "none" /\ loop.waited = 0 /\ loop.result = "none"
      /\ ~loop.anchored /\ ~loop.deviated /\ ~loop.stopping /\ ~loop.finished
  <2>1. Shaped(loop)
    BY DEF Init, Shaped, LoopFields
  <2>2. 0 \in 0..(Tries - 1) /\ 1 \in 1..(Words + 1) /\ 0 \in 0..(SettleCycles + 1)
        /\ 0 \in 0..StopTimeout /\ 0 \in 0..(StopTimeout + 1)
    BY Sizes
  <2>3. Typed(loop)
    BY <2>2, Values DEF Init, Typed, LoopPlaces
  <2>4. QED
    BY <2>1, <2>3 DEF Init, WellFormed
<1>2. loop \in Loops
  BY <1>1, LoopTyped
<1>3. TypeOK
  <2>1. setter \in [Setters -> Calls] /\ words \in Targets /\ log \in Seq(Targets) /\ sets \in 0..MaxSets
    BY Values, Sizes DEF Init
  <2>2. QED
    BY <1>2, <2>1 DEF Init, TypeOK
<1>4. Locked
  BY SettersAssumption DEF Init, Locked, NoCall
<1>5. Started /\ Fresh /\ Seqlock /\ Reading
  BY <1>1 DEF Init, Started, Fresh, Distinct, Seqlock, Reading
<1>6. Follows /\ Landing /\ Finishing
  BY <1>1, Sizes DEF Init, Follows, Landing, Finishing
<1>7. QED
  BY <1>3, <1>4, <1>5, <1>6 DEF IInv

\* The inductive invariant.
THEOREM Invariance == Spec => []IInv
<1>1. Init => IInv
  BY Initially
<1>2. IInv /\ [Next]_vars => IInv'
  BY TypeStep, LockedStep, StartedStep, FreshStep, SeqlockStep, ReadingStep, FollowsStep,
     LandingStep, FinishingStep DEF IInv
<1>3. QED
  BY <1>1, <1>2, PTL DEF Spec

\* Every variable has its type, and the loop's counters stay within the code's limits.
THEOREM TypeCorrect == Spec => []TypeOK
<1>1. IInv => TypeOK
  BY DEF IInv
<1>2. QED
  BY <1>1, Invariance, PTL

\* Ok out of stop(): the settle window was held, without a deviation, on the last target unless
\* patience ran out (JointTargetControl::stop, Runner::finish).
THEOREM OkIsAtRest == Spec => []OkMeansAtRest
<1>1. IInv => OkMeansAtRest
  BY DEF IInv, Finishing, Landing, Last, OkMeansAtRest
<1>2. QED
  BY <1>1, Invariance, PTL

\* Each published target differs from the one before in one word (Handle::modify_target).
THEOREM OthersWordsKept == Spec => KeepsOthersWords
<1> DEFINE OneWord == log' # log /\ log # <<>> =>
                          \E a \in Axes : \A b \in Axes \ {a} : log'[Len(log')][b] = log[Len(log)][b]
<1>1. IInv /\ [Next]_vars => [OneWord]_vars
  <2> SUFFICES ASSUME IInv, Next
               PROVE  OneWord
    BY DEF vars
  <2>0. TypeOK /\ Locked /\ Started /\ Seqlock /\ Finishing
    BY DEF IInv
  <2>1. ASSUME NEW c \in Setters, Close(c) PROVE OneWord
    <3>1. log' = Append(log, setter[c].target) /\ log \in Seq(Targets) /\ loop.anchored /\ log # <<>>
      BY <2>0, <2>1 DEF Close, TypeOK, Locked, Started
    <3>2. PICK a \in Axes : setter[c].target = [Last EXCEPT ![a] = Len(log) + 1]
      BY <2>0, <2>1, <3>1 DEF Seqlock, Close
    <3>3. Len(log) \in 1..Len(log) /\ log[Len(log)] \in Targets /\ Len(log') = Len(log) + 1
          /\ log'[Len(log) + 1] = setter[c].target
      BY <3>1
    <3>4. \A b \in Axes \ {a} : setter[c].target[b] = log[Len(log)][b]
      BY <3>2, <3>3 DEF Last, Targets
    <3>5. QED
      BY <3>3, <3>4
  <2>2. CASE FirstCycle
    BY <2>0, <2>2 DEF FirstCycle, Started
  <2>3. ASSUME log' = log PROVE OneWord
    BY <2>3
  <2>4. ASSUME NEW c \in Setters, Call(c) \/ Lock(c) \/ Modify(c) \/ Open(c) \/ Store(c)
        PROVE  log' = log
    BY <2>4 DEF Call, Lock, Modify, Open, Store
  <2>5. Stop \/ Drop \/ Join => log' = log
    BY DEF Stop, Drop, Join
  <2>6. LoopStep => log' = log
    BY <2>0, LoopStepKeeps
  <2>7. QED
    BY <2>1, <2>2, <2>3, <2>4, <2>5, <2>6 DEF Next, Sets, Cycles, LoopStep
<1>2. QED
  BY <1>1, Invariance, PTL DEF Spec, KeepsOthersWords

-----------------------------------------------------------------------------
(* Target control implements TargetRegister. *)

\* Two places in the log hold different targets.
LEMMA PositionOf ==
    ASSUME NEW s \in Seq(Targets), Distinct(s), NEW j \in 1..Len(s)
    PROVE  Position(s, s[j]) = j
<1>1. s[j] # Unset
  <2>1. PICK a \in Axes : s[j][a] = j
    BY DEF Distinct
  <2>2. Unset[a] = 0
    BY DEF Unset
  <2>3. QED
    BY <2>1, <2>2
<1>2. \A i \in 1..Len(s) : s[i] = s[j] => i = j
  <2> SUFFICES ASSUME NEW i \in 1..Len(s), s[i] = s[j], i # j
               PROVE  FALSE
    OBVIOUS
  <2>1. PICK a \in Axes : s[j][a] = j
    BY DEF Distinct
  <2>2. PICK b \in Axes : s[i][b] = i
    BY DEF Distinct
  <2>3. s[i][a] <= i /\ s[j][b] <= j
    BY DEF Distinct
  <2>4. QED
    BY <2>1, <2>2, <2>3
<1>3. (CHOOSE i \in 1..Len(s) : s[i] = s[j]) = j
  BY <1>2
<1>4. QED
  BY <1>1, <1>3 DEF Position

\* The loop's target is in the log, at its position.
LEMMA Followed ==
    ASSUME IInv, loop.anchored, ~loop.deviated
    PROVE  /\ Position(log, loop.target) \in 1..Len(log)
           /\ loop.target = log[Position(log, loop.target)]
<1>1. log \in Seq(Targets) /\ Distinct(log)
  BY DEF IInv, TypeOK, Fresh
<1>2. PICK j \in 1..Len(log) : loop.target = log[j]
  BY DEF IInv, Follows
<1>3. Position(log, loop.target) = j
  BY <1>1, <1>2, PositionOf
<1>4. QED
  BY <1>2, <1>3

\* No target has no place.
LEMMA Nowhere == \A s : Position(s, Unset) = 0
  BY DEF Position

\* Only these change what the register sees.
Seen == <<log, loop.target, loop.ends, loop.deviated, stop>>

\* A step that leaves these alone is a stutter of the register.
LEMMA Unseen ==
    ASSUME UNCHANGED Seen
    PROVE  UNCHANGED Promise!vars
  BY DEF Seen, Promise!vars, Phase

\* The register's initial state.
LEMMA RegisterInit ==
    ASSUME Init
    PROVE  Promise!Init
<1>1. loop.target = Unset /\ loop.ends = "none" /\ loop.deviated = FALSE
  BY DEF Init
<1>2. Position(log, loop.target) = 0
  BY <1>1, Nowhere
<1>3. Phase = "follow"
  BY <1>1 DEF Phase
<1>4. log = <<>> /\ stop = FALSE
  BY DEF Init
<1>5. QED
  BY <1>2, <1>3, <1>4 DEF Promise!Init

\* The end of a writer's publishing is an Accept.
LEMMA CloseAccepts ==
    ASSUME IInv, IInv', NEW c \in Setters, Close(c)
    PROVE  Promise!Accept
<1>0. TypeOK /\ Locked /\ Started /\ Follows /\ Fresh /\ Fresh'
  BY DEF IInv
<1>1. /\ log' = Append(log, setter[c].target) /\ setter[c].at = "storing"
      /\ UNCHANGED <<loop, stop>>
  BY DEF Close
<1>2. /\ log \in Seq(Targets) /\ log' \in Seq(Targets)
  BY DEF IInv, TypeOK
<1>3. handle = "open"
  BY <1>0, <1>1 DEF Locked
<1>4. ~stop /\ loop.anchored /\ log # <<>>
  BY <1>0, <1>3 DEF Started
<1>5. /\ Len(log') = Len(log) + 1
      /\ \A i \in 1..Len(log) : log'[i] = log[i]
  BY <1>1, <1>2
<1>6. Position(log', loop'.target) = Position(log, loop.target)
  <2>1. CASE loop.deviated
    <3>1. loop.target = Unset /\ loop'.target = Unset
      BY <1>0, <1>1, <1>4, <2>1 DEF Follows
    <3>2. QED
      BY <3>1, Nowhere
  <2>2. CASE ~loop.deviated
    <3>1. PICK j \in 1..Len(log) : loop.target = log[j]
      BY <1>0, <1>4, <2>2 DEF Follows
    <3>2. j \in 1..Len(log') /\ loop'.target = log'[j]
      BY <1>1, <1>2, <1>5, <3>1
    <3>3. Distinct(log) /\ Distinct(log')
      BY <1>0 DEF Fresh
    <3>4. Position(log, loop.target) = j
      BY <1>2, <3>1, <3>3, PositionOf
    <3>5. Position(log', loop'.target) = j
      BY <1>2, <3>2, <3>3, PositionOf
    <3>6. QED
      BY <3>4, <3>5
  <2>3. QED
    BY <2>1, <2>2
<1>7. Phase' = Phase
  BY <1>1 DEF Phase
<1>8. Promise!Grows
  BY <1>2, <1>5 DEF Promise!Grows
<1>9. QED
  BY <1>1, <1>4, <1>6, <1>7, <1>8 DEF Promise!Accept

\* The loop's first cycle is the register's Anchor.
LEMMA FirstAnchors ==
    ASSUME IInv, IInv', FirstCycle
    PROVE  Promise!Anchor
<1>0. TypeOK /\ Started /\ Landing /\ Fresh'
  BY DEF IInv
<1>1. /\ log' = Append(log, Anchor) /\ stop' = stop /\ ~loop.anchored /\ loop.at = "cycle"
  BY DEF FirstCycle
<1>2. log \in Seq(Targets) /\ log' \in Seq(Targets)
  BY DEF IInv, TypeOK
<1>3. /\ log = <<>> /\ loop.hold = 0
  BY <1>0, <1>1 DEF Started
<1>4. loop.ends = "none"
  BY <1>0, <1>3 DEF Landing
<1>5. ~loop.deviated
  BY <1>0, <1>1 DEF Started
<1>6. loop'.target = Anchor /\ loop'.ends = loop.ends /\ (loop'.deviated <=> loop.deviated)
  BY <1>0, FirstCycleEffect DEF Keeps, LoopFields
<1>7. Len(log') = Len(log) + 1 /\ log'[1] = Anchor /\ 1 \in 1..Len(log')
      /\ \A i \in 1..Len(log) : log'[i] = log[i]
  BY <1>1, <1>2, <1>3, Values
<1>8. Position(log', loop'.target) = 1
  <2>1. Distinct(log')
    BY <1>0 DEF Fresh
  <2>2. Position(log', log'[1]) = 1
    BY <1>2, <1>7, <2>1, PositionOf
  <2>3. QED
    BY <1>6, <1>7, <2>2
<1>9. Phase' = Phase
  BY <1>4, <1>5, <1>6 DEF Phase
<1>10. Promise!Grows
  BY <1>2, <1>7 DEF Promise!Grows
<1>11. QED
  BY <1>1, <1>3, <1>8, <1>9, <1>10 DEF Promise!Anchor

\* A deviation freezes the register; any other cycle it does not see.
LEMMA CycleFreezes ==
    ASSUME IInv, Cycle
    PROVE  Promise!Freeze \/ UNCHANGED Promise!vars
<1>0. TypeOK /\ Follows /\ Landing /\ loop.hold = 0
  BY DEF IInv, Cycle
<1>1. UNCHANGED <<log, stop>>
  BY DEF Cycle, Quiet
<1>2. loop.ends = "none"
  BY <1>0 DEF Landing
<1>3. loop'.ends = loop.ends
  BY <1>0, CycleEffect DEF Keeps, LoopFields
<1>4. CASE loop'.deviated /\ ~loop.deviated /\ loop'.target = Unset
  <2>1. Phase = "follow" /\ Phase' = "frozen"
    BY <1>2, <1>3, <1>4 DEF Phase
  <2>2. Position(log', loop'.target) = 0
    BY <1>4, Nowhere
  <2>3. QED
    BY <1>1, <2>1, <2>2 DEF Promise!Freeze
<1>5. CASE (loop'.deviated <=> loop.deviated) /\ loop'.target = loop.target
  <2>1. Phase' = Phase
    BY <1>3, <1>5 DEF Phase
  <2>2. Position(log, loop.target)' = Position(log, loop.target)
    BY <1>1, <1>5
  <2>3. QED
    BY <1>1, <2>1, <2>2 DEF Promise!vars
<1>6. QED
  BY <1>0, <1>4, <1>5, CycleEffect

\* What the loop loads is a later target, or the one it has.
LEMMA LoadedAdopts ==
    ASSUME IInv, Loaded
    PROVE  Promise!Adopt \/ UNCHANGED Promise!vars
<1>0. TypeOK /\ Started /\ Fresh /\ Seqlock /\ Reading /\ Follows /\ Landing /\ loop.at = "copying"
  BY DEF IInv, Loaded
<1>1. UNCHANGED <<log, stop>>
  BY DEF Loaded, Quiet
<1>2. loop.anchored /\ ~loop.deviated /\ loop.hold = 0
  BY <1>0 DEF Follows
<1>3. loop.ends = "none"
  BY <1>0, <1>2 DEF Landing
<1>4. loop'.ends = loop.ends /\ (loop'.deviated <=> loop.deviated)
  BY <1>0, LoadedEffect DEF Keeps, LoopFields
<1>5. Phase = "follow" /\ Phase' = "follow"
  BY <1>2, <1>3, <1>4 DEF Phase
<1>6. CASE loop'.target = loop.target
  <2>1. Position(log, loop.target)' = Position(log, loop.target)
    BY <1>1, <1>6
  <2>2. QED
    BY <1>1, <1>5, <2>1 DEF Promise!vars
<1>7. CASE loop'.target = loop.copy /\ seq = loop.before
  <2>1. loop'.target = log[Len(log)] /\ Len(log) \in 1..Len(log)
    BY <1>0, <1>7, LoadIsLast DEF Last
  <2>2. log \in Seq(Targets) /\ Distinct(log)
    BY <1>0 DEF TypeOK, Fresh
  <2>3. Position(log', loop'.target) = Len(log)
    BY <1>1, <2>1, <2>2, PositionOf
  <2>4. Position(log, loop.target) \in 1..Len(log)
    BY <1>2, Followed
  <2>5. CASE Position(log, loop.target) = Len(log)
    BY <1>1, <1>5, <2>3, <2>5 DEF Promise!vars
  <2>6. CASE Position(log, loop.target) # Len(log)
    <3>1. Len(log) \in (Position(log, loop.target) + 1)..Len(log)
      BY <2>1, <2>4, <2>6
    <3>2. QED
      BY <1>1, <1>5, <2>3, <3>1 DEF Promise!Adopt
  <2>7. QED
    BY <2>5, <2>6
<1>8. QED
  BY <1>0, <1>6, <1>7, LoadedEffect

\* A stop's plan comes to rest on the last target, or gives up.
LEMMA PlanRests ==
    ASSUME IInv, IInv', Plan
    PROVE  Promise!Rest \/ Promise!GiveUp \/ UNCHANGED Promise!vars
<1>0. TypeOK /\ Fresh /\ Started /\ Follows /\ Landing /\ Landing' /\ loop.at = "planning"
  BY DEF IInv, Plan
<1>1. UNCHANGED <<log, stop>>
  BY DEF Plan, Quiet
<1>2. loop'.target = loop.target /\ (loop'.deviated <=> loop.deviated)
      /\ (loop'.anchored <=> loop.anchored)
  BY <1>0, PlanEffect DEF Keeps, LoopFields
<1>3. Position(log, loop.target)' = Position(log, loop.target)
  BY <1>1, <1>2
<1>4. loop.ends = "none"
  BY <1>0 DEF Follows, Landing
<1>5. Phase = IF loop.deviated THEN "frozen" ELSE "follow"
  BY <1>4 DEF Phase
<1>6. CASE loop'.ends = loop.ends
  <2>1. Phase' = Phase
    BY <1>2, <1>6 DEF Phase
  <2>2. QED
    BY <1>1, <1>3, <2>1 DEF Promise!vars
<1>7. CASE loop'.ends = "landed"
  <2>1. Phase' = "landed"
    BY <1>7 DEF Phase
  <2>2. stop' /\ ~loop'.deviated /\ loop'.target = log'[Len(log')]
    BY <1>0, <1>7 DEF Landing, Last
  <2>3. stop /\ ~loop.deviated /\ loop.target = log[Len(log)]
    BY <1>1, <1>2, <2>2
  <2>4. log \in Seq(Targets) /\ Distinct(log) /\ loop.anchored
    BY <1>0 DEF TypeOK, Fresh, Started
  <2>5. Len(log) \in 1..Len(log)
    BY <1>0, <2>4 DEF Started
  <2>6. Position(log, loop.target) = Len(log)
    BY <2>3, <2>4, <2>5, PositionOf
  <2>7. QED
    BY <1>1, <1>3, <1>5, <2>1, <2>3, <2>6 DEF Promise!Rest
<1>8. CASE loop'.ends = "gave up" /\ (loop.stopping \/ loop.deviated)
  <2>1. Phase' = "gave up"
    BY <1>8 DEF Phase
  <2>2. loop.deviated \/ stop
    BY <1>0, <1>8 DEF Landing
  <2>3. QED
    BY <1>1, <1>3, <1>5, <2>1, <2>2 DEF Promise!GiveUp
<1>9. QED
  BY <1>0, <1>6, <1>7, <1>8, PlanEffect

\* Every other step of the loop and its callers is not seen.
LEMMA OthersUnseen ==
    ASSUME IInv,
           \/ \E c \in Setters : Call(c) \/ Lock(c) \/ Modify(c) \/ Open(c) \/ Store(c)
           \/ Join \/ Load \/ Copy \/ Hold \/ Observed \/ Panics \/ LoopFails \/ Ends
           \/ UNCHANGED vars
    PROVE  UNCHANGED Promise!vars
<1>0. TypeOK /\ Finishing
  BY DEF IInv
<1>1. CASE \E c \in Setters : Call(c) \/ Lock(c) \/ Modify(c) \/ Open(c) \/ Store(c)
  <2>1. UNCHANGED <<log, loop, stop>>
    BY <1>1 DEF Call, Lock, Modify, Open, Store
  <2>2. QED
    BY <2>1, Unseen DEF Seen
<1>2. CASE Join \/ UNCHANGED vars
  <2>1. UNCHANGED <<log, loop, stop>>
    BY <1>2 DEF Join, vars
  <2>2. QED
    BY <2>1, Unseen DEF Seen
<1>3. CASE Load \/ Copy \/ Hold \/ Observed \/ Panics \/ LoopFails \/ Ends
  <2>1. UNCHANGED <<log, stop>>
    BY <1>0, <1>3, LoopStepKeeps DEF LoopStep
  <2>2. loop'.target = loop.target /\ loop'.ends = loop.ends /\ loop'.deviated = loop.deviated
    BY <1>0, <1>3, LoadEffect, CopyEffect, HoldEffect, EndEffect DEF Keeps, LoopFields
  <2>3. QED
    BY <2>1, <2>2, Unseen DEF Seen
<1>4. QED
  BY <1>1, <1>2, <1>3

\* Target control implements the register: every behaviour of the callers, the slot and the loop
\* is one of TargetRegister, with the followed target's place for `at' (TargetSlot::load,
\* Handle::modify_target, Runner::cycle).
THEOREM Refinement == Spec => IsRegister
<1>1. Init => Promise!Init
  BY RegisterInit
<1>2. IInv /\ IInv' /\ [Next]_vars => [Promise!Next]_(Promise!vars)
  <2> SUFFICES ASSUME IInv, IInv', [Next]_vars
               PROVE  Promise!Next \/ UNCHANGED Promise!vars
    OBVIOUS
  <2>1. ASSUME NEW c \in Setters, Close(c)
        PROVE  Promise!Next
    BY <2>1, CloseAccepts DEF Promise!Next
  <2>2. CASE FirstCycle
    BY <2>2, FirstAnchors DEF Promise!Next
  <2>3. CASE Cycle \/ Loaded \/ Plan
    BY <2>3, CycleFreezes, LoadedAdopts, PlanRests DEF Promise!Next
  <2>4. CASE Stop \/ Drop
    <3>1. stop' = TRUE /\ UNCHANGED <<log, loop>>
      BY <2>4 DEF Stop, Drop
    <3>2. Phase' = Phase /\ Position(log, loop.target)' = Position(log, loop.target)
      BY <3>1 DEF Phase
    <3>3. QED
      BY <3>1, <3>2 DEF Promise!Next, Promise!Close
  <2>5. QED
    BY <2>1, <2>2, <2>3, <2>4, OthersUnseen DEF Next, Sets, Cycles
<1>3. QED
  BY <1>1, <1>2, Invariance, PTL DEF Spec, IsRegister, Promise!Spec
=============================================================================
