-------------------------- MODULE TargetRegister --------------------------
(***************************************************************************)
(* What target control promises its commander: the targets it accepts form *)
(* one sequence; the loop follows one of them, whole, and never goes back  *)
(* to an earlier one; a stop comes to rest on the last one, unless a guard *)
(* froze the command first or the loop ran out of patience.                *)
(***************************************************************************)
EXTENDS Naturals, Sequences

CONSTANT Targets

VARIABLES
    log,    \* the targets that were accepted
    at,     \* the place in it of the one the loop follows, 0 if none
    phase,  \* what the loop does with it
    closed  \* nothing more is accepted

vars == <<log, at, phase, closed>>

Init == log = <<>> /\ at = 0 /\ phase = "follow" /\ closed = FALSE

\* One target more.
Grows ==
    /\ log' \in Seq(Targets)
    /\ Len(log') = Len(log) + 1
    /\ \A i \in 1..Len(log) : log'[i] = log[i]

Accept ==
    /\ ~closed /\ log # <<>>
    /\ Grows
    /\ UNCHANGED <<at, phase, closed>>

\* The loop starts where the command is, which is the first target.
Anchor ==
    /\ log = <<>>
    /\ Grows
    /\ at' = 1
    /\ UNCHANGED <<phase, closed>>

Adopt ==
    /\ phase = "follow"
    /\ \E i \in (at + 1)..Len(log) : at' = i
    /\ UNCHANGED <<log, phase, closed>>

Freeze ==
    /\ phase = "follow"
    /\ phase' = "frozen" /\ at' = 0
    /\ UNCHANGED <<log, closed>>

Close ==
    /\ closed' = TRUE
    /\ UNCHANGED <<log, at, phase>>

Rest ==
    /\ phase = "follow" /\ closed /\ at = Len(log)
    /\ phase' = "landed"
    /\ UNCHANGED <<log, at, closed>>

\* Frozen, or out of patience in a stop: the command rests where it is.
GiveUp ==
    /\ phase = "frozen" \/ (phase = "follow" /\ closed)
    /\ phase' = "gave up"
    /\ UNCHANGED <<log, at, closed>>

Next == Accept \/ Anchor \/ Adopt \/ Freeze \/ Close \/ Rest \/ GiveUp

Spec == Init /\ [][Next]_vars
=============================================================================
