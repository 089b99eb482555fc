------------------------------ MODULE NodeGate ------------------------------
(***************************************************************************)
(* The gate of an arm's targets (franka-node guard.rs), with the arm that  *)
(* follows the accepted ones and a network that loses, repeats and         *)
(* reorders what its clients send.                                         *)
(*                                                                         *)
(* A target is one whole number, which stands for the position and for the *)
(* orientation (the same rules under other limits), or for a joint; a      *)
(* number outside Places is one that is not finite or not of unit norm.    *)
(* Time is in ticks, Second of them to a second, and tokens are counted in *)
(* as many parts: one tick adds Rate parts.  What a target is judged       *)
(* against is not where the arm is but where the last state tick    *)
(* saw it; MaxTravel is how far the loop takes the arm between two of      *)
(* those ticks, its speed limit times their period.                        *)
(***************************************************************************)
EXTENDS Integers, Sequences, FiniteSets, FiniteSetsExt

CONSTANTS
    Commander, OtherClients,
    Places,         \* positions an arm can be at
    Box,            \* GuardOptions::workspace, or the joint limits less their inset
    MaxStep,        \* max_step, max_step_rotation, max_step_joint
    MaxLead,        \* max_lead or max_lead_rotation; 0 disables
    MaxTravel,      \* how far the loop moves the arm between two state ticks
    Rate,           \* rate_hz
    Second,         \* ticks of the clock in a second, and parts of a token
    MaxTargetSeq,   \* bound: targets of a client
    MaxNow,         \* bound: ticks
    MaxPushes,      \* bound: times a hand pushes the arm
    MaxWire,        \* bound: targets on the network at once
    NoPlace

ASSUME GateAssumption ==
    /\ Places \subseteq Int /\ Box \subseteq Places
    /\ MaxStep \in Nat /\ MaxLead \in Nat /\ MaxTravel \in Nat /\ MaxPushes \in Nat
    /\ Rate \in Nat \ {0} /\ Second \in Nat /\ MaxTargetSeq \in Nat /\ MaxNow \in Nat
    /\ \A x, y \in Places : x..y \subseteq Places

GateClients == {Commander} \cup OtherClients

VARIABLES
    kind,       \* the session's kind
    gate,       \* Guard: holder, last_seq, previous, tokens, refilled_ns, and of its options
                \* whether the other half of the pose has a lead limit
    snapshot,   \* where the arm was at the last state tick
    place,      \* external: where the arm is
    now,        \* the monotonic clock
    sent,       \* external: how many targets each client has sent
    wire,       \* external: the targets on the network
    passed,     \* history: the targets accepted from this holder, with their times
    coast,      \* history: how far the loop has moved the arm since the last accepted target
    pushes      \* bound; whether a hand has pushed the arm since the snapshot, and since the one
                \* the last accepted target was judged against

gateVars == <<kind, gate, snapshot, place, now, sent, wire, passed, coast, pushes>>

Targets == [client : GateClients, seq : 1..MaxTargetSeq, kind : {"cartesian", "joints"},
            data : Places \cup {NoPlace}, anchor : BOOLEAN]
Depth == 2 * Rate * Second

GateTypeOK ==
    /\ kind \in {"cartesian", "joints"}
    /\ gate.holder \in GateClients /\ gate.last \in 0..MaxTargetSeq /\ gate.previous \in Places
    /\ gate.tokens \in 0..Depth /\ gate.refilled \in 0..now /\ gate.other \in BOOLEAN
    /\ snapshot \in Places /\ place \in Places /\ now \in 0..MaxNow
    /\ sent \in [GateClients -> 0..MaxTargetSeq] /\ wire \subseteq Targets
    /\ coast \in Nat

\* with_kind and set_holder: a session steps from where the arm is.
GateInit ==
    /\ kind \in {"cartesian", "joints"} /\ place \in Box /\ snapshot = place /\ now = 0
    /\ gate \in [holder : {Commander}, last : {0}, previous : {place}, tokens : {Depth},
                 refilled : {0}, other : BOOLEAN]
    /\ sent = [c \in GateClients |-> 0] /\ wire = {} /\ passed = <<>> /\ coast = 0
    /\ pushes \in [left : 0..MaxPushes, unseen : {FALSE}, since : {FALSE}]

-----------------------------------------------------------------------------
Abs(x) == IF x < 0 THEN -x ELSE x
LeadBounded == MaxLead > 0 /\ gate.other

\* refill: never more than the bucket holds, and a clock that stood still refills nothing.
Refilled_Unbounded == gate.tokens + Rate * (now - gate.refilled)
Refilled == Min({gate.tokens + Rate * (now - gate.refilled), Depth})

\* judge: the session's kind, its holder, in order.
FromTheCommander_AnyOrder(m) == m.kind = kind /\ m.client = gate.holder
FromTheCommander(m) == m.kind = kind /\ m.client = gate.holder /\ m.seq > gate.last

\* judge_cartesian: an anchored target steps from where the arm was seen, if that is known to
\* bound it.
StepsFrom_Previous(m) == gate.previous
StepsFrom(m) == IF m.anchor /\ LeadBounded THEN snapshot ELSE gate.previous

Leads_Unchecked(m) == FALSE
Leads(m) == MaxLead > 0 /\ Abs(m.data - snapshot) > MaxLead

\* judge_cartesian, judge_joints: a joint target has no reference to lead or to anchor on.
Fits(m) ==
    /\ m.data \in Places
    /\ IF kind = "cartesian"
         THEN Abs(m.data - StepsFrom(m)) <= MaxStep /\ ~Leads(m)
         ELSE Abs(m.data - gate.previous) <= MaxStep
    /\ m.data \in Box

Accept(m) ==
    /\ FromTheCommander(m) /\ Fits(m) /\ Refilled >= Second
    /\ gate' = [gate EXCEPT !.tokens = Refilled - Second, !.refilled = now,
                            !.last = m.seq, !.previous = m.data]
    /\ passed' = Append(passed, [seq |-> m.seq, t |-> now])
    /\ coast' = 0 /\ pushes' = [pushes EXCEPT !.since = pushes.unseen]
    /\ UNCHANGED <<kind, snapshot, place, now, sent, wire>>

\* Mutant: the time counts as refilled, the tokens are not kept.
Refuse_LosesRefill(m) ==
    /\ FromTheCommander(m) /\ Fits(m) /\ Refilled < Second
    /\ gate' = [gate EXCEPT !.refilled = now]
    /\ UNCHANGED <<kind, snapshot, place, now, sent, wire, passed, coast, pushes>>

\* A refusal changes nothing, but for the refill of a target refused for its rate alone.
Refuse(m) ==
    /\ FromTheCommander(m) /\ Fits(m) /\ Refilled < Second
    /\ gate' = [gate EXCEPT !.tokens = Refilled, !.refilled = now]
    /\ UNCHANGED <<kind, snapshot, place, now, sent, wire, passed, coast, pushes>>

-----------------------------------------------------------------------------
(* External. *)

\* Bound: what is of the wrong kind or not from the commander comes first and repeats the last
\* target.
SendTarget ==
    \E m \in Targets :
      /\ Cardinality(wire) < MaxWire /\ m.seq = sent[m.client] + 1
      /\ m.kind # kind \/ m.client # gate.holder =>
           m.data = gate.previous /\ ~m.anchor /\ m.seq = 1
      /\ sent' = [sent EXCEPT ![m.client] = @ + 1] /\ wire' = wire \cup {m}
      /\ UNCHANGED <<kind, gate, snapshot, place, now, passed, coast, pushes>>

\* A target stays on the network, to arrive again, until the network drops it.
NetworkDrops ==
    /\ \E m \in wire : wire' = wire \ {m}
    /\ UNCHANGED <<kind, gate, snapshot, place, now, sent, passed, coast, pushes>>

\* The loop moves the arm toward the last accepted target, as far as it gets in a state tick.
Follow ==
    /\ place # gate.previous
    /\ place' = IF gate.previous > place THEN place + 1 ELSE place - 1
    /\ pushes.unseen \/ Abs(place' - snapshot) <= MaxTravel
    /\ coast' = coast + 1
    /\ UNCHANGED <<kind, gate, snapshot, now, sent, wire, passed, pushes>>

HandPushes ==
    /\ pushes.left > 0
    /\ pushes' = [left |-> pushes.left - 1, unseen |-> TRUE, since |-> TRUE]
    /\ place' \in Places \ {place}
    /\ UNCHANGED <<kind, gate, snapshot, now, sent, wire, passed, coast>>

GateTick ==
    /\ now < MaxNow /\ now' = now + 1
    /\ UNCHANGED <<kind, gate, snapshot, place, sent, wire, passed, coast, pushes>>

-----------------------------------------------------------------------------
\* refresh_from_control, at a state tick: the only thing that brings the reference up to date.
StateTick ==
    /\ snapshot' = place /\ pushes' = [pushes EXCEPT !.unseen = FALSE]
    /\ UNCHANGED <<kind, gate, place, now, sent, wire, passed, coast>>

GateNext ==
    \/ \E m \in wire : Accept(m) \/ Refuse(m)
    \/ StateTick \/ SendTarget \/ NetworkDrops \/ Follow \/ HandPushes \/ GateTick

GateSpec == GateInit /\ [][GateNext]_gateVars

-----------------------------------------------------------------------------
(* The network cannot replay the commander: however often and in whatever  *)
(* order its targets arrive, they are accepted in the order they were      *)
(* sent, each at most once (last_seq, which a refusal leaves alone).       *)
AcceptedInOrder == \A i, j \in DOMAIN passed : i < j => passed[i].seq < passed[j].seq

(* Over every window of time the loop gets at most the bucket and the      *)
(* refills of that window, however long the sender was silent before       *)
(* (refill, GuardOptions::rate_hz).                                        *)
RateBounded ==
    \A i, j \in DOMAIN passed :
      i <= j => (j - i + 1) * Second <= Depth + Rate * (passed[j].t - passed[i].t)

(* A target is refused for its rate only if with it some window would be   *)
(* over the bucket and the refills: whatever was refused before has cost   *)
(* the sender nothing, not even the refill its refusal brought (refill).   *)
RateIsFair ==
    Refilled < Second =>
      \E i \in DOMAIN passed : (Len(passed) - i + 2) * Second > Depth + Rate * (now - passed[i].t)

(* When the commander stops, the arm stops within max_lead and what it     *)
(* travels in a state tick: targets that are each near the last cannot     *)
(* walk the target away from the arm, though the gate does not know where  *)
(* the arm is now (GuardOptions::max_lead).  A hand that pushes the arm    *)
(* can.                                                                    *)
CoastBounded == kind = "cartesian" /\ MaxLead > 0 /\ ~pushes.since => coast <= MaxLead + MaxTravel

(* Nothing locks the commander out: whatever was refused before and        *)
(* wherever the arm was pushed, once a state tick has seen the arm an      *)
(* anchored target at it gets in, though the arm has moved since, as long  *)
(* as the limits allow for what it moves in a tick (judge_cartesian,       *)
(* TARGET_ANCHOR).                                                         *)
AnchorGetsIn ==
    /\ kind = "cartesian" /\ LeadBounded /\ place \in Box
    /\ ~pushes.unseen /\ MaxTravel <= MaxStep /\ MaxTravel <= MaxLead
    => Fits([client |-> gate.holder, seq |-> gate.last + 1, kind |-> kind, data |-> place,
             anchor |-> TRUE])
=============================================================================
