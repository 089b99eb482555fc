----------------------------- MODULE ParamsWire -----------------------------
(***************************************************************************)
(* What a client of a node's parameters is told, and what it is held to:   *)
(* the table of bounds (franka-rs tuning/bounds.rs), the gate that walks   *)
(* it (tuning/mod.rs), the schema made of it (franka-node msg/params.rs,   *)
(* schema.rs), a set's request and reply (values.rs, arm/params.rs), and   *)
(* what is said of a change on its way (slew.rs).                          *)
(*                                                                         *)
(* Where NodeParams has the races of clients, sessions and the loop over a *)
(* few words, this is one client and every word. A value is an integer of  *)
(* thousandths of its unit; time passes in steps of Tick thousandths of a  *)
(* second.                                                                 *)
(***************************************************************************)
EXTENDS Integers, FiniteSets, Sequences, SequencesExt

CONSTANTS
    WireSeeds,      \* the values configurations start a session at
    Elements,       \* bound: the elements of an array a client changes
    MaxWireSets,    \* bound: sets asked for
    MaxTicks,       \* bound: steps of time after a set, while a budget moves
    Nothing

VARIABLES
    seeded,     \* the configuration's values
    engaged,    \* whether a tunable session runs
    stored,     \* the targets: the session's, or the configuration's
    wire,       \* Params: the version, the crossing (from, to), steps since it was accepted
    reply,      \* the last set's reply, with what was asked and what was stored before
    budgets     \* the loop's budgets in force, and whether they rested when the set came

wireVars == <<seeded, engaged, stored, wire, reply, budgets>>

Tick == 500
NoNumber == -1000000000

-----------------------------------------------------------------------------
(* The table: one row a word. *)

Words == 0..24
Springs == 0..6
Dampers == 7..13
SpringOf(w) == w - 7
Budget(w) == w >= 19

\* A configuration's values are not negative, and a rate is whole in a step of time.
ASSUME WireAssumption ==
    /\ WireSeeds \subseteq [Words -> Nat]
    /\ \A s \in WireSeeds : \A w \in {20, 21, 23, 24} : (s[w] * Tick) % 1000 = 0
    /\ Elements \subseteq 1..7 /\ MaxWireSets \in Nat /\ MaxTicks \in Nat
    /\ Nothing \notin Int /\ Nothing \notin [1..1 -> Int] /\ Nothing \notin [1..3 -> Int]

Row(name, group, least, most, policy) ==
    [name |-> name, group |-> group, min |-> least, max |-> most, policy |-> policy, log |-> FALSE,
     nonZero |-> FALSE, danger |-> "none", confirmAbove |-> Nothing, sliderMax |-> Nothing,
     offAt |-> Nothing, norm |-> FALSE]
Log(row) == [row EXCEPT !.log = TRUE]
NonZero(row) == [row EXCEPT !.nonZero = TRUE]
Advise(row) == [row EXCEPT !.danger = "advise"]
ConfirmAbove(row, x) == [row EXCEPT !.danger = "confirm_above", !.confirmAbove = x]
SliderMax(row, x) == [row EXCEPT !.sliderMax = x]
OffAt(row, x) == [row EXCEPT !.offAt = x]
Norm(row) == [row EXCEPT !.norm = TRUE]

SpringRow == Advise(Row("joint_stiffness", "gains", 0, 1200000, "slew"))
\* The velocity barrier's gain comes on top: the wrist's bound is lower.
DamperRow(w) ==
    Advise(Row("joint_damping", "gains", 0, IF SpringOf(w) < 4 THEN 60000 ELSE 40000, "slew"))

StiffnessRow == Advise(NonZero(Log(Row("cartesian_stiffness", "gains", 50000, 3000000, "slew"))))
FeedforwardRow ==
    OffAt(ConfirmAbove(Row("velocity_feedforward_gain", "feedforward", 0, 1000, "slew"), 0), 0)
CutoffRow ==
    OffAt(Log(Row("velocity_feedforward_cutoff", "feedforward", 1000, 1000000, "step")), 1000000)

\* A gated word descends at the next one.
RateOf(w) == w + 1
BudgetRow(w) ==
    LET row(name, least, most, policy, confirm) ==
            Norm(ConfirmAbove(Row(name, "envelope", least, most, policy), confirm))
    IN  CASE w = 19 -> row("budget", 50, 1200, "step_up_gate_down", 850)
          [] w = 20 -> row("budget", 100, 20000, "step_up_gate_down", 10000)
          [] w = 21 -> row("budget", 1000, 800000, "step", 400000)
          [] w = 22 -> row("rotation_budget", 50, 2500, "step_up_gate_down", 1000)
          [] w = 23 -> row("rotation_budget", 100, 30000, "step_up_gate_down", 15000)
          [] w = 24 -> row("rotation_budget", 1000, 800000, "step", 400000)

Bounds_Unconfirmed ==
    [w \in Words |->
       CASE w \in Springs -> SpringRow
         [] w \in Dampers -> DamperRow(w)
         [] w = 14 -> StiffnessRow
         [] w = 15 -> NonZero(Log(Row("ik_damping", "ik", 1, 1000, "slew")))
         [] w = 16 -> OffAt(SliderMax(Row("ik_nullspace_gain", "ik", 0, 20000, "slew"), 5000), 0)
         [] w = 17 -> FeedforwardRow
         [] w = 18 -> CutoffRow
         [] w = 21 -> [BudgetRow(w) EXCEPT !.confirmAbove = Nothing]
         [] OTHER -> BudgetRow(w)]

Bounds ==
    [w \in Words |->
       CASE w \in Springs -> SpringRow
         [] w \in Dampers -> DamperRow(w)
         [] w = 14 -> StiffnessRow
         [] w = 15 -> NonZero(Log(Row("ik_damping", "ik", 1, 1000, "slew")))
         [] w = 16 -> OffAt(SliderMax(Row("ik_nullspace_gain", "ik", 0, 20000, "slew"), 5000), 0)
         [] w = 17 -> FeedforwardRow
         [] w = 18 -> CutoffRow
         [] OTHER -> BudgetRow(w)]

Gated(w) == Bounds[w].policy = "step_up_gate_down"

\* joint_damping_floor: the least damping whose square is a sixteenth of the spring.
Damps(d, spring) == 4 * d * d >= 250 * spring
LeastDamping(spring) ==
    CHOOSE d \in 0..(spring + 63) : Damps(d, spring) /\ (d = 0 \/ ~Damps(d - 1, spring))

\* What a client changes a word to: both sides of its bounds, and its threshold.
Trials(w) ==
    {Bounds[w].min - 1000, Bounds[w].max + 1000, Bounds[w].max \div 2}
    \cup (IF Bounds[w].confirmAbove = Nothing THEN {} ELSE {Bounds[w].confirmAbove})

Snap(x, low, high) == IF x < low THEN low ELSE IF x > high THEN high ELSE x
\* Every spring there is, so that a floor is worked out once.
SeededSprings == {s[w] : s \in WireSeeds, w \in Springs}
SpringValues ==
    SeededSprings \cup {Snap(k, Bounds[0].min, Bounds[0].max) : k \in Trials(0) \cup SeededSprings}
FloorOf == [spring \in SpringValues |-> LeastDamping(spring)]

-----------------------------------------------------------------------------
(* Fields: the runs of rows that share a name. *)

Names == {Bounds[w].name : w \in Words}
WordsOf == [name \in Names |-> {w \in Words : Bounds[w].name = name}]
StartOf == [name \in Names |-> CHOOSE w \in WordsOf[name] : \A v \in WordsOf[name] : w <= v]
LengthOf == [name \in Names |-> Cardinality(WordsOf[name])]
IsArray(name) == LengthOf[name] > 1
ValueOf(name, of) == [i \in 1..LengthOf[name] |-> of[StartOf[name] + i - 1]]

\* A hint is published only if every row of the field has one.
Every(name, hint) ==
    IF \E w \in WordsOf[name] : hint[w] = Nothing THEN Nothing ELSE ValueOf(name, hint)

Schema ==
    [name \in Names |->
       LET rows == {Bounds[w] : w \in WordsOf[name]}
           of(column) == [w \in Words |-> Bounds[w][column]]
           confirm == Every(name, of("confirmAbove"))
       IN  [array |-> IsArray(name),
            min |-> ValueOf(name, of("min")), max |-> ValueOf(name, of("max")),
            policy |-> CASE \E r \in rows : r.policy = "step_up_gate_down" -> "step_up_gate_down"
                         [] \A r \in rows : r.policy = "step" -> "step"
                         [] OTHER -> "slew",
            danger |-> IF confirm # Nothing THEN "confirm_above"
                       ELSE IF \E r \in rows : r.danger # "none" THEN "advise" ELSE "none",
            confirmAbove |-> confirm, scale |-> \E r \in rows : r.log,
            sliderMax |-> Every(name, of("sliderMax")), offAt |-> Every(name, of("offAt")),
            norm |-> \A r \in rows : r.norm]]
\* The defaults are the configuration's.
SchemaDefault(name) == ValueOf(name, seeded)

\* The pair rule, published beside the fields.
Relation(spring, damper) == damper >= FloorOf[spring]

-----------------------------------------------------------------------------
(* The values of a configuration. *)

\* from_options: a feedforward that is switched off is a gain of none.
SeedOf(o) ==
    [w \in Words |->
       CASE w \in Springs -> o.springs[w + 1]
         [] w \in Dampers -> o.dampers[SpringOf(w) + 1]
         [] w = 14 -> o.stiffness
         [] w = 15 -> o.ikDamping
         [] w = 16 -> o.nullspace
         [] w = 17 -> IF o.feedforward THEN o.gain ELSE 0
         [] w = 18 -> o.cutoff
         [] w \in 19..21 -> o.budget[w - 18]
         [] w \in 22..24 -> o.rotationBudget[w - 21]]

\* budgets: the other side of it.
BudgetsOf(words) == [w \in 19..24 |-> words[w]]

-----------------------------------------------------------------------------
(* A set. *)

Carried(update) == UNION {WordsOf[name] : name \in DOMAIN update}
Overlaid(words, update) ==
    LET carried == Carried(update)
    IN  [w \in Words |-> IF w \in carried
                         THEN update[Bounds[w].name][w - StartOf[Bounds[w].name] + 1] ELSE words[w]]

Bounded(words, carried) ==
    [w \in Words |->
       IF w \in carried THEN Snap(words[w], Bounds[w].min, Bounds[w].max) ELSE words[w]]

\* The springs first, for the floor is read off what will be in force; a damping nobody carries is
\* only raised.
AppliedTo_RawFloor(words, update) ==
    LET carried == Carried(update)
        over == Overlaid(words, update)
        bounded == Bounded(over, carried)
    IN  [w \in Words |->
           IF w \in Dampers /\ {w, SpringOf(w)} \cap carried # {}
           THEN LET floor == FloorOf[Snap(words[SpringOf(w)], 0, Bounds[0].max)]
                IN  Snap(over[w], floor, IF w \in carried THEN Bounds[w].max ELSE over[w] + floor)
           ELSE bounded[w]]

AppliedTo(words, update) ==
    LET carried == Carried(update)
        over == Overlaid(words, update)
        bounded == Bounded(over, carried)
    IN  [w \in Words |->
           IF w \in Dampers /\ {w, SpringOf(w)} \cap carried # {}
           THEN LET spring == SpringOf(w)
                    floor == FloorOf[Snap(bounded[spring], Bounds[spring].min, Bounds[spring].max)]
                IN  Snap(over[w], floor, IF w \in carried THEN Bounds[w].max ELSE over[w] + floor)
           ELSE bounded[w]]

\* What was asked of a word: its value in the request, or the one it had.
Asked(words, update) == Overlaid(words, update)

\* clamped_list: the words the gate moved, whether or not the request carried them.
ClampedList(words, update, now) ==
    LET asked == Asked(words, update)
    IN  {[word |-> w, requested |-> asked[w], stored |-> now[w]] :
           w \in {v \in Words : now[v] # asked[v]}}

\* numbers: the shape of one field's value.
ShapeOf(name, value) ==
    CASE ~IsArray(name) /\ Len(value) # 1 -> "type"
      [] IsArray(name) /\ Len(value) # LengthOf[name] -> "length"
      [] \E i \in DOMAIN value : value[i] = NoNumber -> "type"
      [] OTHER -> "ok"

BadShapes(update) == {ShapeOf(name, update[name]) : name \in DOMAIN update} \ {"ok"}

NotAllowed(update) ==
    LET over == Overlaid(stored, update)
    IN  {w \in Carried(update) : Bounds[w].nonZero /\ over[w] <= 0}

\* unconfirmed: decided on what would be stored.
CrossesUp(w, before, after) ==
    /\ Bounds[w].confirmAbove # Nothing
    /\ after[w] > Bounds[w].confirmAbove /\ before[w] <= Bounds[w].confirmAbove
NeedsConfirm(update, confirm) ==
    LET after == AppliedTo(stored, update)
    IN  {w \in Words : CrossesUp(w, stored, after) /\ Bounds[w].name \notin confirm}

\* The wire contract's order.
Verdict(r) ==
    CASE r.client = 0 -> "type"
      [] ~engaged -> "not_ready"
      [] r.base # Nothing /\ r.base # wire.version -> "stale"
      [] ~(DOMAIN r.update \subseteq Names) -> "unknown_field"
      [] BadShapes(r.update) # {} -> CHOOSE reason \in BadShapes(r.update) : TRUE
      [] NotAllowed(r.update) # {} -> "invalid"
      [] NeedsConfirm(r.update, r.confirm) # {} -> "needs_confirm"
      [] OTHER -> "ok"

-----------------------------------------------------------------------------
(* What is left of a change, in thousandths of it. *)

\* A time constant of 300 ms, by steps of Tick.
SlewLeft == <<1000, 189, 36, 7, 1>>
Settled == 5
FilterLeft(elapsed) == IF elapsed < Len(SlewLeft) THEN SlewLeft[elapsed + 1] ELSE 0

\* descent: the ramp at a rate, none upwards.
RampLeft(from, to, rate, elapsed) ==
    LET left == from - to - (rate * Tick * elapsed) \div 1000
    IN  IF from <= to \/ left <= 0 THEN 0 ELSE (1000 * left) \div (from - to)

\* A raise of the rate was in force already, a lowering starts where it was.
RateInForce_Old(from, to, w) == from[RateOf(w)]
RateInForce(from, to, w) ==
    IF from[RateOf(w)] > to[RateOf(w)] THEN from[RateOf(w)] ELSE to[RateOf(w)]

LeftOf(w, from, to, elapsed) ==
    CASE from[w] = to[w] \/ Bounds[w].policy = "step" -> 0
      [] Gated(w) -> RampLeft(from[w], to[w], RateInForce(from, to, w), elapsed)
      [] OTHER -> FilterLeft(elapsed)

Slewing ==
    IF wire.from = Nothing THEN {}
    ELSE {name \in Names :
            \E w \in WordsOf[name] : LeftOf(w, wire.from, wire.to, wire.elapsed) >= Settled}

-----------------------------------------------------------------------------
WireTypeOK ==
    /\ seeded \in WireSeeds /\ engaged \in BOOLEAN
    /\ stored \in [Words -> Int]
    /\ budgets.now \in [19..24 -> Int] /\ budgets.rested \in BOOLEAN
    /\ wire.version \in 0..MaxWireSets /\ wire.elapsed \in 0..MaxTicks

NoCrossing(version) == [version |-> version, from |-> Nothing, to |-> Nothing, elapsed |-> 0]
Rest(words) == [now |-> BudgetsOf(words), rested |-> TRUE]

WireStill ==
    /\ seeded = <<>> /\ engaged = FALSE /\ stored = <<>> /\ wire = NoCrossing(0)
    /\ reply = Nothing /\ budgets = [now |-> <<>>, rested |-> TRUE]

WireInit ==
    /\ seeded \in WireSeeds /\ engaged \in BOOLEAN
    /\ stored = seeded /\ wire = NoCrossing(0) /\ reply = Nothing /\ budgets = Rest(seeded)

\* A session starts from the configuration or ends back to it.
Reseed ==
    /\ engaged' = ~engaged /\ stored' = seeded /\ budgets' = Rest(seeded)
    /\ wire' = NoCrossing(wire.version)
    /\ reply # Nothing /\ reply' = Nothing
    /\ UNCHANGED seeded

\* A refusal leaves everything as it was.
AnswerSet(r) ==
    LET verdict == Verdict(r)
        after == AppliedTo(stored, r.update)
    IN  /\ wire.version < MaxWireSets
        /\ reply' = [request |-> r, verdict |-> verdict, before |-> stored, engaged |-> engaged,
                     version |-> wire.version,
                     clamped |-> IF verdict = "ok" THEN ClampedList(stored, r.update, after)
                                 ELSE {}]
        /\ IF verdict = "ok"
           THEN /\ stored' = after
                /\ wire' = [version |-> wire.version + 1, from |-> stored, to |-> after,
                            elapsed |-> 0]
                /\ budgets' = [budgets EXCEPT !.rested = budgets.now = BudgetsOf(stored)]
           ELSE UNCHANGED <<stored, wire, budgets>>
        /\ UNCHANGED <<seeded, engaged>>

\* External: what a client asks: an element or two of what it has read, or what is no request.
Changed(name, e, x) == [ValueOf(name, stored) EXCEPT ![e] = x]
ChangesOf(name, e) ==
    {[f \in {name} |-> Changed(name, e, x)] : x \in Trials(StartOf[name] + e - 1)}
PairChanges(e) ==
    {[f \in {"joint_stiffness", "joint_damping"} |->
        IF f = "joint_stiffness" THEN Changed(f, e, k) ELSE Changed(f, e, d)] :
       k \in Trials(e - 1), d \in Trials(e + 6)}
WholeChanges == {[f \in {"budget"} |-> <<v, a, 20000>>] : v \in {50, 1200}, a \in {500, 1000}}
Changes ==
    WholeChanges \cup (UNION {PairChanges(e) : e \in Elements})
    \cup (UNION {ChangesOf(name, 1) : name \in Names})
Malformed ==
    {[f \in {"leash"} |-> <<1>>], [f \in {"budget"} |-> <<1000, 1000>>],
     [f \in {"ik_damping"} |-> <<NoNumber>>], [f \in {"ik_damping"} |-> <<200, 200>>]}
Confirms(u) ==
    {{}, {name \in DOMAIN u : \E w \in WordsOf[name] : Bounds[w].confirmAbove # Nothing}}
SetRequest(client, base, confirm, update) ==
    [client |-> client, base |-> base, confirm |-> confirm, update |-> update]
Requests ==
    (UNION {{SetRequest(7, wire.version, c, u) : c \in Confirms(u)} : u \in Changes})
    \cup {SetRequest(7, Nothing, {}, u) : u \in Malformed}
    \cup {SetRequest(c, wire.version + 1, {}, [f \in {"ik_damping"} |-> <<200>>]) : c \in {0, 7}}

AskWire == \E r \in Requests : AnswerSet(r)

\* The loop's budgets in a step of time, which is many cycles: what is raised is raised in the
\* first, what is lowered goes down at the rate in force.
PassWire ==
    /\ engaged /\ wire.elapsed < MaxTicks /\ budgets.now # BudgetsOf(stored)
    /\ wire' = [wire EXCEPT !.elapsed = @ + 1]
    /\ budgets' = [budgets EXCEPT !.now =
                     [w \in 19..24 |->
                        IF ~Gated(w) THEN stored[w]
                        ELSE LET rate == IF stored[RateOf(w)] > @[RateOf(w)] THEN stored[RateOf(w)]
                                         ELSE @[RateOf(w)]
                                 lowest == @[w] - (rate * Tick) \div 1000
                             IN  IF stored[w] > lowest THEN stored[w] ELSE lowest]]
    /\ UNCHANGED <<seeded, engaged, stored, reply>>

WireNext == Reseed \/ AskWire \/ PassWire

-----------------------------------------------------------------------------
(* Who keeps to the schema is never surprised: a set made of what the      *)
(* schema says (its bounds, its relation, a confirmation wherever it asks  *)
(* for one) is accepted and stored as it was asked (BOUNDS "is the gate,   *)
(* not a description of one").                                             *)
WithinSchema(before, r) ==
    LET asked == Asked(before, r.update)
    IN  \A name \in DOMAIN r.update :
          LET schema == Schema[name]
          IN  \A w \in WordsOf[name] :
                LET i == w - StartOf[name] + 1
                IN  /\ schema.min[i] <= asked[w] /\ asked[w] <= schema.max[i]
                    /\ w \in Dampers => Relation(asked[SpringOf(w)], asked[w])
                    /\ w \in Springs => Relation(asked[w], asked[w + 7])
                    /\ schema.danger = "confirm_above" /\ asked[w] > schema.confirmAbove[i]
                         => name \in r.confirm

SchemaIsTheGate ==
    /\ reply # Nothing /\ reply.engaged /\ reply.request.client > 0
    /\ reply.request.base \in {Nothing, reply.version}
    /\ DOMAIN reply.request.update \subseteq Names /\ BadShapes(reply.request.update) = {}
    /\ WithinSchema(reply.before, reply.request)
    => reply.verdict = "ok" /\ reply.clamped = {}

(* Nobody's other fields move: what a set does not carry stays, but a      *)
(* damping under a spring that was carried, raised to its floor            *)
(* (apply_update's pair rule).                                             *)
OnlyAskedMoves ==
    reply # Nothing /\ reply.verdict = "ok" =>
        \A w \in Words \ Carried(reply.request.update) :
          \/ stored[w] = reply.before[w]
          \/ /\ w \in Dampers /\ SpringOf(w) \in Carried(reply.request.update)
             /\ stored[w] > reply.before[w] /\ stored[w] = FloorOf[stored[SpringOf(w)]]

(* A set that is sent again, because its reply was lost, changes nothing.  *)
RetryIsHarmless ==
    reply # Nothing /\ reply.verdict = "ok" => AppliedTo(stored, reply.request.update) = stored

(* A budget on its way down from rest is reported until it is there, and   *)
(* no longer, although nothing is read back from the loop (slewing,        *)
(* remaining, descent); its rate is not lowered by the same set.           *)
SlewingTells ==
    wire.from # Nothing /\ engaged /\ budgets.rested =>
        \A w \in {v \in 19..24 : Gated(v)} :
          wire.from[w] > wire.to[w] /\ wire.to[RateOf(w)] >= wire.from[RateOf(w)] =>
            LET away == budgets.now[w] - wire.to[w]
            IN  wire.elapsed > 0 =>
                  LeftOf(w, wire.from, wire.to, wire.elapsed)
                    = (1000 * away) \div (wire.from[w] - wire.to[w])
=============================================================================
