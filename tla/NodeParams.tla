----------------------------- MODULE NodeParams -----------------------------
(***************************************************************************)
(* Live tuning: the arm thread's end of params/set (franka-node            *)
(* arm/params.rs, msg/params/values.rs), the gate and the tuning slot of   *)
(* the session (franka-rs target_control/tuning, mod.rs), and the control  *)
(* loop that crosses to what the slot holds (torque/tuning.rs, slew.rs).   *)
(*                                                                         *)
(* The words are one of each kind: a joint's spring and its damping, which *)
(* are slewed and tied by the pair rule; the feedforward's gain, slewed    *)
(* and to be confirmed; a budget's velocity, gated at its acceleration.    *)
(* Values are whole numbers in units of their own; a slewed word closes    *)
(* half of its gap in a cycle.                                             *)
(*                                                                         *)
(* External: clients, which read the values at some version and ask for a  *)
(* change later, and the sessions' beginning and end.                      *)
(***************************************************************************)
EXTENDS Integers, FiniteSets, FiniteSetsExt

CONSTANTS
    TuningClients,
    Blind,          \* those of them that send no base_version
    Tunables,       \* the words: "spring", "damping", "feedforward", "velocity", "acceleration"
    Bound,          \* BOUNDS: the largest value of each word
    Least,          \* BOUNDS: the smallest
    ConfirmAt,      \* ConfirmAbove of the words that have one
    SeedValues,     \* the values a config may seed a session with
    Updates,        \* the changes clients ask for: values of some of the words
    MaxSets,        \* bound: sets asked for
    MaxSeeds,       \* bound: sessions
    NoRequest, NoOrigin

VARIABLES
    config,     \* external: the config's values
    tuned,      \* whether a tunable session runs
    seeds,      \* bound: sessions so far
    slot,       \* the tuning slot: its sequence (odd while it is written) and words
    setting,    \* the set the arm thread is in the middle of
    params,     \* Params: version, origin
    known,      \* external: what each client last read
    requests,   \* external: a client's request on its way
    sets,       \* bound: sets asked for
    crossing,   \* the loop: its place in a cycle, the sequence it has read
    copied,     \* the loop's copy of the slot
    inForce     \* the loop's values

paramsVars == <<config, tuned, seeds, slot, setting, params, known, requests, sets, crossing,
               copied, inForce>>
loopVars == <<crossing, copied, inForce>>
clientVars == <<known, requests, sets>>

Tunings == [Tunables -> Nat]

ASSUME TuningAssumption ==
    /\ {"spring", "damping"} \subseteq Tunables
    /\ Least \in Tunings /\ Bound \in Tunings /\ \A w \in Tunables : Least[w] <= Bound[w]
    /\ SeedValues \subseteq Tunings
    /\ \A u \in Updates : DOMAIN u \subseteq Tunables /\ \A w \in DOMAIN u : u[w] \in Nat
    /\ DOMAIN ConfirmAt \subseteq Tunables
    /\ {MaxSets, MaxSeeds} \subseteq Nat

RateWord == [velocity |-> "acceleration"]
Gated(w) == w \in DOMAIN RateWord

\* What a client has read, what it asks for, and what the arm thread is in the middle of. A joint's
\* damping has no floor of its own in the table.
Reads == [version : Nat, seed : Nat, words : Tunings]
Asked == [read : Reads, update : Updates, confirm : SUBSET DOMAIN ConfirmAt]
Settings == [by : TuningClients, request : Asked]
ASSUME WordsAssumption ==
    /\ Least["damping"] = 0 /\ \A w \in Tunables : Gated(w) => RateWord[w] \in Tunables
    /\ NoRequest \notin Asked \cup Settings

ParamsTypeOK ==
    /\ config \in SeedValues /\ tuned \in BOOLEAN /\ seeds \in 0..MaxSeeds
    /\ slot.seq \in Nat /\ slot.words \in Tunings /\ inForce \in Tunings /\ copied \in Tunings
    /\ (slot.seq % 2 = 1) <=> setting # NoRequest
    /\ params.version \in 0..MaxSets
    /\ crossing.at \in {"top", "loading"}
    /\ \A w \in Tunables :
         Min({Least[w], config[w]}) <= inForce[w] /\ inForce[w] <= Max({Bound[w], config[w]})

ParamsInit ==
    /\ config \in SeedValues /\ tuned = FALSE /\ seeds = 0 /\ sets = 0
    /\ slot = [seq |-> 0, words |-> config] /\ copied = config /\ inForce = config
    /\ setting = NoRequest /\ params = [version |-> 0, origin |-> NoOrigin, seed |-> 0]
    /\ known = [c \in TuningClients |-> [version |-> 0, seed |-> 0, words |-> config]]
    /\ requests = [c \in TuningClients |-> NoRequest]
    /\ crossing = [at |-> "top", seen |-> 0, sequence |-> 0]

-----------------------------------------------------------------------------
(* Clients. *)

\* live_tuning: the session's values, or the config's.
InEffect == IF tuned THEN slot.words ELSE config

\* get and current carry the values with their version.
ReadParams(c) ==
    /\ setting = NoRequest
    /\ known' = [known EXCEPT ![c] = [version |-> params.version, seed |-> params.seed,
                                      words |-> InEffect]]
    /\ UNCHANGED <<config, tuned, seeds, slot, setting, params, requests, sets, loopVars>>

AskSet(c) ==
    /\ requests[c] = NoRequest /\ sets < MaxSets /\ sets' = sets + 1
    /\ \E u \in Updates : \E names \in SUBSET DOMAIN ConfirmAt :
         requests' = [requests EXCEPT ![c] = [read |-> known[c], update |-> u, confirm |-> names]]
    /\ UNCHANGED <<config, tuned, seeds, slot, setting, params, known, loopVars>>

-----------------------------------------------------------------------------
(* The arm thread. *)

\* begin and after_loop: a session is seeded from the config, and its end leaves the config's
\* values; either way no set's values are in force any more, and the version stands.
Reseeded_KeepsOrigin(p) == [p EXCEPT !.seed = @ + 1]
Reseeded(p) == [p EXCEPT !.seed = @ + 1, !.origin = NoOrigin]

TunedStarts ==
    /\ ~tuned /\ seeds < MaxSeeds /\ setting = NoRequest
    /\ tuned' = TRUE /\ seeds' = seeds + 1 /\ params' = Reseeded(params)
    /\ slot' = [seq |-> 0, words |-> config] /\ copied' = config /\ inForce' = config
    /\ crossing' = [at |-> "top", seen |-> 0, sequence |-> 0]
    /\ UNCHANGED <<config, setting, clientVars>>

TunedEnds ==
    /\ tuned /\ setting = NoRequest
    /\ tuned' = FALSE /\ params' = Reseeded(params)
    /\ slot' = [seq |-> 0, words |-> config] /\ copied' = config /\ inForce' = config
    /\ crossing' = [at |-> "top", seen |-> 0, sequence |-> 0]
    /\ UNCHANGED <<config, seeds, setting, clientVars>>

Clamp(x, low, high) == IF x < low THEN low ELSE IF x > high THEN high ELSE x

\* joint_damping_floor: the damping whose square is the spring.
Floor == [spring \in 0..Bound["spring"] |-> Min({d \in 0..spring : d * d >= spring})]
ASSUME FloorAssumption == \A s \in 0..Bound["spring"] : Floor[s] <= Bound["damping"]

\* apply_update: the carried words are clamped; a damping is held above the floor of its spring
\* when either half is carried, and one that is not carried is only ever raised.
Applied_CarriedOnly(words, u) ==
    [w \in Tunables |-> IF w \in DOMAIN u THEN Clamp(u[w], Least[w], Bound[w]) ELSE words[w]]

Applied(words, u) ==
    LET over == [w \in Tunables |-> IF w \in DOMAIN u THEN u[w] ELSE words[w]]
        spring == IF "spring" \in DOMAIN u THEN Clamp(u["spring"], Least["spring"], Bound["spring"])
                  ELSE words["spring"]
        floor == Floor[Clamp(spring, Least["spring"], Bound["spring"])]
        high == IF "damping" \in DOMAIN u THEN Bound["damping"] ELSE over["damping"] + floor
    IN  [w \in Tunables |->
           CASE w = "spring" -> spring
             [] w = "damping" -> IF {"spring", "damping"} \cap DOMAIN u = {} THEN over[w]
                                 ELSE Clamp(over[w], floor, high)
             [] OTHER -> IF w \in DOMAIN u THEN Clamp(u[w], Least[w], Bound[w]) ELSE words[w]]

\* unconfirmed: the stored value crosses its threshold from at or below it.
Unconfirmed_AnyName(before, after, names) ==
    {w \in DOMAIN ConfirmAt : names = {} /\ after[w] > ConfirmAt[w] /\ before[w] <= ConfirmAt[w]}
Unconfirmed(before, after, names) ==
    {w \in DOMAIN ConfirmAt : w \notin names /\ after[w] > ConfirmAt[w] /\ before[w] <= ConfirmAt[w]}

Stale_Never(c) == FALSE
Stale(c) == c \notin Blind /\ requests[c].read.version # params.version

\* apply_set refuses: no session, a stale base_version, or a crossing nobody confirmed.
RefuseSet(c) ==
    /\ requests[c] # NoRequest /\ setting = NoRequest
    /\ \/ ~tuned
       \/ Stale(c)
       \/ Unconfirmed(slot.words, Applied(slot.words, requests[c].update), requests[c].confirm) # {}
    /\ requests' = [requests EXCEPT ![c] = NoRequest]
    /\ UNCHANGED <<config, tuned, seeds, slot, setting, params, known, sets, loopVars>>

\* apply_set goes through: tune begins to write the slot.
TuneSlot(c) ==
    /\ requests[c] # NoRequest /\ setting = NoRequest /\ tuned
    /\ ~Stale(c)
    /\ Unconfirmed(slot.words, Applied(slot.words, requests[c].update), requests[c].confirm) = {}
    /\ setting' = [by |-> c, request |-> requests[c]]
    /\ slot' = [slot EXCEPT !.seq = @ + 1]
    /\ requests' = [requests EXCEPT ![c] = NoRequest]
    /\ UNCHANGED <<config, tuned, seeds, params, known, sets, loopVars>>

\* The write ends, and the set is accepted as the next version.
AcceptSet ==
    /\ setting # NoRequest
    /\ slot' = [seq |-> slot.seq + 1, words |-> Applied(slot.words, setting.request.update)]
    /\ params' = [params EXCEPT !.version = @ + 1,
                                !.origin = [version |-> params.version + 1, words |-> slot'.words]]
    /\ setting' = NoRequest
    /\ UNCHANGED <<config, tuned, seeds, clientVars, loopVars>>

-----------------------------------------------------------------------------
(* The control loop. *)

\* Tuning::cycle reads the sequence before the words.
ReadSequence ==
    /\ tuned /\ crossing.at = "top"
    /\ crossing' = [crossing EXCEPT !.at = "loading", !.seen = slot.seq]
    /\ UNCHANGED <<config, tuned, seeds, slot, setting, params, clientVars, copied, inForce>>

\* slewed: half of the gap, and the target on the cycle in which the value can no longer move.
Slewed_NeverLands(x, goal) == IF x < goal THEN x + (goal - x) \div 2 ELSE x - (x - goal) \div 2
Slewed(x, goal) ==
    LET next == IF x < goal THEN x + (goal - x) \div 2 ELSE x - (x - goal) \div 2
    IN  IF next = x THEN goal ELSE next

\* slew_toward: a gated word is raised at once and lowered at its rate in force.
Slew(now, to) ==
    [w \in Tunables |->
       IF Gated(w) THEN Max({to[w], now[w] - now[RateWord[w]]})
       ELSE Slewed(now[w], to[w])]

\* The words are taken if the slot has moved and the load did not tear; then one cycle of the
\* crossing. A write between the two reads leaves the older sequence behind, to be read again.
Seen(loaded) == IF loaded THEN crossing.seen ELSE crossing.sequence

Cross ==
    /\ tuned /\ crossing.at = "loading"
    /\ LET loaded == crossing.seen # crossing.sequence /\ slot.seq % 2 = 0
           to == IF loaded THEN slot.words ELSE copied
       IN  /\ copied' = to
           /\ inForce' = Slew(inForce, to)
           /\ crossing' = [at |-> "top", seen |-> 0, sequence |-> Seen(loaded)]
    /\ UNCHANGED <<config, tuned, seeds, slot, setting, params, clientVars>>

-----------------------------------------------------------------------------
ParamsNext ==
    \/ \E c \in TuningClients : ReadParams(c) \/ AskSet(c) \/ RefuseSet(c) \/ TuneSlot(c)
    \/ TunedStarts \/ TunedEnds \/ AcceptSet \/ ReadSequence \/ Cross

ParamsSpec == ParamsInit /\ [][ParamsNext]_paramsVars

\* The arm thread ends the set it has begun, and the loop runs its cycles.
ParamsFairness == WF_paramsVars(AcceptSet) /\ WF_paramsVars(ReadSequence \/ Cross)

-----------------------------------------------------------------------------
(* No change widens what the arm may do unless the client that asked for   *)
(* it confirmed the field by name, whatever was changed, clamped or left   *)
(* unfinished before (unconfirmed, decided on the clamped values).         *)
ConfirmedOnly ==
    [][setting # NoRequest /\ setting' = NoRequest =>
         \A w \in DOMAIN ConfirmAt :
           slot'.words[w] > ConfirmAt[w] /\ slot.words[w] <= ConfirmAt[w]
             => w \in setting.request.confirm]_paramsVars

(* Two clients that read, edit and set do not lose each other's change:    *)
(* within a session, a set is applied to the very values its sender had    *)
(* read (base_version), and origin names a set only while its values are   *)
(* the ones in effect (Params::forget).                                    *)
NoLostUpdate ==
    /\ setting # NoRequest /\ setting.by \notin Blind /\ setting.request.read.seed = params.seed
         => setting.request.read.words = slot.words
    /\ params.origin # NoOrigin
         => params.origin.version = params.version /\ params.origin.words = InEffect

(* A spring is never left less damped than its floor by a change: whoever  *)
(* moves either half, and however the other was clamped or raised before,  *)
(* the pair in the slot is damped, unless it is still the one the config   *)
(* has seeded, which need not be (apply_update's pair rule).               *)
PairStaysDamped ==
    \/ slot.words["damping"] >= Floor[Clamp(slot.words["spring"], Least["spring"], Bound["spring"])]
    \/ slot.words["spring"] = config["spring"] /\ slot.words["damping"] = config["damping"]

(* The loop gets there: the values in force become the targets of the last *)
(* set, bit for bit, although a load may tear or race the write, and a     *)
(* filter approaches its target without arriving (Tuning::cycle, slewed).  *)
SlewArrives == tuned ~> ~tuned \/ (setting = NoRequest /\ inForce = slot.words)

(* The pair in force is damped too: "the least damping a joint spring of   *)
(* `stiffness' is allowed to run with" (bounds.rs, joint_damping_floor).   *)
PairRunsDamped == tuned => inForce["damping"] * inForce["damping"] >= inForce["spring"]
=============================================================================
