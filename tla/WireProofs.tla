----------------------------- MODULE WireProofs -----------------------------
(***************************************************************************)
(* What a client of the live parameters is told (ParamsWire), for every    *)
(* starting configuration whose values are natural numbers and whose rates *)
(* are whole in a step of time, and any bounds on sets and steps.          *)
(*                                                                         *)
(* The table is walked once: what each row says (RowIs), what a value      *)
(* becomes under it, and that a damping's floor does not fall when the     *)
(* spring rises.  With it every value of the node and of the loop is kept  *)
(* within its row, a set that passes the schema passes the gate, and a     *)
(* second pass of the same set finds nothing to do.  What the loop has     *)
(* left of a budget is a ramp in whole steps (RampsAre), from where it     *)
(* was: that is what is reported.                                          *)
(***************************************************************************)
EXTENDS ParamsWire, FiniteSetTheorems, WellFoundedInduction, TLAPS

\* What a proof needs of a row.
RowIs(w, name, least, most, policy, confirm) ==
    /\ Bounds[w].name = name /\ Bounds[w].min = least /\ Bounds[w].max = most
    /\ Bounds[w].policy = policy /\ Bounds[w].confirmAbove = confirm 
    /\ Bounds[w].nonZero => least > 0

LEMMA SpringRows ==
    ASSUME NEW w \in 0..6
    PROVE  RowIs(w, "joint_stiffness", 0, 1200000, "slew", Nothing)
<1>1. /\ w \in Springs /\ w \in Words /\ w \notin Dampers
      /\ w # 14 /\ w # 15 /\ w # 16 /\ w # 17 /\ w # 18
  BY SMT DEF Springs, Words, Dampers
<1>2. Bounds[w] = SpringRow
  BY <1>1, SMT DEF Bounds
<1>3. Bounds[w] = [Row("joint_stiffness", "gains", 0, 1200000, "slew") EXCEPT !.danger = "advise"]
  BY <1>2, SMT DEF SpringRow, Advise
<1> QED
  BY <1>3, SMT DEF RowIs, Row

LEMMA DamperRows ==
    ASSUME NEW w \in 7..13
    PROVE  RowIs(w, "joint_damping", 0, IF w < 11 THEN 60000 ELSE 40000, "slew", Nothing)
<1>1. w \in Dampers /\ w \in Words /\ w \notin Springs
  BY SMT DEF Springs, Words, Dampers
<1>2. Bounds[w] = DamperRow(w)
  BY <1>1, SMT DEF Bounds
<1>3. (SpringOf(w) < 4) = (w < 11)
  BY SMT DEF SpringOf
<1> DEFINE most == IF w < 11 THEN 60000 ELSE 40000
<1>4. Bounds[w] = [Row("joint_damping", "gains", 0, most, "slew") EXCEPT !.danger = "advise"]
  BY <1>2, <1>3, SMT DEF DamperRow, Advise
<1> HIDE DEF most
<1>5. RowIs(w, "joint_damping", 0, most, "slew", Nothing)
  BY <1>4, SMT DEF RowIs, Row
<1> QED
  BY <1>5, SMT DEF most

LEMMA OtherRows ==
    /\ RowIs(14, "cartesian_stiffness", 50000, 3000000, "slew", Nothing)
    /\ RowIs(15, "ik_damping", 1, 1000, "slew", Nothing)
    /\ RowIs(16, "ik_nullspace_gain", 0, 20000, "slew", Nothing)
    /\ RowIs(17, "velocity_feedforward_gain", 0, 1000, "slew", 0)
    /\ RowIs(18, "velocity_feedforward_cutoff", 1000, 1000000, "step", Nothing)
<1>0. /\ 14 \in Words /\ 15 \in Words /\ 16 \in Words /\ 17 \in Words /\ 18 \in Words
      /\ {14, 15, 16, 17, 18} \cap Springs = {} /\ {14, 15, 16, 17, 18} \cap Dampers = {}
  BY SMT DEF Words, Springs, Dampers
<1>1. RowIs(14, "cartesian_stiffness", 50000, 3000000, "slew", Nothing)
  <2>1. Bounds[14] = StiffnessRow
    BY <1>0, SMT DEF Bounds
  <2> QED
    BY <2>1, SMT DEF RowIs, StiffnessRow, Advise, NonZero, Log, Row
<1>2. RowIs(15, "ik_damping", 1, 1000, "slew", Nothing)
  <2>1. Bounds[15] = NonZero(Log(Row("ik_damping", "ik", 1, 1000, "slew")))
    BY <1>0, SMT DEF Bounds
  <2> QED
    BY <2>1, SMT DEF RowIs, NonZero, Log, Row
<1>3. RowIs(16, "ik_nullspace_gain", 0, 20000, "slew", Nothing)
  <2>1. Bounds[16] = OffAt(SliderMax(Row("ik_nullspace_gain", "ik", 0, 20000, "slew"), 5000), 0)
    BY <1>0, SMT DEF Bounds
  <2> QED
    BY <2>1, SMT DEF RowIs, OffAt, SliderMax, Row
<1>4. RowIs(17, "velocity_feedforward_gain", 0, 1000, "slew", 0)
  <2>1. Bounds[17] = FeedforwardRow
    BY <1>0, SMT DEF Bounds
  <2> QED
    BY <2>1, SMT DEF RowIs, FeedforwardRow, OffAt, ConfirmAbove, Row
<1>5. RowIs(18, "velocity_feedforward_cutoff", 1000, 1000000, "step", Nothing)
  <2>1. Bounds[18] = CutoffRow
    BY <1>0, SMT DEF Bounds
  <2> QED
    BY <2>1, SMT DEF RowIs, CutoffRow, OffAt, Log, Row
<1> QED
  BY <1>1, <1>2, <1>3, <1>4, <1>5, SMT

LEMMA BudgetRows ==
    /\ RowIs(19, "budget", 50, 1200, "step_up_gate_down", 850)
    /\ RowIs(20, "budget", 100, 20000, "step_up_gate_down", 10000)
    /\ RowIs(21, "budget", 1000, 800000, "step", 400000)
    /\ RowIs(22, "rotation_budget", 50, 2500, "step_up_gate_down", 1000)
    /\ RowIs(23, "rotation_budget", 100, 30000, "step_up_gate_down", 15000)
    /\ RowIs(24, "rotation_budget", 1000, 800000, "step", 400000)
<1> DEFINE R(name, least, most, policy, confirm) ==
             Norm(ConfirmAbove(Row(name, "envelope", least, most, policy), confirm))
<1>1. ASSUME NEW w \in 19..24 PROVE Bounds[w] = BudgetRow(w)
  <2>1. w \in Words /\ w \notin Springs /\ w \notin Dampers /\ w \notin {14, 15, 16, 17, 18}
    BY SMT DEF Words, Springs, Dampers
  <2> QED
    BY <2>1, SMT DEF Bounds
<1>2. ASSUME NEW w, NEW name, NEW least, NEW most, NEW policy, NEW confirm,
             Bounds[w] = R(name, least, most, policy, confirm)
      PROVE  RowIs(w, name, least, most, policy, confirm)
  BY <1>2, SMT DEF RowIs, Norm, ConfirmAbove, Row
<1>3. /\ BudgetRow(19) = R("budget", 50, 1200, "step_up_gate_down", 850)
      /\ BudgetRow(20) = R("budget", 100, 20000, "step_up_gate_down", 10000)
      /\ BudgetRow(21) = R("budget", 1000, 800000, "step", 400000)
      /\ BudgetRow(22) = R("rotation_budget", 50, 2500, "step_up_gate_down", 1000)
      /\ BudgetRow(23) = R("rotation_budget", 100, 30000, "step_up_gate_down", 15000)
      /\ BudgetRow(24) = R("rotation_budget", 1000, 800000, "step", 400000)
  BY SMT DEF BudgetRow
<1> HIDE DEF R
<1>4. RowIs(19, "budget", 50, 1200, "step_up_gate_down", 850)
  <2>1. 19 \in 19..24
    BY SMT
  <2>2. Bounds[19] = BudgetRow(19)
    BY <1>1, <2>1, SMT
  <2> QED
    BY <1>2, <1>3, <2>2, SMT
<1>5. RowIs(20, "budget", 100, 20000, "step_up_gate_down", 10000)
  <2>1. 20 \in 19..24
    BY SMT
  <2>2. Bounds[20] = BudgetRow(20)
    BY <1>1, <2>1, SMT
  <2> QED
    BY <1>2, <1>3, <2>2, SMT
<1>6. RowIs(21, "budget", 1000, 800000, "step", 400000)
  <2>1. 21 \in 19..24
    BY SMT
  <2>2. Bounds[21] = BudgetRow(21)
    BY <1>1, <2>1, SMT
  <2> QED
    BY <1>2, <1>3, <2>2, SMT
<1>7. RowIs(22, "rotation_budget", 50, 2500, "step_up_gate_down", 1000)
  <2>1. 22 \in 19..24
    BY SMT
  <2>2. Bounds[22] = BudgetRow(22)
    BY <1>1, <2>1, SMT
  <2> QED
    BY <1>2, <1>3, <2>2, SMT
<1>8. RowIs(23, "rotation_budget", 100, 30000, "step_up_gate_down", 15000)
  <2>1. 23 \in 19..24
    BY SMT
  <2>2. Bounds[23] = BudgetRow(23)
    BY <1>1, <2>1, SMT
  <2> QED
    BY <1>2, <1>3, <2>2, SMT
<1>9. RowIs(24, "rotation_budget", 1000, 800000, "step", 400000)
  <2>1. 24 \in 19..24
    BY SMT
  <2>2. Bounds[24] = BudgetRow(24)
    BY <1>1, <2>1, SMT
  <2> QED
    BY <1>2, <1>3, <2>2, SMT
<1> QED
  BY <1>4, <1>5, <1>6, <1>7, <1>8, <1>9, SMT

\* A field is a run of rows.
RunIs(name, first, last) ==
    /\ name \in Names /\ WordsOf[name] = first..last /\ StartOf[name] = first
    /\ LengthOf[name] = last - first + 1

LEMMA NamesOfRows ==
    /\ \A w \in 0..6 : Bounds[w].name = "joint_stiffness"
    /\ \A w \in 7..13 : Bounds[w].name = "joint_damping"
    /\ \A w \in 14..14 : Bounds[w].name = "cartesian_stiffness"
    /\ \A w \in 15..15 : Bounds[w].name = "ik_damping"
    /\ \A w \in 16..16 : Bounds[w].name = "ik_nullspace_gain"
    /\ \A w \in 17..17 : Bounds[w].name = "velocity_feedforward_gain"
    /\ \A w \in 18..18 : Bounds[w].name = "velocity_feedforward_cutoff"
    /\ \A w \in 19..21 : Bounds[w].name = "budget"
    /\ \A w \in 22..24 : Bounds[w].name = "rotation_budget"
<1>1. \A w \in 0..6 : Bounds[w].name = "joint_stiffness"
  BY SpringRows, SMT DEF RowIs
<1>2. \A w \in 7..13 : Bounds[w].name = "joint_damping"
  BY DamperRows, SMT DEF RowIs
<1>3. /\ Bounds[14].name = "cartesian_stiffness" /\ Bounds[15].name = "ik_damping"
      /\ Bounds[16].name = "ik_nullspace_gain" /\ Bounds[17].name = "velocity_feedforward_gain"
      /\ Bounds[18].name = "velocity_feedforward_cutoff"
  BY OtherRows, SMT DEF RowIs
<1>4. /\ Bounds[19].name = "budget" /\ Bounds[20].name = "budget" /\ Bounds[21].name = "budget"
      /\ Bounds[22].name = "rotation_budget" /\ Bounds[23].name = "rotation_budget"
      /\ Bounds[24].name = "rotation_budget"
  BY BudgetRows, SMT DEF RowIs
<1> QED
  BY <1>1, <1>2, <1>3, <1>4, SMT

LEMMA RunOfRows ==
    ASSUME NEW name, NEW first \in Words, NEW last \in Words, first <= last,
           \A w \in Words : Bounds[w].name = name <=> w \in first..last
    PROVE  RunIs(name, first, last)
<1>0. first \in Int /\ last \in Int
  BY SMT DEF Words
<1>1. name \in Names
  BY SMT DEF Names, Words
<1>2. WordsOf[name] = first..last
  BY <1>1, SMT DEF WordsOf, Words
<1>3. StartOf[name] = first
  <2> DEFINE S == WordsOf[name]
             Least(w) == \A v \in S : w <= v
  <2>1. StartOf[name] = CHOOSE w \in S : Least(w)
    BY <1>1, SMT DEF StartOf
  <2>2. first \in S /\ Least(first)
    BY <1>0, <1>2, SMT
  <2> HIDE DEF Least, S
  <2>4. StartOf[name] \in S /\ Least(StartOf[name])
    BY <2>1, <2>2, Zenon
  <2>3. StartOf[name] \in WordsOf[name] /\ \A v \in WordsOf[name] : StartOf[name] <= v
    BY <2>4, Zenon DEF S, Least
  <2>5. first \in WordsOf[name]
    BY <2>2, Zenon DEF S
  <2> QED
    BY <1>0, <1>2, <2>3, <2>5, SMT
<1>4. LengthOf[name] = last - first + 1
  <2>1. LengthOf[name] = Cardinality(first..last)
    BY <1>1, <1>2, SMT DEF LengthOf
  <2>2. first \in Int /\ last \in Int
    BY SMT DEF Words
  <2>3. Cardinality(first..last) = IF first > last THEN 0 ELSE last - first + 1
    BY <2>2, FS_Interval, Zenon
  <2> QED
    BY <2>1, <2>2, <2>3, SMT
<1> QED
  BY <1>1, <1>2, <1>3, <1>4, SMT DEF RunIs

LEMMA RunsAre ==
    /\ RunIs("joint_stiffness", 0, 6)
    /\ RunIs("joint_damping", 7, 13)
    /\ RunIs("cartesian_stiffness", 14, 14)
    /\ RunIs("ik_damping", 15, 15)
    /\ RunIs("ik_nullspace_gain", 16, 16)
    /\ RunIs("velocity_feedforward_gain", 17, 17)
    /\ RunIs("velocity_feedforward_cutoff", 18, 18)
    /\ RunIs("budget", 19, 21)
    /\ RunIs("rotation_budget", 22, 24)
<1>1. RunIs("joint_stiffness", 0, 6)
  <2>1. \A w \in Words : Bounds[w].name = "joint_stiffness" <=> w \in 0..6
    BY NamesOfRows, SMT DEF Words
  <2>2. 0 \in Words /\ 6 \in Words /\ 0 <= 6
    BY SMT DEF Words
  <2> QED
    BY <2>1, <2>2, RunOfRows, Zenon
<1>2. RunIs("joint_damping", 7, 13)
  <2>1. \A w \in Words : Bounds[w].name = "joint_damping" <=> w \in 7..13
    BY NamesOfRows, SMT DEF Words
  <2>2. 7 \in Words /\ 13 \in Words /\ 7 <= 13
    BY SMT DEF Words
  <2> QED
    BY <2>1, <2>2, RunOfRows, Zenon
<1>3. RunIs("cartesian_stiffness", 14, 14)
  <2>1. \A w \in Words : Bounds[w].name = "cartesian_stiffness" <=> w \in 14..14
    BY NamesOfRows, SMT DEF Words
  <2>2. 14 \in Words /\ 14 \in Words /\ 14 <= 14
    BY SMT DEF Words
  <2> QED
    BY <2>1, <2>2, RunOfRows, Zenon
<1>4. RunIs("ik_damping", 15, 15)
  <2>1. \A w \in Words : Bounds[w].name = "ik_damping" <=> w \in 15..15
    BY NamesOfRows, SMT DEF Words
  <2>2. 15 \in Words /\ 15 \in Words /\ 15 <= 15
    BY SMT DEF Words
  <2> QED
    BY <2>1, <2>2, RunOfRows, Zenon
<1>5. RunIs("ik_nullspace_gain", 16, 16)
  <2>1. \A w \in Words : Bounds[w].name = "ik_nullspace_gain" <=> w \in 16..16
    BY NamesOfRows, SMT DEF Words
  <2>2. 16 \in Words /\ 16 \in Words /\ 16 <= 16
    BY SMT DEF Words
  <2> QED
    BY <2>1, <2>2, RunOfRows, Zenon
<1>6. RunIs("velocity_feedforward_gain", 17, 17)
  <2>1. \A w \in Words : Bounds[w].name = "velocity_feedforward_gain" <=> w \in 17..17
    BY NamesOfRows, SMT DEF Words
  <2>2. 17 \in Words /\ 17 \in Words /\ 17 <= 17
    BY SMT DEF Words
  <2> QED
    BY <2>1, <2>2, RunOfRows, Zenon
<1>7. RunIs("velocity_feedforward_cutoff", 18, 18)
  <2>1. \A w \in Words : Bounds[w].name = "velocity_feedforward_cutoff" <=> w \in 18..18
    BY NamesOfRows, SMT DEF Words
  <2>2. 18 \in Words /\ 18 \in Words /\ 18 <= 18
    BY SMT DEF Words
  <2> QED
    BY <2>1, <2>2, RunOfRows, Zenon
<1>8. RunIs("budget", 19, 21)
  <2>1. \A w \in Words : Bounds[w].name = "budget" <=> w \in 19..21
    BY NamesOfRows, SMT DEF Words
  <2>2. 19 \in Words /\ 21 \in Words /\ 19 <= 21
    BY SMT DEF Words
  <2> QED
    BY <2>1, <2>2, RunOfRows, Zenon
<1>9. RunIs("rotation_budget", 22, 24)
  <2>1. \A w \in Words : Bounds[w].name = "rotation_budget" <=> w \in 22..24
    BY NamesOfRows, SMT DEF Words
  <2>2. 22 \in Words /\ 24 \in Words /\ 22 <= 24
    BY SMT DEF Words
  <2> QED
    BY <2>1, <2>2, RunOfRows, Zenon
<1> QED
  BY <1>1, <1>2, <1>3, <1>4, <1>5, <1>6, <1>7, <1>8, <1>9, SMT

LEMMA FieldsAre ==
    ASSUME NEW name \in Names
    PROVE  /\ LengthOf[name] \in Nat \ {0} /\ StartOf[name] \in Words
           /\ WordsOf[name] = StartOf[name]..(StartOf[name] + LengthOf[name] - 1)
           /\ WordsOf[name] \subseteq Words /\ \A w \in WordsOf[name] : Bounds[w].name = name
<1>1. PICK w \in Words : Bounds[w].name = name
  BY SMT DEF Names
<1>2. \E first \in Words, last \in Words : first <= last /\ RunIs(name, first, last)
  <2>1. CASE w \in 0..6
    <3>1. name = "joint_stiffness"
      BY <1>1, <2>1, NamesOfRows, SMT
    <3> QED
      BY <3>1, RunsAre, SMT DEF Words
  <2>2. CASE w \in 7..13
    <3>1. name = "joint_damping"
      BY <1>1, <2>2, NamesOfRows, SMT
    <3> QED
      BY <3>1, RunsAre, SMT DEF Words
  <2>3. CASE w \in 14..14
    <3>1. name = "cartesian_stiffness"
      BY <1>1, <2>3, NamesOfRows, SMT
    <3> QED
      BY <3>1, RunsAre, SMT DEF Words
  <2>4. CASE w \in 15..15
    <3>1. name = "ik_damping"
      BY <1>1, <2>4, NamesOfRows, SMT
    <3> QED
      BY <3>1, RunsAre, SMT DEF Words
  <2>5. CASE w \in 16..16
    <3>1. name = "ik_nullspace_gain"
      BY <1>1, <2>5, NamesOfRows, SMT
    <3> QED
      BY <3>1, RunsAre, SMT DEF Words
  <2>6. CASE w \in 17..17
    <3>1. name = "velocity_feedforward_gain"
      BY <1>1, <2>6, NamesOfRows, SMT
    <3> QED
      BY <3>1, RunsAre, SMT DEF Words
  <2>7. CASE w \in 18..18
    <3>1. name = "velocity_feedforward_cutoff"
      BY <1>1, <2>7, NamesOfRows, SMT
    <3> QED
      BY <3>1, RunsAre, SMT DEF Words
  <2>8. CASE w \in 19..21
    <3>1. name = "budget"
      BY <1>1, <2>8, NamesOfRows, SMT
    <3> QED
      BY <3>1, RunsAre, SMT DEF Words
  <2>9. CASE w \in 22..24
    <3>1. name = "rotation_budget"
      BY <1>1, <2>9, NamesOfRows, SMT
    <3> QED
      BY <3>1, RunsAre, SMT DEF Words
  <2> QED
    BY <2>1, <2>2, <2>3, <2>4, <2>5, <2>6, <2>7, <2>8, <2>9, SMT DEF Words
<1>3. WordsOf[name] \subseteq Words /\ \A v \in WordsOf[name] : Bounds[v].name = name
  BY SMT DEF WordsOf
<1> QED
  BY <1>2, <1>3, SMT DEF RunIs, Words

LEMMA WordIsOfField ==
    ASSUME NEW w \in Words
    PROVE  /\ Bounds[w].name \in Names /\ w \in WordsOf[Bounds[w].name]
           /\ w - StartOf[Bounds[w].name] + 1 \in 1..LengthOf[Bounds[w].name]
<1> DEFINE name == Bounds[w].name
<1>1. name \in Names
  BY SMT DEF Names
<1>2. WordsOf[name] = {v \in Words : Bounds[v].name = name}
  BY <1>1, SMT DEF WordsOf
<1>3. w \in WordsOf[name]
  BY <1>2, Zenon
<1> HIDE DEF name
<1>4. w \in StartOf[name]..(StartOf[name] + LengthOf[name] - 1) /\ LengthOf[name] \in Nat /\ StartOf[name] \in Words
  <2>1. WordsOf[name] = StartOf[name]..(StartOf[name] + LengthOf[name] - 1) /\ LengthOf[name] \in Nat \ {0}
        /\ StartOf[name] \in Words
    BY <1>1, FieldsAre, Zenon
  <2> QED
    BY <1>3, <2>1, Zenon
<1>6. StartOf[name] \in Int /\ w \in Int /\ LengthOf[name] \in Int
  BY <1>4, SMT DEF Words
<1>5. w - StartOf[name] + 1 \in 1..LengthOf[name]
  BY <1>4, <1>6, SMT
<1> QED
  BY <1>1, <1>3, <1>5, Zenon DEF name

\* A set of numbers that has a member has a least one.
LEMMA LeastExists ==
    ASSUME NEW D, D \subseteq Nat, D # {}
    PROVE  \E x \in D : \A y \in D : x <= y
<1>1. PICK x \in D : \A y \in D : <<y, x>> \notin OpToRel(<, Nat)
  BY NatLessThanWellFounded, WFMin, Zenon
<1>2. OpToRel(<, Nat) = {ss \in Nat \X Nat : ss[1] < ss[2]}
  BY Zenon DEF OpToRel
<1>3. ASSUME NEW y \in D PROVE x <= y
  <2>1. <<y, x>> \in Nat \X Nat
    OBVIOUS
  <2>2. ~(y < x)
    BY <1>1, <1>2, <2>1
  <2> QED
    BY <2>2
<1> QED
  BY <1>3

\* A spring's floor damps it, and one thousandth less does not.
LEMMA LeastDampingIs ==
    ASSUME NEW spring \in Nat
    PROVE  /\ LeastDamping(spring) \in Nat /\ Damps(LeastDamping(spring), spring)
           /\ LeastDamping(spring) = 0 \/ ~Damps(LeastDamping(spring) - 1, spring)
<1> DEFINE S == 0..(spring + 63)
           Least(d) == Damps(d, spring) /\ (d = 0 \/ ~Damps(d - 1, spring))
           D == {d \in S : Damps(d, spring)}
<1>1. spring + 63 \in D
  <2>1. 4 * (spring + 63) * (spring + 63) >= 250 * spring
    <3> DEFINE q == (spring + 63) * spring
    <3>1. (spring + 63) * (spring + 63) = q + (spring + 63) * 63
      BY SMT
    <3>2. q \in Int /\ q >= 0
      BY SMT
    <3> HIDE DEF q
    <3>3. 4 * ((spring + 63) * (spring + 63)) = 4 * q + 252 * (spring + 63)
      BY <3>1, <3>2, SMT
    <3> QED
      BY <3>2, <3>3, SMT
  <2> QED
    BY <2>1, SMT DEF Damps
<1>2. PICK d \in D : \A e \in D : d <= e
  <2>1. D \subseteq Nat /\ D # {}
    BY <1>1, SMT
  <2> HIDE DEF D
  <2> QED
    BY <2>1, LeastExists, Zenon
<1>3. d \in S /\ Least(d)
  <2>1. CASE d = 0
    BY <1>2, <2>1, SMT
  <2>2. CASE d # 0
    <3>1. d - 1 \in S /\ d \in Nat /\ d - 1 < d
      BY <1>2, <2>2, SMT
    <3>2. d - 1 \notin D
      BY <1>2, <3>1, SMT
    <3> QED
      BY <1>2, <3>1, <3>2, Zenon
  <2> QED
    BY <2>1, <2>2
<1>4. LeastDamping(spring) = CHOOSE e \in S : Least(e)
  BY Zenon DEF LeastDamping
<1> HIDE DEF Least
<1>5. LeastDamping(spring) \in S /\ Least(LeastDamping(spring))
  BY <1>3, <1>4, Zenon
<1>6. LeastDamping(spring) \in Nat
  BY <1>5, SMT
<1> QED
  BY <1>5, <1>6, Zenon DEF Least

LEMMA FloorsRise ==
    ASSUME NEW a \in Nat, NEW b \in Nat, a <= b
    PROVE  LeastDamping(a) <= LeastDamping(b)
<1> DEFINE d == LeastDamping(a)
           e == LeastDamping(b)
<1>1. /\ d \in Nat /\ (d = 0 \/ ~Damps(d - 1, a))
      /\ e \in Nat /\ Damps(e, b)
  BY LeastDampingIs
<1> HIDE DEF d, e
<1>2. SUFFICES ASSUME d > e PROVE FALSE
  BY <1>1, SMT DEF d, e
<1>3. 4 * e * e >= 250 * a
  BY <1>1, SMT DEF Damps
<1>4. ~(4 * (d - 1) * (d - 1) >= 250 * a)
  BY <1>1, <1>2, SMT DEF Damps
<1>5. (d - 1) * (d - 1) >= e * e
  <2> DEFINE k == d - 1 - e
  <2>1. k \in Nat /\ d - 1 = e + k
    BY <1>1, <1>2, SMT
  <2> HIDE DEF k
  <2>2. (e + k) * (e + k) = e * e + 2 * (e * k) + k * k
    BY <1>1, <2>1, SMT
  <2>3. e * k >= 0 /\ k * k >= 0 /\ e * k \in Int /\ k * k \in Int /\ e * e \in Int
    BY <1>1, <2>1, SMT
  <2> QED
    BY <2>1, <2>2, <2>3, SMT
<1> QED
  BY <1>1, <1>3, <1>4, <1>5, SMT

LEMMA RowsAreTyped ==
    ASSUME NEW w \in Words
    PROVE  /\ Bounds[w].min \in Nat /\ Bounds[w].max \in Nat /\ Bounds[w].min <= Bounds[w].max
           /\ Bounds[w].nonZero => Bounds[w].min > 0
           /\ Bounds[w].confirmAbove = Nothing \/ Bounds[w].confirmAbove \in Int
<1>1. CASE w \in 0..6
  BY <1>1, SpringRows, SMT DEF RowIs
<1>2. CASE w \in 7..13
  BY <1>2, DamperRows, SMT DEF RowIs
<1>3. CASE w \in {14, 15, 16, 17, 18}
  BY <1>3, OtherRows, SMT DEF RowIs
<1>4. CASE w \in {19, 20, 21, 22, 23, 24}
  BY <1>4, BudgetRows, SMT DEF RowIs
<1> QED
  BY <1>1, <1>2, <1>3, <1>4, SMT DEF Words

LEMMA TrialsAre ==
    ASSUME NEW w \in Words
    PROVE  /\ Trials(w) \subseteq Int
           /\ w \in Springs => Bounds[w].min = Bounds[0].min /\ Bounds[w].max = Bounds[0].max /\ Trials(w) = Trials(0)
<1>1. Trials(w) \subseteq Int
  BY RowsAreTyped, SMT DEF Trials
<1>2. ASSUME w \in Springs PROVE Bounds[w].min = Bounds[0].min /\ Bounds[w].max = Bounds[0].max /\ Trials(w) = Trials(0)
  <2>1. w \in 0..6 /\ 0 \in 0..6
    BY <1>2, SMT DEF Springs
  <2>2. RowIs(w, "joint_stiffness", 0, 1200000, "slew", Nothing)
    BY <2>1, SpringRows, SMT
  <2>3. RowIs(0, "joint_stiffness", 0, 1200000, "slew", Nothing)
    BY <2>1, SpringRows, SMT
  <2> QED
    BY <2>2, <2>3, SMT DEF RowIs, Trials
<1> QED
  BY <1>1, <1>2

LEMMA SnapIs ==
    ASSUME NEW x \in Int, NEW low \in Int, NEW high \in Int, low <= high
    PROVE  /\ Snap(x, low, high) \in low..high
           /\ x \in low..high => Snap(x, low, high) = x
  BY SMT DEF Snap

SnapSpring(k) == Snap(k, Bounds[0].min, Bounds[0].max)

LEMMA SpringValuesAre ==
    /\ SpringValues \subseteq Nat /\ SeededSprings \subseteq SpringValues
    /\ \A k \in Trials(0) \cup SpringValues : SnapSpring(k) \in SpringValues
    /\ \A k \in SpringValues : FloorOf[k] = LeastDamping(k)
<1> DEFINE low == Bounds[0].min
           high == Bounds[0].max
           Seen == Trials(0) \cup SeededSprings
           Snapped == {SnapSpring(k) : k \in Seen}
<1>1. 0 \in Words /\ 0 \in Springs
  BY SMT DEF Words, Springs
<1>2. low \in Nat /\ high \in Nat /\ low <= high /\ Trials(0) \subseteq Int
  BY <1>1, TrialsAre, RowsAreTyped
<1>3. SeededSprings \subseteq Nat
  <2> SUFFICES ASSUME NEW s \in WireSeeds, NEW w \in Springs PROVE s[w] \in Nat
    BY SMT DEF SeededSprings
  <2>1. s \in [Words -> Nat]
    BY SMT, WireAssumption
  <2>2. w \in Words
    BY SMT DEF Springs, Words
  <2> QED
    BY <2>1, <2>2, SMT
<1>4. SpringValues = SeededSprings \cup Snapped
  BY Zenon DEF SpringValues, SnapSpring
<1>5. \A k \in Seen : k \in Int
  <2>1. SeededSprings \subseteq Int
    BY <1>3, SMT
  <2> QED
    BY <1>2, <2>1, Zenon
<1>9. \A k \in SpringValues : FloorOf[k] = LeastDamping(k)
  BY SMT DEF FloorOf
<1>13. Seen = Trials(0) \cup SeededSprings
  OBVIOUS
<1>14. \A k \in Seen : SnapSpring(k) \in Snapped
  OBVIOUS
<1>15. \A k \in Snapped : \E j \in Seen : k = SnapSpring(j)
  BY Zenon
<1> HIDE DEF Seen, Snapped
<1>6. \A k \in Snapped : k \in low..high
  <2>1. \A k \in Seen : SnapSpring(k) \in low..high
    BY <1>2, <1>5, SMT DEF Snap, SnapSpring
  <2> QED
    BY <1>15, <2>1, Zenon
<1>8. \A k \in Snapped : SnapSpring(k) = k
  BY <1>2, <1>6, SMT DEF Snap, SnapSpring
<1>11. SpringValues \subseteq Nat
  <2>1. \A k \in Snapped : k \in Nat
    BY <1>2, <1>6, SMT
  <2> QED
    BY <1>3, <1>4, <2>1, Zenon
<1>12. \A k \in Trials(0) \cup SpringValues : SnapSpring(k) \in SpringValues
  BY <1>4, <1>8, <1>13, <1>14, Zenon
<1> QED
  BY <1>4, <1>9, <1>11, <1>12, Zenon

\* What the targets are: natural numbers, springs whose floors are known, rates whole in a step.
Rates == {20, 21, 23, 24}
Kept(words) ==
    /\ words \in [Words -> Nat]
    /\ \A w \in Springs : words[w] \in SpringValues
    /\ \A w \in Rates : (words[w] * Tick) % 1000 = 0

LEMMA SeedsAreKept ==
    ASSUME NEW s \in WireSeeds
    PROVE  Kept(s)
<1>1. s \in [Words -> Nat] /\ \A w \in Rates : (s[w] * Tick) % 1000 = 0
  BY WireAssumption, SMT DEF Rates
<1>2. \A w \in Springs : s[w] \in SeededSprings
  <2> SUFFICES ASSUME NEW w \in Springs PROVE s[w] \in SeededSprings
    OBVIOUS
  <2> QED
    BY SMT DEF SeededSprings
<1>3. \A w \in Springs : s[w] \in SpringValues
  BY <1>2, SpringValuesAre
<1> QED
  BY <1>1, <1>3 DEF Kept

\* What a client may ask of a word.
Extra(w) ==
    IF w = 15 THEN {200} ELSE IF w = 19 THEN {50, 1200} ELSE IF w = 20 THEN {500, 1000}
    ELSE IF w = 21 THEN {20000} ELSE {}
ReplyChoices(w) == {stored[w]} \cup Trials(w) \cup Extra(w)
AsksChoices(u) ==
    \A name \in DOMAIN u : \A w \in WordsOf[name] : u[name][w - StartOf[name] + 1] \in ReplyChoices(w)

LEMMA ValuesAre ==
    ASSUME NEW name \in Names, NEW of, NEW w \in WordsOf[name]
    PROVE  /\ w - StartOf[name] + 1 \in 1..LengthOf[name]
           /\ ValueOf(name, of)[w - StartOf[name] + 1] = of[w]
<1> DEFINE i == w - StartOf[name] + 1
<1>1. Bounds[w].name = name /\ w \in Words /\ StartOf[name] \in Words
  BY FieldsAre, Zenon
<1>2. i \in 1..LengthOf[name]
  BY <1>1, WordIsOfField, Zenon
<1>3. StartOf[name] + i - 1 = w
  BY <1>1, SMT DEF Words
<1> HIDE DEF i
<1>4. ValueOf(name, of)[i] = of[w]
  BY <1>2, <1>3, SMT DEF ValueOf
<1> QED
  BY <1>2, <1>4 DEF i

LEMMA ChangedIs ==
    ASSUME NEW name \in Names, NEW e, NEW x, NEW w \in WordsOf[name],
           w - StartOf[name] + 1 = e => x \in Trials(w)
    PROVE  Changed(name, e, x)[w - StartOf[name] + 1] \in ReplyChoices(w)
<1> DEFINE i == w - StartOf[name] + 1
           v == ValueOf(name, stored)
<1>1. i \in 1..LengthOf[name] /\ v[i] = stored[w]
  BY ValuesAre, Zenon
<1>2. DOMAIN v = 1..LengthOf[name]
  BY SMT DEF ValueOf
<1>3. Changed(name, e, x) = [v EXCEPT ![e] = x]
  BY Zenon DEF Changed
<1> HIDE DEF v
<1> SUFFICES Changed(name, e, x)[i] \in ReplyChoices(w)
  OBVIOUS
<1>4. i = e => x \in Trials(w)
  OBVIOUS
<1> HIDE DEF i
<1>5. Changed(name, e, x)[i] = IF i = e THEN x ELSE v[i]
  BY <1>1, <1>2, <1>3, SMT
<1> QED
  BY <1>1, <1>4, <1>5, Zenon DEF ReplyChoices

LEMMA ChangesAre ==
    ASSUME NEW u \in Changes
    PROVE  AsksChoices(u)
<1>0. /\ RunIs("joint_stiffness", 0, 6) /\ RunIs("joint_damping", 7, 13) /\ RunIs("budget", 19, 21)
  BY RunsAre
<1>1. CASE u \in WholeChanges
  <2>1. PICK v \in {50, 1200}, a \in {500, 1000} : u = [f \in {"budget"} |-> <<v, a, 20000>>]
    BY <1>1, SMT DEF WholeChanges
  <2>2. DOMAIN u = {"budget"} /\ u["budget"] = <<v, a, 20000>>
    BY <2>1, SMT
  <2>3. ASSUME NEW w \in WordsOf["budget"] PROVE u["budget"][w - StartOf["budget"] + 1] \in ReplyChoices(w)
    <3>1. w \in 19..21 /\ StartOf["budget"] = 19
      BY <1>0, SMT DEF RunIs
    <3>2. w = 19 \/ w = 20 \/ w = 21
      BY <3>1, SMT
    <3>3. CASE w = 19
      BY <2>2, <3>1, <3>3, SMT DEF ReplyChoices, Extra
    <3>4. CASE w = 20
      BY <2>2, <3>1, <3>4, SMT DEF ReplyChoices, Extra
    <3>5. CASE w = 21
      BY <2>2, <3>1, <3>5, SMT DEF ReplyChoices, Extra
    <3> QED
      BY <3>2, <3>3, <3>4, <3>5
  <2> QED
    BY <2>2, <2>3, SMT DEF AsksChoices
<1>2. ASSUME NEW e \in Elements, u \in PairChanges(e) PROVE AsksChoices(u)
  <2>0. e \in 1..7
    BY WireAssumption, SMT
  <2>1. PICK k \in Trials(e - 1), d \in Trials(e + 6) :
          u = [f \in {"joint_stiffness", "joint_damping"} |->
                 IF f = "joint_stiffness" THEN Changed(f, e, k) ELSE Changed(f, e, d)]
    BY <1>2, SMT DEF PairChanges
  <2>2. /\ DOMAIN u = {"joint_stiffness", "joint_damping"}
        /\ u["joint_stiffness"] = Changed("joint_stiffness", e, k)
        /\ u["joint_damping"] = Changed("joint_damping", e, d)
    BY <2>1, SMT
  <2>3. ASSUME NEW w \in WordsOf["joint_stiffness"]
        PROVE  u["joint_stiffness"][w - StartOf["joint_stiffness"] + 1] \in ReplyChoices(w)
    <3>1. w \in 0..6 /\ StartOf["joint_stiffness"] = 0 /\ "joint_stiffness" \in Names
      BY <1>0, SMT DEF RunIs
    <3>2. w - StartOf["joint_stiffness"] + 1 = e => w = e - 1
      BY <2>0, <3>1, SMT
    <3>3. w - StartOf["joint_stiffness"] + 1 = e => k \in Trials(w)
      BY <3>2
    <3> QED
      BY <2>2, <3>1, <3>3, ChangedIs, Zenon
  <2>4. ASSUME NEW w \in WordsOf["joint_damping"]
        PROVE  u["joint_damping"][w - StartOf["joint_damping"] + 1] \in ReplyChoices(w)
    <3>1. w \in 7..13 /\ StartOf["joint_damping"] = 7 /\ "joint_damping" \in Names
      BY <1>0, SMT DEF RunIs
    <3>2. w - StartOf["joint_damping"] + 1 = e => w = e + 6
      BY <2>0, <3>1, SMT
    <3>3. w - StartOf["joint_damping"] + 1 = e => d \in Trials(w)
      BY <3>2
    <3> QED
      BY <2>2, <3>1, <3>3, ChangedIs, Zenon
  <2> QED
    BY <2>2, <2>3, <2>4, Zenon DEF AsksChoices
<1>3. ASSUME NEW name \in Names, u \in ChangesOf(name, 1) PROVE AsksChoices(u)
  <2>1. PICK x \in Trials(StartOf[name] + 1 - 1) : u = [f \in {name} |-> Changed(name, 1, x)]
    BY <1>3, SMT DEF ChangesOf
  <2>2. DOMAIN u = {name} /\ u[name] = Changed(name, 1, x)
    BY <2>1
  <2>3. ASSUME NEW w \in WordsOf[name] PROVE u[name][w - StartOf[name] + 1] \in ReplyChoices(w)
    <3>1. w \in Words /\ StartOf[name] \in Words
      BY FieldsAre, Zenon
    <3>2. w - StartOf[name] + 1 = 1 => w = StartOf[name] + 1 - 1
      BY <3>1, SMT DEF Words
    <3>3. w - StartOf[name] + 1 = 1 => x \in Trials(w)
      BY <3>2
    <3> QED
      BY <2>2, <3>3, ChangedIs, Zenon
  <2> QED
    BY <2>2, <2>3, Zenon DEF AsksChoices
<1>4. u \in WholeChanges \/ (\E e \in Elements : u \in PairChanges(e)) \/ (\E name \in Names : u \in ChangesOf(name, 1))
  <2> DEFINE A == {PairChanges(e) : e \in Elements}
             B == {ChangesOf(name, 1) : name \in Names}
  <2>1. \A x \in A : \E e \in Elements : x = PairChanges(e)
    OBVIOUS
  <2>2. \A x \in B : \E name \in Names : x = ChangesOf(name, 1)
    OBVIOUS
  <2>3. Changes = WholeChanges \cup (UNION A) \cup (UNION B)
    BY DEF Changes
  <2> HIDE DEF A, B
  <2> QED
    BY <2>1, <2>2, <2>3, Zenon
<1> QED
  BY <1>1, <1>2, <1>3, <1>4, Zenon

LEMMA RequestsMade ==
    ASSUME NEW r \in Requests
    PROVE  \/ \E u \in Changes : \E c \in Confirms(u) : r = SetRequest(7, wire.version, c, u)
           \/ \E u \in Malformed : r = SetRequest(7, Nothing, {}, u)
           \/ \E c \in {0, 7} : r = SetRequest(c, wire.version + 1, {}, [f \in {"ik_damping"} |-> << 200 >>])
<1> DEFINE Of(u) == {SetRequest(7, wire.version, c, u) : c \in Confirms(u)}
           A == {Of(u) : u \in Changes}
           B == {SetRequest(7, Nothing, {}, u) : u \in Malformed}
           C == {SetRequest(c, wire.version + 1, {}, [f \in {"ik_damping"} |-> << 200 >>]) : c \in {0, 7}}
<1>1. \A u \in Changes : \A x \in Of(u) : \E c \in Confirms(u) : x = SetRequest(7, wire.version, c, u)
  OBVIOUS
<1>2. \A x \in B : \E u \in Malformed : x = SetRequest(7, Nothing, {}, u)
  OBVIOUS
<1>3. \A x \in C : \E c \in {0, 7} : x = SetRequest(c, wire.version + 1, {}, [f \in {"ik_damping"} |-> << 200 >>])
  BY Zenon
<1>4. Requests = (UNION A) \cup B \cup C
  BY DEF Requests
<1> HIDE DEF Of
<1>5. \A x \in A : \E u \in Changes : x = Of(u)
  OBVIOUS
<1> HIDE DEF A, B, C
<1>6. (\E x \in A : r \in x) \/ r \in B \/ r \in C
  BY <1>4, Zenon
<1>7. CASE \E x \in A : r \in x
  <2>1. PICK u \in Changes : r \in Of(u)
    BY <1>5, <1>7, Zenon
  <2>2. \E c \in Confirms(u) : r = SetRequest(7, wire.version, c, u)
    BY <1>1, <2>1, Zenon
  <2> QED
    BY <2>2, Zenon
<1>8. CASE r \in B
  BY <1>2, <1>8, Zenon
<1>9. CASE r \in C
  BY <1>3, <1>9, Zenon
<1> QED
  BY <1>6, <1>7, <1>8, <1>9, Zenon

LEMMA RequestsAre ==
    ASSUME NEW r \in Requests, DOMAIN r.update \subseteq Names, BadShapes(r.update) = {}
    PROVE  AsksChoices(r.update)
<1>0. RunIs("budget", 19, 21) /\ RunIs("ik_damping", 15, 15)
  BY RunsAre
<1>1. \/ \E u \in Changes : \E c \in Confirms(u) : r = SetRequest(7, wire.version, c, u)
      \/ \E u \in Malformed : r = SetRequest(7, Nothing, {}, u)
      \/ \E c \in {0, 7} : r = SetRequest(c, wire.version + 1, {}, [f \in {"ik_damping"} |-> << 200 >>])
  BY RequestsMade, Zenon
<1>2. ASSUME NEW u \in Changes, NEW c \in Confirms(u), r = SetRequest(7, wire.version, c, u) PROVE AsksChoices(r.update)
  <2>1. r.update = u
    BY <1>2 DEF SetRequest
  <2> QED
    BY <2>1, ChangesAre
<1>3. ASSUME NEW u \in Malformed, r = SetRequest(7, Nothing, {}, u) PROVE FALSE
  <2>1. r.update = u
    BY <1>3 DEF SetRequest
  <2>2. ASSUME NEW name \in Names, NEW v, u = [f \in {name} |-> v], ShapeOf(name, v) # "ok" PROVE FALSE
    <3>1. name \in DOMAIN u /\ u[name] = v
      BY <2>2
    <3>2. ShapeOf(name, v) \in BadShapes(u)
      BY <2>2, <3>1 DEF BadShapes
    <3> QED
      BY <2>1, <3>2
  <2>3. CASE u = [f \in {"leash"} |-> <<1>>]
    <3>1. "leash" \in Names
      BY <2>1, <2>3
    <3>2. PICK w \in Words : Bounds[w].name = "leash"
      BY <3>1, SMT DEF Names
    <3> QED
      BY <3>2, NamesOfRows, SMT DEF Words
  <2>4. CASE u = [f \in {"budget"} |-> <<1000, 1000>>]
    <3>1. LengthOf["budget"] = 3 /\ "budget" \in Names
      BY <1>0, SMT DEF RunIs
    <3>2. ShapeOf("budget", <<1000, 1000>>) # "ok"
      BY <3>1, SMT DEF ShapeOf, IsArray
    <3> QED
      BY <2>2, <2>4, <3>1, <3>2, SMT
  <2>5. CASE u = [f \in {"ik_damping"} |-> <<NoNumber>>]
    <3>1. LengthOf["ik_damping"] = 1 /\ "ik_damping" \in Names
      BY <1>0, SMT DEF RunIs
    <3>2. ShapeOf("ik_damping", <<NoNumber>>) # "ok"
      BY <3>1, SMT DEF ShapeOf, IsArray
    <3> QED
      BY <2>2, <2>5, <3>1, <3>2, SMT
  <2>6. CASE u = [f \in {"ik_damping"} |-> <<200, 200>>]
    <3>1. LengthOf["ik_damping"] = 1 /\ "ik_damping" \in Names
      BY <1>0, SMT DEF RunIs
    <3>2. ShapeOf("ik_damping", <<200, 200>>) # "ok"
      BY <3>1, SMT DEF ShapeOf, IsArray
    <3> QED
      BY <2>2, <2>6, <3>1, <3>2, SMT
  <2> QED
    BY <2>3, <2>4, <2>5, <2>6, Zenon DEF Malformed
<1>4. ASSUME NEW c \in {0, 7}, r = SetRequest(c, wire.version + 1, {}, [f \in {"ik_damping"} |-> << 200 >>])
      PROVE  AsksChoices(r.update)
  <2> DEFINE u == r.update
  <2>1. u = [f \in {"ik_damping"} |-> << 200 >>]
    BY <1>4 DEF SetRequest
  <2>2. DOMAIN u = {"ik_damping"} /\ u["ik_damping"] = << 200 >>
    BY <2>1
  <2> HIDE DEF u
  <2>3. ASSUME NEW w \in WordsOf["ik_damping"] PROVE u["ik_damping"][w - StartOf["ik_damping"] + 1] \in ReplyChoices(w)
    <3>1. w = 15 /\ StartOf["ik_damping"] = 15
      BY <1>0, SMT DEF RunIs
    <3> QED
      BY <2>2, <3>1, SMT DEF ReplyChoices, Extra
  <2> QED
    BY <2>2, <2>3, Zenon DEF AsksChoices, u
<1> QED
  BY <1>1, <1>2, <1>3, <1>4, Zenon

\* A set, word by word.
Given(u, w) == u[Bounds[w].name][w - StartOf[Bounds[w].name] + 1]
OverAt(words, u, w) == IF w \in Carried(u) THEN Given(u, w) ELSE words[w]
BoundedAt(words, u, w) ==
    IF w \in Carried(u) THEN Snap(Given(u, w), Bounds[w].min, Bounds[w].max) ELSE words[w]
FloorAt(words, u, w) ==
    FloorOf[Snap(BoundedAt(words, u, SpringOf(w)), Bounds[SpringOf(w)].min, Bounds[SpringOf(w)].max)]
Paired(u, w) == w \in Dampers /\ (w \in Carried(u) \/ SpringOf(w) \in Carried(u))
AfterAt(words, u, w) ==
    IF Paired(u, w)
    THEN Snap(OverAt(words, u, w), FloorAt(words, u, w),
              IF w \in Carried(u) THEN Bounds[w].max ELSE OverAt(words, u, w) + FloorAt(words, u, w))
    ELSE BoundedAt(words, u, w)
AsksFit(u) ==
    \A w \in Carried(u) :
      /\ w \in Words /\ Given(u, w) \in Int
      /\ w \in Springs => Given(u, w) \in Trials(0) \cup SpringValues
      /\ w \in Rates => (Snap(Given(u, w), Bounds[w].min, Bounds[w].max) * Tick) % 1000 = 0

LEMMA PairsAre ==
    ASSUME NEW w \in Dampers
    PROVE  /\ w \in Words /\ SpringOf(w) \in Springs /\ SpringOf(w) \in Words
           /\ SpringOf(w) \notin Dampers /\ w \notin Springs /\ w \notin Rates
  BY SMT DEF Dampers, Words, SpringOf, Springs, Rates

LEMMA OverIs ==
    ASSUME NEW words, NEW u, NEW w \in Words
    PROVE  /\ Overlaid(words, u)[w] = OverAt(words, u, w)
           /\ Bounded(Overlaid(words, u), Carried(u))[w] = BoundedAt(words, u, w)
  BY Zenon DEF Overlaid, OverAt, Bounded, BoundedAt, Given

LEMMA AppliedIs ==
    ASSUME NEW words, NEW u
    PROVE  AppliedTo(words, u) = [w \in Words |-> AfterAt(words, u, w)]
<1> DEFINE carried == Carried(u)
           over == Overlaid(words, u)
           bounded == Bounded(over, carried)
           at(w) == IF w \in Dampers /\ {w, SpringOf(w)} \cap carried # {}
                    THEN LET spring == SpringOf(w)
                             floor == FloorOf[Snap(bounded[spring], Bounds[spring].min, Bounds[spring].max)]
                         IN  Snap(over[w], floor, IF w \in carried THEN Bounds[w].max ELSE over[w] + floor)
                    ELSE bounded[w]
<1>1. AppliedTo(words, u) = [w \in Words |-> at(w)]
  BY Zenon DEF AppliedTo
<1>2. ASSUME NEW w \in Words PROVE at(w) = AfterAt(words, u, w)
  <2>1. over[w] = OverAt(words, u, w) /\ bounded[w] = BoundedAt(words, u, w)
    BY OverIs, Zenon
  <2>2. w \in Dampers => bounded[SpringOf(w)] = BoundedAt(words, u, SpringOf(w))
    BY OverIs, PairsAre, Zenon
  <2> HIDE DEF over, bounded
  <2>3. (w \in Dampers /\ {w, SpringOf(w)} \cap carried # {}) <=> Paired(u, w)
    BY Zenon DEF Paired
  <2>4. CASE Paired(u, w)
    <3>1. w \in Dampers
      BY <2>4 DEF Paired
    <3>2. FloorOf[Snap(bounded[SpringOf(w)], Bounds[SpringOf(w)].min, Bounds[SpringOf(w)].max)] = FloorAt(words, u, w)
      BY <2>2, <3>1, Zenon DEF FloorAt
    <3> QED
      BY <2>1, <2>3, <2>4, <3>2, Zenon DEF AfterAt
  <2>5. CASE ~Paired(u, w)
    BY <2>1, <2>3, <2>5, Zenon DEF AfterAt
  <2> QED
    BY <2>4, <2>5
<1> HIDE DEF at
<1> QED
  BY <1>1, <1>2, Zenon

LEMMA CarriedIs ==
    ASSUME NEW u, DOMAIN u \subseteq Names
    PROVE  /\ Carried(u) \subseteq Words
           /\ \A w \in Words : w \in Carried(u) <=> Bounds[w].name \in DOMAIN u
<1> DEFINE S == {WordsOf[name] : name \in DOMAIN u}
<1>1. \A x \in S : \E name \in DOMAIN u : x = WordsOf[name]
  OBVIOUS
<1>2. \A name \in DOMAIN u : WordsOf[name] \in S
  OBVIOUS
<1>3. Carried(u) = UNION S
  BY DEF Carried
<1> HIDE DEF S
<1>4. ASSUME NEW w \in Carried(u) PROVE w \in Words /\ Bounds[w].name \in DOMAIN u
  <2>1. PICK name \in DOMAIN u : w \in WordsOf[name]
    BY <1>1, <1>3, Zenon
  <2>2. name \in Names
    OBVIOUS
  <2> QED
    BY <2>1, <2>2, FieldsAre, Zenon
<1>5. ASSUME NEW w \in Words, Bounds[w].name \in DOMAIN u PROVE w \in Carried(u)
  BY <1>2, <1>3, <1>5, WordIsOfField, Zenon
<1> QED
  BY <1>4, <1>5, Zenon

LEMMA ChoicesFit ==
    ASSUME Kept(stored), NEW w \in Words, NEW x \in ReplyChoices(w)
    PROVE  /\ x \in Int
           /\ w \in Springs => x \in Trials(0) \cup SpringValues
           /\ w \in Rates => (Snap(x, Bounds[w].min, Bounds[w].max) * Tick) % 1000 = 0
<1>1. x = stored[w] \/ x \in Trials(w) \/ x \in Extra(w)
  BY DEF ReplyChoices
<1>2. stored[w] \in Nat /\ (w \in Springs => stored[w] \in SpringValues) /\ (w \in Rates => (stored[w] * Tick) % 1000 = 0)
  BY DEF Kept
<1>3. x \in Int
  BY <1>1, <1>2, TrialsAre, SMT DEF Extra
<1>4. w \in Springs => x \in Trials(0) \cup SpringValues
  <2>1. w \in Springs => Extra(w) = {} /\ Trials(w) = Trials(0)
    BY TrialsAre, SMT DEF Extra, Springs
  <2> QED
    BY <1>1, <1>2, <2>1
<1>5. ASSUME w \in Rates PROVE (Snap(x, Bounds[w].min, Bounds[w].max) * Tick) % 1000 = 0
  <2>0. w \in Rates
    BY <1>5
  <2> DEFINE low == Bounds[w].min
             high == Bounds[w].max
             confirm == Bounds[w].confirmAbove
  <2>1. /\ low \in Nat /\ high \in Nat /\ low <= high
        /\ (low * Tick) % 1000 = 0 /\ (high * Tick) % 1000 = 0
        /\ ((high \div 2) * Tick) % 1000 = 0 /\ confirm \in Int /\ (confirm * Tick) % 1000 = 0
    <3>1. CASE w = 20
      BY <3>1, BudgetRows, SMT DEF RowIs, Tick
    <3>2. CASE w = 21
      BY <3>2, BudgetRows, SMT DEF RowIs, Tick
    <3>3. CASE w = 23
      BY <3>3, BudgetRows, SMT DEF RowIs, Tick
    <3>4. CASE w = 24
      BY <3>4, BudgetRows, SMT DEF RowIs, Tick
    <3> QED
      BY <2>0, <3>1, <3>2, <3>3, <3>4, SMT DEF Rates
  <2>2. Trials(w) \subseteq {low - 1000, high + 1000, high \div 2, confirm}
    BY SMT DEF Trials
  <2>3. \A y \in Extra(w) : (y * Tick) % 1000 = 0
    BY <2>0, SMT DEF Extra, Rates, Tick
  <2> HIDE DEF low, high, confirm
  <2>4. x \in {low - 1000, high + 1000} \/ (x * Tick) % 1000 = 0
    BY <1>1, <1>2, <2>0, <2>1, <2>2, <2>3, SMT
  <2>5. Snap(x, low, high) \in {x, low, high}
    BY SMT DEF Snap
  <2>6. x \in {low - 1000, high + 1000} => Snap(x, low, high) \in {low, high}
    BY <2>1, SMT DEF Snap
  <2>7. (Snap(x, low, high) * Tick) % 1000 = 0
    BY <2>1, <2>4, <2>5, <2>6, SMT
  <2> QED
    BY <2>7, Zenon DEF low, high
<1> QED
  BY <1>3, <1>4, <1>5

LEMMA AsksAreFit ==
    ASSUME Kept(stored), NEW u, DOMAIN u \subseteq Names, AsksChoices(u)
    PROVE  AsksFit(u)
<1>3. ASSUME NEW w \in Carried(u)
      PROVE  /\ w \in Words /\ Given(u, w) \in Int
             /\ w \in Springs => Given(u, w) \in Trials(0) \cup SpringValues
             /\ w \in Rates => (Snap(Given(u, w), Bounds[w].min, Bounds[w].max) * Tick) % 1000 = 0
  <2>1. w \in Words /\ Bounds[w].name \in DOMAIN u
    BY CarriedIs, Zenon
  <2>2. w \in WordsOf[Bounds[w].name]
    BY <2>1, WordIsOfField, Zenon
  <2>3. Given(u, w) \in ReplyChoices(w)
    BY <2>1, <2>2, Zenon DEF AsksChoices, Given
  <2> QED
    BY <2>1, <2>3, ChoicesFit, SMT
<1> QED
  BY <1>3, Zenon DEF AsksFit

\* The floor under a damping is known, and falls with the spring.
LEMMA FloorsAre ==
    ASSUME NEW words, Kept(words), NEW u, AsksFit(u), NEW w \in Dampers
    PROVE  LET s == SpringOf(w)
           IN  /\ BoundedAt(words, u, s) \in SpringValues
               /\ FloorAt(words, u, w) = FloorOf[SnapSpring(BoundedAt(words, u, s))]
               /\ FloorAt(words, u, w) = LeastDamping(SnapSpring(BoundedAt(words, u, s)))
               /\ FloorAt(words, u, w) \in Nat
               /\ s \in Carried(u) => SnapSpring(BoundedAt(words, u, s)) = BoundedAt(words, u, s)
<1> DEFINE s == SpringOf(w)
           b == BoundedAt(words, u, s)
<1>1. s \in Springs /\ s \in Words
  BY PairsAre, Zenon
<1>2. /\ Bounds[s].min = Bounds[0].min /\ Bounds[s].max = Bounds[0].max
      /\ Bounds[s].min \in Nat /\ Bounds[s].max \in Nat /\ Bounds[s].min <= Bounds[s].max
  BY <1>1, TrialsAre, RowsAreTyped, Zenon
<1>5. b \in SpringValues /\ (s \in Carried(u) => SnapSpring(b) = b)
  <2>1. CASE s \in Carried(u)
    <3>1. Given(u, s) \in Trials(0) \cup SpringValues /\ Given(u, s) \in Int
      BY <1>1, <2>1 DEF AsksFit
    <3>2. b = SnapSpring(Given(u, s))
      BY <1>2, <2>1, Zenon DEF BoundedAt, SnapSpring
    <3>3. b \in SpringValues
      BY <3>1, <3>2, SpringValuesAre, Zenon
    <3>4. SnapSpring(b) = b
      BY <1>2, <3>1, <3>2, SMT DEF Snap, SnapSpring
    <3> QED
      BY <3>3, <3>4
  <2>2. CASE s \notin Carried(u)
    <3>1. b = words[s]
      BY <2>2, Zenon DEF BoundedAt
    <3> QED
      BY <1>1, <2>2, <3>1, Zenon DEF Kept
  <2> QED
    BY <2>1, <2>2
<1>6. FloorAt(words, u, w) = FloorOf[SnapSpring(b)]
  BY <1>2, Zenon DEF FloorAt, SnapSpring
<1>7. SnapSpring(b) \in SpringValues /\ SnapSpring(b) \in Nat
  BY <1>5, SpringValuesAre, Zenon
<1>8. FloorOf[SnapSpring(b)] = LeastDamping(SnapSpring(b))
  BY <1>7, SpringValuesAre, Zenon
<1>9. LeastDamping(SnapSpring(b)) \in Nat
  BY <1>7, LeastDampingIs, Zenon
<1> QED
  BY <1>5, <1>6, <1>8, <1>9, Zenon

\* The gate keeps what its targets are.
LEMMA AppliedIsKept ==
    ASSUME NEW words, Kept(words), NEW u, AsksFit(u)
    PROVE  Kept(AppliedTo(words, u))
<1> DEFINE after == AppliedTo(words, u)
<1>1. after = [w \in Words |-> AfterAt(words, u, w)]
  BY AppliedIs, Zenon
<1> HIDE DEF after
<1>2. \A w \in Words : words[w] \in Nat
  BY DEF Kept
<1>3. ASSUME NEW w \in Words PROVE BoundedAt(words, u, w) \in Nat
  <2>1. CASE w \in Carried(u)
    <3>1. Given(u, w) \in Int
      BY <2>1 DEF AsksFit
    <3> QED
      BY <2>1, <3>1, RowsAreTyped, SMT DEF BoundedAt, Snap
  <2> QED
    BY <1>2, <2>1, SMT DEF BoundedAt
<1>4. ASSUME NEW w \in Words PROVE AfterAt(words, u, w) \in Nat
  <2>1. CASE Paired(u, w)
    <3>1. FloorAt(words, u, w) \in Nat
      BY <2>1, FloorsAre, Zenon DEF Paired
    <3>2. OverAt(words, u, w) \in Int
      <4>1. w \in Carried(u) => Given(u, w) \in Int
        BY DEF AsksFit
      <4> QED
        BY <1>2, <4>1, SMT DEF OverAt
    <3>3. Bounds[w].max \in Nat
      BY RowsAreTyped, Zenon
    <3> QED
      BY <2>1, <3>1, <3>2, <3>3, SMT DEF AfterAt, Snap
  <2> QED
    BY <1>3, <2>1, Zenon DEF AfterAt
<1>5. after \in [Words -> Nat]
  BY <1>1, <1>4, Zenon
<1>6. ASSUME NEW w \in Springs PROVE after[w] \in SpringValues
  <2>1. w + 7 \in Dampers /\ SpringOf(w + 7) = w /\ w \in Words /\ w \notin Dampers
    BY SMT DEF Springs, Dampers, SpringOf, Words
  <2>2. after[w] = BoundedAt(words, u, w)
    BY <1>1, <2>1, Zenon DEF AfterAt, Paired
  <2> QED
    BY <2>1, <2>2, FloorsAre, Zenon
<1>7. ASSUME NEW w \in Rates PROVE (after[w] * Tick) % 1000 = 0
  <2>1. w \in Words /\ w \notin Dampers
    BY SMT DEF Rates, Dampers, Words
  <2>2. after[w] = BoundedAt(words, u, w)
    BY <1>1, <2>1, Zenon DEF AfterAt, Paired
  <2>3. CASE w \in Carried(u)
    <3>1. after[w] = Snap(Given(u, w), Bounds[w].min, Bounds[w].max)
      BY <2>2, <2>3, Zenon DEF BoundedAt
    <3> QED
      BY <2>3, <3>1, SMT DEF AsksFit
  <2>4. CASE w \notin Carried(u)
    <3>1. after[w] = words[w]
      BY <2>2, <2>4, Zenon DEF BoundedAt
    <3> QED
      BY <3>1, SMT DEF Kept
  <2> QED
    BY <2>3, <2>4
<1> QED
  BY <1>5, <1>6, <1>7, SMT DEF Kept, after

\* What a set does not carry, it raises to a floor or leaves.
LEMMA OthersStay ==
    ASSUME NEW words, Kept(words), NEW u, AsksFit(u), NEW w \in Words \ Carried(u)
    PROVE  LET after == AppliedTo(words, u)
           IN  \/ after[w] = words[w]
               \/ /\ w \in Dampers /\ SpringOf(w) \in Carried(u)
                  /\ after[w] > words[w] /\ after[w] = FloorOf[after[SpringOf(w)]]
<1> DEFINE after == AppliedTo(words, u)
           floor == FloorAt(words, u, w)
<1>1. \A v \in Words : after[v] = AfterAt(words, u, v)
  BY AppliedIs, Zenon
<1>2. words[w] \in Nat
  BY DEF Kept
<1>3. CASE Paired(u, w)
  <2>1. w \in Dampers /\ SpringOf(w) \in Carried(u)
    BY <1>3, Zenon DEF Paired
  <2>2. after[w] = Snap(words[w], floor, words[w] + floor)
    BY <1>1, <1>3, Zenon DEF AfterAt, OverAt
  <2>3. after[SpringOf(w)] = BoundedAt(words, u, SpringOf(w))
    BY <1>1, <2>1, PairsAre, Zenon DEF AfterAt, Paired
  <2>4. floor \in Nat /\ floor = FloorOf[after[SpringOf(w)]]
    BY <2>1, <2>3, FloorsAre, Zenon
  <2> HIDE DEF after, floor
  <2>5. after[w] = words[w] \/ (after[w] > words[w] /\ after[w] = floor)
    BY <1>2, <2>2, <2>4, SMT DEF Snap
  <2> QED
    BY <2>1, <2>4, <2>5, Zenon DEF after
<1>4. CASE ~Paired(u, w)
  <2>1. after[w] = words[w]
    BY <1>1, <1>4, Zenon DEF AfterAt, BoundedAt
  <2> QED
    BY <2>1, Zenon
<1> QED
  BY <1>3, <1>4, Zenon

\* A set that is applied again changes nothing.
LEMMA AgainIsTheSame ==
    ASSUME NEW words, Kept(words), NEW u, AsksFit(u)
    PROVE  AppliedTo(AppliedTo(words, u), u) = AppliedTo(words, u)
<1> DEFINE after == AppliedTo(words, u)
<1>1. after = [v \in Words |-> AfterAt(words, u, v)] /\ AppliedTo(after, u) = [v \in Words |-> AfterAt(after, u, v)]
  BY AppliedIs, Zenon
<1>2. Kept(after)
  BY AppliedIsKept, Zenon
<1> HIDE DEF after
<1>3. ASSUME NEW w \in Words, ~Paired(u, w) PROVE BoundedAt(after, u, w) = BoundedAt(words, u, w)
  <2>1. after[w] = BoundedAt(words, u, w)
    BY <1>1, <1>3, Zenon DEF AfterAt
  <2> QED
    BY <2>1, Zenon DEF BoundedAt
<1>4. ASSUME NEW w \in Words PROVE AfterAt(after, u, w) = AfterAt(words, u, w)
  <2>1. CASE Paired(u, w)
    <3> DEFINE floor == FloorAt(words, u, w)
    <3>1. SpringOf(w) \in Words /\ ~Paired(u, SpringOf(w)) /\ w \in Dampers
      BY <2>1, PairsAre, Zenon DEF Paired
    <3>2. FloorAt(after, u, w) = floor
      BY <1>3, <3>1, Zenon DEF FloorAt
    <3>3. CASE w \in Carried(u)
      <4>1. OverAt(after, u, w) = OverAt(words, u, w)
        BY <3>3, Zenon DEF OverAt
      <4> QED
        BY <2>1, <3>2, <3>3, <4>1, Zenon DEF AfterAt
    <3>4. CASE w \notin Carried(u)
      <4>1. floor \in Nat
        BY <3>1, FloorsAre, Zenon
      <4>2. words[w] \in Nat
        BY DEF Kept
      <4>3. AfterAt(words, u, w) = Snap(words[w], floor, words[w] + floor)
        BY <2>1, <3>4, Zenon DEF AfterAt, OverAt
      <4>4. after[w] = AfterAt(words, u, w)
        BY <1>1
      <4>5. AfterAt(after, u, w) = Snap(after[w], floor, after[w] + floor)
        BY <2>1, <3>2, <3>4, Zenon DEF AfterAt, OverAt
      <4> HIDE DEF floor
      <4>6. after[w] \in Nat /\ after[w] >= floor
        BY <4>1, <4>2, <4>3, <4>4, SMT DEF Snap
      <4>7. Snap(after[w], floor, after[w] + floor) = after[w]
        BY <4>1, <4>6, SMT DEF Snap
      <4> QED
        BY <4>4, <4>5, <4>7
    <3> QED
      BY <3>3, <3>4
  <2>2. CASE ~Paired(u, w)
    BY <1>3, <2>2, Zenon DEF AfterAt
  <2> QED
    BY <2>1, <2>2
<1>5. AppliedTo(after, u) = after
  BY <1>1, <1>4, Zenon
<1> QED
  BY <1>5, Zenon DEF after

\* The schema of a word.
LEMMA SchemaIs ==
    ASSUME NEW name \in Names, NEW w \in WordsOf[name]
    PROVE  LET i == w - StartOf[name] + 1
           IN  /\ Schema[name].min[i] = Bounds[w].min /\ Schema[name].max[i] = Bounds[w].max
               /\ Bounds[w].confirmAbove # Nothing
                    => /\ Schema[name].danger = "confirm_above"
                       /\ Schema[name].confirmAbove[i] = Bounds[w].confirmAbove
<1> DEFINE i == w - StartOf[name] + 1
           least == [v \in Words |-> Bounds[v]["min"]]
           most == [v \in Words |-> Bounds[v]["max"]]
           limit == [v \in Words |-> Bounds[v]["confirmAbove"]]
           s == Schema[name]
<1>1. /\ s.min = ValueOf(name, least) /\ s.max = ValueOf(name, most)
      /\ s.confirmAbove = Every(name, limit)
      /\ Every(name, limit) # Nothing => s.danger = "confirm_above"
  BY DEF Schema
<1>2. w \in Words /\ Bounds[w].name = name
  BY FieldsAre, Zenon
<1>3. /\ ValueOf(name, least)[i] = least[w] /\ ValueOf(name, most)[i] = most[w]
      /\ ValueOf(name, limit)[i] = limit[w]
  BY ValuesAre, Zenon
<1>4. least[w] = Bounds[w].min /\ most[w] = Bounds[w].max /\ limit[w] = Bounds[w].confirmAbove
  BY <1>2
<1> HIDE DEF least, most
<1>5. ASSUME Bounds[w].confirmAbove # Nothing
      PROVE  Every(name, limit) # Nothing /\ Every(name, limit) = ValueOf(name, limit)
  <2>1. /\ \A v \in WordsOf[name] : Bounds[v].confirmAbove \in Int
        /\ LengthOf[name] \in {1, 3}
    <3>1. w \in 17..17 \/ w \in 19..21 \/ w \in 22..24
      <4>1. w \notin 0..6
        BY <1>5, SpringRows, SMT DEF RowIs
      <4>2. w \notin 7..13
        BY <1>5, DamperRows, SMT DEF RowIs
      <4>3. w \notin {14, 15, 16, 18}
        BY <1>5, OtherRows, SMT DEF RowIs
      <4> QED
        BY <1>2, <4>1, <4>2, <4>3, SMT DEF Words
    <3>2. CASE w \in 17..17
      <4>1. name = "velocity_feedforward_gain"
        BY <1>2, <3>2, NamesOfRows, SMT
      <4> QED
        BY <4>1, RunsAre, OtherRows, SMT DEF RunIs, RowIs
    <3>3. CASE w \in 19..21
      <4>1. name = "budget"
        BY <1>2, <3>3, NamesOfRows, SMT
      <4>2. WordsOf[name] = {19, 20, 21} /\ LengthOf[name] = 3
        BY <4>1, RunsAre, SMT DEF RunIs
      <4> QED
        BY <4>2, BudgetRows, SMT DEF RowIs
    <3>4. CASE w \in 22..24
      <4>1. name = "rotation_budget"
        BY <1>2, <3>4, NamesOfRows, SMT
      <4>2. WordsOf[name] = {22, 23, 24} /\ LengthOf[name] = 3
        BY <4>1, RunsAre, SMT DEF RunIs
      <4> QED
        BY <4>2, BudgetRows, SMT DEF RowIs
    <3> QED
      BY <3>1, <3>2, <3>3, <3>4
  <2>2. \A v \in WordsOf[name] : limit[v] \in Int
    BY <2>1, FieldsAre, SMT
  <2>3. Every(name, limit) = ValueOf(name, limit)
    BY <2>2, WireAssumption, SMT DEF Every
  <2> HIDE DEF limit
  <2>4. ValueOf(name, limit) \in [1..LengthOf[name] -> Int]
    <3>1. ASSUME NEW j \in 1..LengthOf[name] PROVE limit[StartOf[name] + j - 1] \in Int
      <4>1. StartOf[name] + j - 1 \in WordsOf[name]
        <5>1. WordsOf[name] = StartOf[name]..(StartOf[name] + LengthOf[name] - 1) /\ StartOf[name] \in Words
              /\ LengthOf[name] \in Nat
          BY FieldsAre, SMT
        <5>2. StartOf[name] \in Int
          <6>1. \A v \in Words : v \in Int
            BY SMT DEF Words
          <6> QED
            BY <5>1, <6>1, Zenon
        <5>3. StartOf[name] + j - 1 \in StartOf[name]..(StartOf[name] + LengthOf[name] - 1)
          <6> DEFINE a == StartOf[name]
                     l == LengthOf[name]
          <6>1. a \in Int /\ l \in Nat /\ j \in 1..l
            BY <5>1, <5>2
          <6> HIDE DEF a, l
          <6>2. a + j - 1 \in a..(a + l - 1)
            BY <6>1, SMT
          <6> QED
            BY <6>2 DEF a, l
        <5> QED
          BY <5>1, <5>3, Zenon
      <4> QED
        BY <2>2, <4>1
    <3> QED
      BY <3>1, SMT DEF ValueOf
  <2>5. ValueOf(name, limit) # Nothing
    <3>1. Nothing \notin [1..1 -> Int] /\ Nothing \notin [1..3 -> Int]
      BY WireAssumption, SMT
    <3>2. CASE LengthOf[name] = 1
      BY <2>4, <3>1, <3>2, Zenon
    <3>3. CASE LengthOf[name] = 3
      BY <2>4, <3>1, <3>3, Zenon
    <3> QED
      BY <2>1, <3>2, <3>3, SMT
  <2> QED
    BY <2>3, <2>5
<1> HIDE DEF limit, s, i
<1> QED
  BY <1>1, <1>3, <1>4, <1>5 DEF s, i

\* What keeps to the schema passes the gate as it was asked.
LEMMA WithinPasses ==
    ASSUME Kept(stored), NEW r, DOMAIN r.update \subseteq Names, AsksFit(r.update), WithinSchema(stored, r)
    PROVE  /\ AppliedTo(stored, r.update) = Overlaid(stored, r.update)
           /\ NotAllowed(r.update) = {} /\ NeedsConfirm(r.update, r.confirm) = {}
<1> DEFINE u == r.update
           Asks(w) == OverAt(stored, u, w)
           over == Overlaid(stored, u)
<1>0. DOMAIN u \subseteq Names /\ AsksFit(u) /\ WithinSchema(stored, r)
  OBVIOUS
<1>1. /\ \A w \in Words : over[w] = Asks(w) /\ stored[w] \in Nat
      /\ over = [w \in Words |-> over[w]]
  BY OverIs, Zenon DEF Kept, Overlaid
<1>2. ASSUME NEW w \in Carried(u)
      PROVE  /\ Bounds[w].min <= Asks(w) /\ Asks(w) <= Bounds[w].max
             /\ w \in Dampers => Asks(w) >= FloorOf[Asks(SpringOf(w))]
             /\ w \in Springs => Asks(w + 7) >= FloorOf[Asks(w)]
             /\ Bounds[w].confirmAbove # Nothing /\ Asks(w) > Bounds[w].confirmAbove
                  => Bounds[w].name \in r.confirm
  <2> DEFINE name == Bounds[w].name
             i == w - StartOf[name] + 1
  <2>1. w \in Words /\ name \in DOMAIN u /\ name \in Names /\ w \in WordsOf[name]
    BY <1>0, CarriedIs, WordIsOfField, Zenon
  <2>2. /\ Schema[name].min[i] <= over[w] /\ over[w] <= Schema[name].max[i]
        /\ w \in Dampers => Relation(over[SpringOf(w)], over[w])
        /\ w \in Springs => Relation(over[w], over[w + 7])
        /\ Schema[name].danger = "confirm_above" /\ over[w] > Schema[name].confirmAbove[i] => name \in r.confirm
    BY <1>0, <2>1, Zenon DEF WithinSchema, Asked
  <2>3. /\ Schema[name].min[i] = Bounds[w].min /\ Schema[name].max[i] = Bounds[w].max
        /\ Bounds[w].confirmAbove # Nothing
             => /\ Schema[name].danger = "confirm_above"
                /\ Schema[name].confirmAbove[i] = Bounds[w].confirmAbove
    BY <2>1, SchemaIs, Zenon
  <2>4. over[w] = Asks(w)
    BY <1>1, <2>1
  <2>5. /\ w \in Dampers => over[SpringOf(w)] = Asks(SpringOf(w))
        /\ w \in Springs => over[w + 7] = Asks(w + 7)
    <3>1. w \in Springs => w + 7 \in Words
      BY SMT DEF Springs, Words
    <3> QED
      BY <1>1, <3>1, PairsAre, Zenon
  <2> HIDE DEF over, Asks, name, i
  <2> QED
    BY <2>2, <2>3, <2>4, <2>5, Zenon DEF Relation, name
<1>3. ASSUME NEW w \in Words PROVE BoundedAt(stored, u, w) = Asks(w)
  <2>1. CASE w \in Carried(u)
    <3>1. Given(u, w) \in Int /\ Asks(w) = Given(u, w)
      BY <1>0, <2>1, Zenon DEF AsksFit, OverAt
    <3>2. BoundedAt(stored, u, w) = Snap(Given(u, w), Bounds[w].min, Bounds[w].max)
      BY <2>1, Zenon DEF BoundedAt
    <3>3. Bounds[w].min <= Asks(w) /\ Asks(w) <= Bounds[w].max
      BY <1>2, <2>1, Zenon
    <3>4. Bounds[w].min \in Int /\ Bounds[w].max \in Int
      BY RowsAreTyped, SMT
    <3> QED
      BY <3>1, <3>2, <3>3, <3>4, SMT DEF Snap
  <2>2. CASE w \notin Carried(u)
    BY <2>2, Zenon DEF BoundedAt, OverAt
  <2> QED
    BY <2>1, <2>2
<1>4. ASSUME NEW w \in Words, Paired(u, w) PROVE FloorAt(stored, u, w) <= Asks(w) /\ FloorAt(stored, u, w) \in Nat
  <2> DEFINE s == SpringOf(w)
  <2>1. w \in Dampers /\ s \in Words /\ s \in Springs /\ s + 7 = w
    <3>1. w \in Dampers
      BY <1>4 DEF Paired
    <3>2. s + 7 = w
      BY <3>1, SMT DEF Dampers, SpringOf
    <3> QED
      BY <3>1, <3>2, PairsAre, Zenon
  <2>2. BoundedAt(stored, u, s) = Asks(s)
    BY <1>3, <2>1
  <2>3. /\ Asks(s) \in SpringValues
        /\ FloorAt(stored, u, w) = FloorOf[SnapSpring(Asks(s))]
        /\ FloorAt(stored, u, w) = LeastDamping(SnapSpring(Asks(s)))
        /\ FloorAt(stored, u, w) \in Nat
        /\ s \in Carried(u) => SnapSpring(Asks(s)) = Asks(s)
    BY <1>0, <2>1, <2>2, FloorsAre, Zenon
  <2>4. CASE s \in Carried(u)
    <3>1. Asks(s + 7) >= FloorOf[Asks(s)]
      BY <1>2, <2>1, <2>4, Zenon
    <3>2. FloorAt(stored, u, w) = FloorOf[Asks(s)]
      BY <2>3, <2>4, Zenon
    <3>3. Asks(w) >= FloorAt(stored, u, w)
      BY <2>1, <3>1, <3>2, Zenon
    <3>4. Asks(w) \in Int
      BY <1>0, <1>1, SMT DEF AsksFit, OverAt
    <3> HIDE DEF Asks
    <3> QED
      BY <2>3, <3>3, <3>4, SMT
  <2>5. CASE s \notin Carried(u)
    <3>1. w \in Carried(u)
      BY <1>4, <2>5, Zenon DEF Paired
    <3>2. Asks(s) \in Nat /\ FloorOf[Asks(s)] = LeastDamping(Asks(s))
      BY <2>3, SpringValuesAre, Zenon
    <3>3. Asks(w) >= LeastDamping(Asks(s))
      BY <1>2, <2>1, <3>1, <3>2, Zenon
    <3>4. SnapSpring(Asks(s)) \in Nat /\ SnapSpring(Asks(s)) <= Asks(s)
      <4>1. 0 \in 0..6
        BY SMT
      <4>2. Bounds[0].min = 0 /\ Bounds[0].max \in Nat
        BY <4>1, SpringRows, SMT DEF RowIs
      <4> HIDE DEF Asks
      <4> QED
        BY <3>2, <4>2, SMT DEF SnapSpring, Snap
    <3>5. LeastDamping(SnapSpring(Asks(s))) <= LeastDamping(Asks(s))
      BY <3>2, <3>4, FloorsRise, Zenon
    <3>6. LeastDamping(Asks(s)) \in Nat
      BY <3>2, LeastDampingIs, Zenon
    <3>7. Asks(w) \in Int
      BY <1>0, <1>1, SMT DEF AsksFit, OverAt
    <3> HIDE DEF Asks
    <3> QED
      BY <2>3, <3>3, <3>5, <3>6, <3>7, SMT
  <2> QED
    BY <2>4, <2>5
<1>5. ASSUME NEW w \in Words PROVE AfterAt(stored, u, w) = Asks(w)
  <2>1. CASE Paired(u, w)
    <3> DEFINE floor == FloorAt(stored, u, w)
               most == IF w \in Carried(u) THEN Bounds[w].max ELSE Asks(w) + floor
    <3>1. AfterAt(stored, u, w) = Snap(Asks(w), floor, most)
      BY <2>1, Zenon DEF AfterAt
    <3>2. floor <= Asks(w) /\ floor \in Nat
      BY <1>4, <2>1
    <3>3. Asks(w) \in Int
      BY <1>0, <1>1, SMT DEF AsksFit, OverAt
    <3>4. w \in Carried(u) => Asks(w) <= Bounds[w].max
      BY <1>2, Zenon
    <3>5. Bounds[w].max \in Int
      BY RowsAreTyped, SMT
    <3> HIDE DEF Asks, floor
    <3> QED
      BY <3>1, <3>2, <3>3, <3>4, <3>5, SMT DEF Snap
  <2>2. CASE ~Paired(u, w)
    BY <1>3, <2>2, Zenon DEF AfterAt
  <2> QED
    BY <2>1, <2>2
<1>6. AppliedTo(stored, u) = over
  BY <1>1, <1>5, AppliedIs, Zenon
<1>7. NotAllowed(u) = {}
  <2> SUFFICES ASSUME NEW w \in Carried(u), Bounds[w].nonZero, over[w] <= 0 PROVE FALSE
    BY Zenon DEF NotAllowed
  <2>1. w \in Words
    BY <1>0, CarriedIs, Zenon
  <2>2. Bounds[w].min > 0 /\ Bounds[w].min \in Nat
    BY <2>1, RowsAreTyped, Zenon
  <2>3. over[w] = Asks(w) /\ Bounds[w].min <= Asks(w)
    BY <1>1, <1>2, <2>1, Zenon
  <2>4. over[w] \in Int
    BY <1>0, <1>1, <2>1, <2>3, SMT DEF AsksFit, OverAt
  <2> HIDE DEF over, Asks
  <2> QED
    BY <2>2, <2>3, <2>4, SMT
<1>8. NeedsConfirm(u, r.confirm) = {}
  <2> SUFFICES ASSUME NEW w \in Words, CrossesUp(w, stored, over), Bounds[w].name \notin r.confirm PROVE FALSE
    BY <1>6, Zenon DEF NeedsConfirm
  <2>1. /\ Bounds[w].confirmAbove # Nothing /\ Bounds[w].confirmAbove \in Int
        /\ Asks(w) > Bounds[w].confirmAbove /\ stored[w] <= Bounds[w].confirmAbove
    BY <1>1, RowsAreTyped, Zenon DEF CrossesUp
  <2>2. w \notin Carried(u)
    BY <1>2, <2>1, Zenon
  <2>3. Asks(w) = stored[w] /\ stored[w] \in Nat
    BY <1>1, <2>2, Zenon DEF OverAt
  <2> HIDE DEF Asks
  <2> QED
    BY <2>1, <2>3, SMT
<1> QED
  BY <1>6, <1>7, <1>8

LEMMA OkMeans ==
    ASSUME NEW r, Verdict(r) = "ok"
    PROVE  engaged /\ DOMAIN r.update \subseteq Names /\ BadShapes(r.update) = {}
<1>1. ASSUME BadShapes(r.update) # {} PROVE (CHOOSE reason \in BadShapes(r.update) : TRUE) # "ok"
  <2>1. (CHOOSE reason \in BadShapes(r.update) : TRUE) \in BadShapes(r.update)
    BY <1>1, Zenon
  <2> QED
    BY <2>1, Zenon DEF BadShapes
<1> DEFINE reason == CHOOSE reason \in BadShapes(r.update) : TRUE
<1>2. BadShapes(r.update) # {} => reason # "ok"
  BY <1>1
<1> HIDE DEF reason
<1>3. Verdict(r) =
       CASE r.client = 0 -> "type"
         [] ~engaged -> "not_ready"
         [] r.base # Nothing /\ r.base # wire.version -> "stale"
         [] ~(DOMAIN r.update \subseteq Names) -> "unknown_field"
         [] BadShapes(r.update) # {} -> reason
         [] NotAllowed(r.update) # {} -> "invalid"
         [] NeedsConfirm(r.update, r.confirm) # {} -> "needs_confirm"
         [] OTHER -> "ok"
  BY Zenon DEF Verdict, reason
<1> QED
  BY <1>2, <1>3, SMT

LEMMA OkWhen ==
    ASSUME NEW r, r.client > 0, r.client \in Nat, engaged, r.base \in {Nothing, wire.version},
           DOMAIN r.update \subseteq Names,
           BadShapes(r.update) = {}, NotAllowed(r.update) = {}, NeedsConfirm(r.update, r.confirm) = {}
    PROVE  Verdict(r) = "ok"
  BY SMT DEF Verdict

\* A budget that is lowered from rest: it goes down at the rate that is in force from its first step.
StepOf(w) == (stored[RateOf(w)] * Tick) \div 1000
GatedWords == {v \in 19..24 : Gated(v)}
RampsAre ==
    wire.from # Nothing /\ budgets.rested =>
      /\ wire.elapsed = 0 => \A w \in 19..24 : budgets.now[w] = wire.from[w]
      /\ wire.elapsed > 0 =>
           \A w \in 19..24 : ~Gated(w) \/ stored[w] >= wire.from[w] => budgets.now[w] = stored[w]
      /\ wire.elapsed > 0 =>
           \A w \in GatedWords :
             wire.from[w] > stored[w] /\ stored[RateOf(w)] >= wire.from[RateOf(w)] =>
               LET down == wire.from[w] - wire.elapsed * StepOf(w)
               IN  budgets.now[w] = IF down > stored[w] THEN down ELSE stored[w]

WireInv ==
    /\ seeded \in WireSeeds /\ engaged \in BOOLEAN /\ Kept(stored)
    /\ DOMAIN budgets = {"now", "rested"} /\ budgets.now \in [19..24 -> Nat] /\ budgets.rested \in BOOLEAN
    /\ DOMAIN wire = {"version", "from", "to", "elapsed"}
    /\ wire.version \in 0..MaxWireSets /\ wire.elapsed \in 0..MaxTicks
    /\ wire.from = Nothing \/ (Kept(wire.from) /\ wire.to = stored)
    /\ RampsAre
    /\ SchemaIsTheGate /\ OnlyAskedMoves /\ RetryIsHarmless

LEMMA GatedAre == GatedWords = {19, 20, 22, 23} /\ \A w \in GatedWords : RateOf(w) \in Rates
<1>1. \A w \in {19, 20, 22, 23} : Gated(w)
  BY BudgetRows, SMT DEF RowIs, Gated
<1>2. \A w \in {21, 24} : ~Gated(w)
  BY BudgetRows, SMT DEF RowIs, Gated
<1>3. GatedWords = {19, 20, 22, 23}
  BY <1>1, <1>2, SMT DEF GatedWords
<1> QED
  BY <1>3, SMT DEF RateOf, Rates

LEMMA BudgetsRest ==
    ASSUME NEW words, Kept(words)
    PROVE  BudgetsOf(words) \in [19..24 -> Nat] /\ \A w \in 19..24 : BudgetsOf(words)[w] = words[w]
  BY SMT DEF Kept, BudgetsOf, Words

LEMMA WireBegins == WireInit => WireInv
<1> SUFFICES ASSUME WireInit PROVE WireInv
  OBVIOUS
<1>1. /\ seeded \in WireSeeds /\ engaged \in BOOLEAN /\ stored = seeded /\ wire = NoCrossing(0)
      /\ reply = Nothing /\ budgets = Rest(seeded)
  BY DEF WireInit
<1>2. Kept(stored)
  BY <1>1, SeedsAreKept, Zenon
<1>3. DOMAIN budgets = {"now", "rested"} /\ budgets.now \in [19..24 -> Nat] /\ budgets.rested \in BOOLEAN
  <2>1. budgets = [now |-> BudgetsOf(stored), rested |-> TRUE]
    BY <1>1 DEF Rest
  <2>2. BudgetsOf(stored) \in [19..24 -> Nat]
    BY <1>2, BudgetsRest, Zenon
  <2> QED
    BY <2>1, <2>2, Zenon
<1>4. DOMAIN wire = {"version", "from", "to", "elapsed"} /\ wire.version = 0 /\ wire.elapsed = 0 /\ wire.from = Nothing
  BY <1>1 DEF NoCrossing
<1>5. 0 \in 0..MaxWireSets /\ 0 \in 0..MaxTicks
  BY WireAssumption, SMT
<1>6. RampsAre
  BY <1>4, Zenon DEF RampsAre
<1>7. SchemaIsTheGate /\ OnlyAskedMoves /\ RetryIsHarmless
  BY <1>1, Zenon DEF SchemaIsTheGate, OnlyAskedMoves, RetryIsHarmless
<1> QED
  BY <1>1, <1>2, <1>3, <1>4, <1>5, <1>6, <1>7, Zenon DEF WireInv

LEMMA ReseedKeeps == WireInv /\ Reseed => WireInv'
<1> SUFFICES ASSUME WireInv, Reseed PROVE WireInv'
  OBVIOUS
<1>1. /\ engaged' = ~engaged /\ stored' = seeded /\ budgets' = Rest(seeded)
      /\ wire' = NoCrossing(wire.version) /\ reply' = Nothing /\ seeded' = seeded
  BY DEF Reseed
<1>2. seeded \in WireSeeds /\ engaged \in BOOLEAN /\ wire.version \in 0..MaxWireSets
  BY DEF WireInv
<1>3. Kept(seeded)
  BY <1>2, SeedsAreKept, Zenon
<1>4. DOMAIN budgets' = {"now", "rested"} /\ budgets'.now \in [19..24 -> Nat] /\ budgets'.rested \in BOOLEAN
  <2>1. budgets' = [now |-> BudgetsOf(seeded), rested |-> TRUE]
    BY <1>1 DEF Rest
  <2>2. BudgetsOf(seeded) \in [19..24 -> Nat]
    BY <1>3, BudgetsRest, Zenon
  <2> QED
    BY <2>1, <2>2, Zenon
<1>5. DOMAIN wire' = {"version", "from", "to", "elapsed"} /\ wire'.version = wire.version /\ wire'.elapsed = 0
      /\ wire'.from = Nothing
  BY <1>1 DEF NoCrossing
<1>6. 0 \in 0..MaxTicks
  BY WireAssumption, SMT
<1>7. RampsAre'
  BY <1>5, Zenon DEF RampsAre
<1>8. SchemaIsTheGate' /\ OnlyAskedMoves' /\ RetryIsHarmless'
  BY <1>1, Zenon DEF SchemaIsTheGate, OnlyAskedMoves, RetryIsHarmless
<1>9. Kept(stored')
  BY <1>1, <1>3
<1>10. engaged' \in BOOLEAN
  BY <1>1, Zenon
<1> QED
  BY <1>1, <1>2, <1>4, <1>5, <1>6, <1>7, <1>8, <1>9, <1>10, Zenon DEF WireInv

LEMMA AnswerKeeps == WireInv /\ AskWire => WireInv'
<1> SUFFICES ASSUME WireInv, AskWire PROVE WireInv'
  OBVIOUS
<1>1. PICK r \in Requests : AnswerSet(r)
  BY Zenon DEF AskWire
<1> DEFINE u == r.update
           after == AppliedTo(stored, u)
           ok == Verdict(r) = "ok"
<1>2. /\ wire.version < MaxWireSets /\ seeded' = seeded /\ engaged' = engaged
      /\ reply' = [request |-> r, verdict |-> Verdict(r), before |-> stored, engaged |-> engaged,
                   version |-> wire.version,
                   clamped |-> IF Verdict(r) = "ok" THEN ClampedList(stored, u, after) ELSE {}]
      /\ ok => /\ stored' = after
               /\ wire' = [version |-> wire.version + 1, from |-> stored, to |-> after, elapsed |-> 0]
               /\ budgets' = [budgets EXCEPT !.rested = budgets.now = BudgetsOf(stored)]
      /\ ~ok => stored' = stored /\ wire' = wire /\ budgets' = budgets
  BY <1>1, Zenon DEF AnswerSet
<1>3. /\ reply'.request = r /\ reply'.verdict = Verdict(r) /\ reply'.before = stored
      /\ reply'.engaged = engaged /\ reply'.version = wire.version
      /\ reply'.clamped = IF Verdict(r) = "ok" THEN ClampedList(stored, u, after) ELSE {}
  BY <1>2
<1>4. /\ seeded \in WireSeeds /\ engaged \in BOOLEAN /\ Kept(stored)
      /\ DOMAIN budgets = {"now", "rested"} /\ budgets.now \in [19..24 -> Nat]
      /\ wire.version \in 0..MaxWireSets
  BY Zenon DEF WireInv
<1> HIDE DEF after, ok
<1>5. ASSUME DOMAIN u \subseteq Names, BadShapes(u) = {} PROVE AsksFit(u)
  <2>1. AsksChoices(u)
    BY <1>5, RequestsAre, Zenon
  <2> QED
    BY <1>4, <1>5, <2>1, AsksAreFit, Zenon
<1>6. ok => engaged /\ AsksFit(u)
  BY <1>5, OkMeans, Zenon DEF ok
<1>7. SchemaIsTheGate'
  <2> SUFFICES ASSUME reply'.engaged, reply'.request.client > 0, reply'.request.base \in {Nothing, reply'.version},
                      DOMAIN reply'.request.update \subseteq Names, BadShapes(reply'.request.update) = {},
                      WithinSchema(reply'.before, reply'.request)
               PROVE  reply'.verdict = "ok" /\ reply'.clamped = {}
    BY Zenon DEF SchemaIsTheGate
  <2>1. /\ engaged /\ r.client > 0 /\ r.base \in {Nothing, wire.version}
        /\ DOMAIN u \subseteq Names /\ BadShapes(u) = {} /\ WithinSchema(stored, r)
    BY <1>3, Zenon
  <2>2. AsksFit(u)
    BY <1>5, <2>1
  <2>3. after = Overlaid(stored, u) /\ NotAllowed(u) = {} /\ NeedsConfirm(u, r.confirm) = {}
    BY <1>4, <2>1, <2>2, WithinPasses, Zenon DEF after
  <2>4. r.client \in {0, 7}
    <3>1. ASSUME NEW c, NEW base, NEW confirm, NEW v, r = SetRequest(c, base, confirm, v) PROVE r.client = c
      BY <3>1 DEF SetRequest
    <3>2. ASSUME NEW v \in Changes, NEW c \in Confirms(v), r = SetRequest(7, wire.version, c, v) PROVE r.client \in {0, 7}
      BY <3>1, <3>2
    <3>3. ASSUME NEW v \in Malformed, r = SetRequest(7, Nothing, {}, v) PROVE r.client \in {0, 7}
      BY <3>1, <3>3
    <3>4. ASSUME NEW c \in {0, 7}, r = SetRequest(c, wire.version + 1, {}, [f \in {"ik_damping"} |-> << 200 >>])
          PROVE  r.client \in {0, 7}
      BY <3>1, <3>4
    <3> QED
      BY <3>2, <3>3, <3>4, RequestsMade, Zenon
  <2>5. Verdict(r) = "ok"
    BY <2>1, <2>3, <2>4, OkWhen, SMT
  <2>6. ClampedList(stored, u, after) = {}
    BY <2>3, Zenon DEF ClampedList, Asked
  <2> QED
    BY <1>3, <2>5, <2>6, Zenon
<1>8. OnlyAskedMoves'
  <2> SUFFICES ASSUME reply'.verdict = "ok", NEW w \in Words \ Carried(reply'.request.update)
               PROVE  \/ stored'[w] = reply'.before[w]
                      \/ /\ w \in Dampers /\ SpringOf(w) \in Carried(reply'.request.update)
                         /\ stored'[w] > reply'.before[w] /\ stored'[w] = FloorOf[stored'[SpringOf(w)]]
    BY Zenon DEF OnlyAskedMoves
  <2>1. ok /\ w \in Words \ Carried(u)
    BY <1>3, Zenon DEF ok
  <2>2. stored' = after
    BY <1>2, <2>1
  <2>3. AsksFit(u)
    BY <1>6, <2>1
  <2>4. \/ after[w] = stored[w]
        \/ /\ w \in Dampers /\ SpringOf(w) \in Carried(u)
           /\ after[w] > stored[w] /\ after[w] = FloorOf[after[SpringOf(w)]]
    <3> HIDE DEF u
    <3> QED
      BY <1>4, <2>1, <2>3, OthersStay, SMT DEF after
  <2>5. reply'.request.update = u /\ reply'.before = stored
    BY <1>3
  <2> HIDE DEF u
  <2> QED
    BY <2>2, <2>4, <2>5, Zenon
<1>9. RetryIsHarmless'
  <2> SUFFICES ASSUME reply'.verdict = "ok" PROVE AppliedTo(stored', reply'.request.update) = stored'
    BY Zenon DEF RetryIsHarmless
  <2>1. ok
    BY <1>3, Zenon DEF ok
  <2>2. AppliedTo(after, u) = after
    BY <1>4, <1>6, <2>1, AgainIsTheSame, Zenon DEF after
  <2> QED
    BY <1>2, <1>3, <2>1, <2>2, Zenon
<1>10. CASE ok
  <2>1. Kept(after)
    BY <1>4, <1>6, <1>10, AppliedIsKept, Zenon DEF after
  <2>2. /\ stored' = after
        /\ wire' = [version |-> wire.version + 1, from |-> stored, to |-> after, elapsed |-> 0]
        /\ budgets' = [budgets EXCEPT !.rested = budgets.now = BudgetsOf(stored)]
    BY <1>2, <1>10
  <2>3. /\ DOMAIN wire' = {"version", "from", "to", "elapsed"} /\ wire'.version = wire.version + 1
        /\ wire'.from = stored /\ wire'.to = after /\ wire'.elapsed = 0
    BY <2>2, Zenon
  <2>4. DOMAIN budgets' = {"now", "rested"} /\ budgets'.now = budgets.now /\ budgets'.rested \in BOOLEAN
        /\ (budgets'.rested <=> budgets.now = BudgetsOf(stored))
    BY <1>4, <2>2, Zenon
  <2>5. wire.version + 1 \in 0..MaxWireSets /\ 0 \in 0..MaxTicks
    BY <1>2, <1>4, WireAssumption, SMT
  <2>6. RampsAre'
    <3> SUFFICES ASSUME budgets'.rested
                 PROVE  \A w \in 19..24 : budgets'.now[w] = wire'.from[w]
      <4>1. ~(wire'.elapsed > 0)
        BY <2>3, SMT
      <4> QED
        BY <4>1, Zenon DEF RampsAre
    <3>1. \A w \in 19..24 : BudgetsOf(stored)[w] = stored[w]
      BY <1>4, BudgetsRest, Zenon
    <3>2. budgets'.now = BudgetsOf(stored) /\ wire'.from = stored
      BY <2>3, <2>4, Zenon
    <3> QED
      BY <3>1, <3>2, Zenon
  <2>7. Kept(stored') /\ Kept(wire'.from) /\ wire'.to = stored'
    BY <1>4, <2>1, <2>2, <2>3
  <2> QED
    BY <1>2, <1>4, <1>7, <1>8, <1>9, <2>3, <2>4, <2>5, <2>6, <2>7, Zenon DEF WireInv
<1>11. CASE ~ok
  <2>1. stored' = stored /\ wire' = wire /\ budgets' = budgets
    BY <1>2, <1>11
  <2>2. RampsAre'
    <3>1. RampsAre
      BY Zenon DEF WireInv
    <3> QED
      BY <2>1, <3>1 DEF RampsAre, StepOf, GatedWords
  <2> QED
    BY <1>2, <1>7, <1>8, <1>9, <2>1, <2>2, Zenon DEF WireInv
<1> QED
  BY <1>10, <1>11

\* The floor of a whole multiple.
LEMMA WholeSteps ==
    ASSUME NEW rate \in Nat, NEW n \in Nat, (rate * Tick) % 1000 = 0
    PROVE  (rate * Tick * n) \div 1000 = n * ((rate * Tick) \div 1000) /\ (rate * Tick) \div 1000 \in Nat
<1> DEFINE x == rate * Tick
           k == x \div 1000
<1>1. x \in Nat
  BY SMT DEF Tick
<1>2. k \in Nat /\ x = 1000 * k
  <2> HIDE DEF x
  <2> QED
    BY <1>1, SMT DEF x
<1> HIDE DEF x, k
<1>3. (x * n) \div 1000 = n * k
  <2> DEFINE y == k * n
  <2>1. x * n = 1000 * y
    BY <1>2, SMT
  <2>2. y \in Nat /\ n * k = y
    BY <1>2, SMT
  <2> HIDE DEF y
  <2> QED
    BY <2>1, <2>2, SMT
<1>4. rate * Tick * n = x * n
  BY SMT DEF x, Tick
<1>5. (rate * Tick * n) \div 1000 = n * k
  BY <1>3, <1>4
<1> QED
  BY <1>2, <1>5 DEF x, k

LEMMA PassKeeps == WireInv /\ PassWire => WireInv'
<1> SUFFICES ASSUME WireInv, PassWire PROVE WireInv'
  OBVIOUS
<1> DEFINE now == budgets.now
           rate(w) == IF stored[RateOf(w)] > now[RateOf(w)] THEN stored[RateOf(w)] ELSE now[RateOf(w)]
           lowest(w) == now[w] - (rate(w) * Tick) \div 1000
           at(w) == IF ~Gated(w) THEN stored[w]
                    ELSE IF stored[w] > lowest(w) THEN stored[w] ELSE lowest(w)
<1>1. /\ wire.elapsed < MaxTicks /\ wire' = [wire EXCEPT !.elapsed = @ + 1]
      /\ budgets' = [budgets EXCEPT !.now = [w \in 19..24 |-> at(w)]]
      /\ seeded' = seeded /\ engaged' = engaged /\ stored' = stored /\ reply' = reply
  BY Zenon DEF PassWire
<1> HIDE DEF at
<1>2. /\ Kept(stored) /\ DOMAIN budgets = {"now", "rested"} /\ now \in [19..24 -> Nat]
      /\ DOMAIN wire = {"version", "from", "to", "elapsed"} /\ wire.elapsed \in 0..MaxTicks
      /\ wire.from = Nothing \/ (Kept(wire.from) /\ wire.to = stored)
      /\ RampsAre
  BY Zenon DEF WireInv
<1>3. /\ DOMAIN wire' = {"version", "from", "to", "elapsed"} /\ wire'.version = wire.version
      /\ wire'.from = wire.from /\ wire'.to = wire.to /\ wire'.elapsed = wire.elapsed + 1
  BY <1>1, <1>2, Zenon
<1>4. /\ DOMAIN budgets' = {"now", "rested"} /\ budgets'.rested = budgets.rested
      /\ budgets'.now = [w \in 19..24 |-> at(w)]
  BY <1>1, <1>2, Zenon
<1>5. \A w \in 19..24 : stored[w] \in Nat /\ now[w] \in Nat
  BY <1>2, SMT DEF Kept, Words
<1>6. \A w \in GatedWords : w \in 19..24 /\ Gated(w) /\ RateOf(w) \in 19..24 /\ RateOf(w) \in Rates
  BY GatedAre, SMT DEF RateOf, GatedWords
<1>7. \A w \in 19..24 : Gated(w) <=> w \in GatedWords
  BY Zenon DEF GatedWords
<1> HIDE DEF now
<1>8. ASSUME NEW w \in GatedWords
      PROVE  /\ rate(w) \in Nat /\ (rate(w) * Tick) \div 1000 \in Nat
             /\ stored[RateOf(w)] >= now[RateOf(w)] => rate(w) = stored[RateOf(w)]
             /\ at(w) = IF stored[w] > lowest(w) THEN stored[w] ELSE lowest(w)
  <2>1. stored[RateOf(w)] \in Nat /\ now[RateOf(w)] \in Nat /\ Gated(w)
    BY <1>5, <1>6
  <2>2. rate(w) \in Nat /\ (stored[RateOf(w)] >= now[RateOf(w)] => rate(w) = stored[RateOf(w)])
    BY <2>1, SMT
  <2>3. at(w) = IF stored[w] > lowest(w) THEN stored[w] ELSE lowest(w)
    BY <2>1, Zenon DEF at
  <2> HIDE DEF rate
  <2>4. (rate(w) * Tick) \div 1000 \in Nat
    BY <2>2, SMT DEF Tick
  <2> QED
    BY <2>2, <2>3, <2>4, Zenon
<1> HIDE DEF rate
<1>9. ASSUME NEW w \in 19..24, w \notin GatedWords PROVE at(w) = stored[w]
  BY <1>7, <1>9, Zenon DEF at
<1>10. ASSUME NEW w \in GatedWords
       PROVE  LET k == (rate(w) * Tick) \div 1000
              IN  /\ k \in Nat /\ at(w) = IF stored[w] > now[w] - k THEN stored[w] ELSE now[w] - k
                  /\ stored[w] \in Nat /\ now[w] \in Nat /\ at(w) \in Nat
  <2> DEFINE k == (rate(w) * Tick) \div 1000
  <2>1. k \in Nat /\ at(w) = IF stored[w] > now[w] - k THEN stored[w] ELSE now[w] - k
    BY <1>8
  <2>2. stored[w] \in Nat /\ now[w] \in Nat
    BY <1>5, <1>6
  <2> HIDE DEF k
  <2>3. at(w) \in Nat
    BY <2>1, <2>2, SMT
  <2> QED
    BY <2>1, <2>2, <2>3 DEF k
<1>11. ASSUME NEW w \in 19..24 PROVE at(w) \in Nat
  <2>1. CASE w \in GatedWords
    BY <1>10, <2>1
  <2>2. CASE w \notin GatedWords
    BY <1>5, <1>9, <2>2
  <2> QED
    BY <2>1, <2>2
<1>12. RampsAre'
  <2> SUFFICES ASSUME wire'.from # Nothing, budgets'.rested
               PROVE  /\ \A w \in 19..24 : ~Gated(w) \/ stored[w] >= wire.from[w] => at(w) = stored[w]
                      /\ \A w \in GatedWords :
                           wire.from[w] > stored[w] /\ stored[RateOf(w)] >= wire.from[RateOf(w)] =>
                             LET down == wire.from[w] - (wire.elapsed + 1) * StepOf(w)
                             IN  at(w) = IF down > stored[w] THEN down ELSE stored[w]
    <3>1. /\ wire'.elapsed # 0 /\ wire'.elapsed = wire.elapsed + 1 /\ wire'.from = wire.from /\ stored' = stored
          /\ \A w \in 19..24 : budgets'.now[w] = at(w)
      BY <1>1, <1>2, <1>3, <1>4, SMT
    <3>2. \A w \in GatedWords : w \in 19..24 /\ StepOf(w)' = StepOf(w)
      BY <1>1, <1>6, Zenon DEF StepOf
    <3> QED
      BY <3>1, <3>2, Zenon DEF RampsAre, GatedWords
  <2>1. wire.from # Nothing /\ budgets.rested /\ Kept(wire.from) /\ wire.elapsed \in Nat
    BY <1>2, <1>3, <1>4, SMT
  <2>2. \A w \in 19..24 : wire.from[w] \in Nat
    BY <2>1, SMT DEF Kept, Words
  <2>3. /\ wire.elapsed = 0 => \A w \in 19..24 : now[w] = wire.from[w]
        /\ wire.elapsed > 0 => \A w \in 19..24 : ~Gated(w) \/ stored[w] >= wire.from[w] => now[w] = stored[w]
        /\ wire.elapsed > 0 =>
             \A w \in GatedWords :
               wire.from[w] > stored[w] /\ stored[RateOf(w)] >= wire.from[RateOf(w)] =>
                 LET down == wire.from[w] - wire.elapsed * StepOf(w)
                 IN  now[w] = IF down > stored[w] THEN down ELSE stored[w]
    BY <1>2, <2>1, Zenon DEF RampsAre, now
  <2>4. wire.elapsed = 0 \/ wire.elapsed > 0
    BY <2>1, SMT
  <2>5. ASSUME NEW w \in 19..24, stored[w] >= wire.from[w] PROVE now[w] <= stored[w]
    <3>2. CASE wire.elapsed > 0
      BY <1>5, <2>3, <2>5, <3>2, SMT
    <3>3. CASE wire.elapsed = 0
      BY <2>2, <2>3, <2>5, <3>3, SMT
    <3> QED
      BY <2>4, <3>2, <3>3
  <2>6. ASSUME NEW w \in 19..24, ~Gated(w) \/ stored[w] >= wire.from[w] PROVE at(w) = stored[w]
    <3>1. CASE w \notin GatedWords
      BY <1>9, <3>1
    <3>2. CASE w \in GatedWords
      <4>1. now[w] <= stored[w]
        BY <1>7, <2>5, <2>6, <3>2, Zenon
      <4> QED
        BY <1>10, <3>2, <4>1, SMT
    <3> QED
      BY <3>1, <3>2
  <2>7. ASSUME NEW w \in GatedWords, wire.from[w] > stored[w], stored[RateOf(w)] >= wire.from[RateOf(w)]
        PROVE  LET down == wire.from[w] - (wire.elapsed + 1) * StepOf(w)
               IN  at(w) = IF down > stored[w] THEN down ELSE stored[w]
    <3> DEFINE r == RateOf(w)
               k == StepOf(w)
               n == wire.elapsed
               from == wire.from[w]
    <3>1. w \in 19..24 /\ r \in 19..24
      BY <1>6
    <3>2. stored[r] >= now[r]
      <4>1. now[r] <= stored[r]
        BY <2>5, <2>7, <3>1, Zenon
      <4> QED
        BY <1>5, <3>1, <4>1, SMT
    <3>3. rate(w) = stored[r]
      BY <1>8, <3>2
    <3>4. k = (rate(w) * Tick) \div 1000
      BY <3>3, Zenon DEF StepOf
    <3>5. k \in Nat /\ at(w) = (IF stored[w] > now[w] - k THEN stored[w] ELSE now[w] - k) /\ stored[w] \in Nat /\ now[w] \in Nat
      BY <1>10, <3>4
    <3>6. from \in Nat /\ n \in Nat /\ from > stored[w]
      BY <2>1, <2>2, <2>7, <3>1
    <3>7. now[w] = IF from - n * k > stored[w] THEN from - n * k ELSE stored[w]
      <4>1. CASE n = 0
        <5>1. now[w] = from
          BY <2>3, <3>1, <4>1
        <5> HIDE DEF n, k, from
        <5>2. n * k = 0
          BY <3>5, <4>1, SMT
        <5> QED
          BY <3>5, <3>6, <5>1, <5>2, SMT
      <4>2. CASE n > 0
        BY <2>3, <2>7, <4>2, Zenon
      <4> QED
        BY <2>4, <4>1, <4>2
    <3> HIDE DEF n, k, from
    <3>8. n * k \in Nat /\ (n + 1) * k = n * k + k
      BY <3>5, <3>6, SMT
    <3>9. at(w) = IF from - (n + 1) * k > stored[w] THEN from - (n + 1) * k ELSE stored[w]
      <4> DEFINE m == n * k
      <4>1. m \in Nat /\ (n + 1) * k = m + k /\ now[w] = IF from - m > stored[w] THEN from - m ELSE stored[w]
        BY <3>7, <3>8
      <4> HIDE DEF m
      <4> QED
        BY <3>5, <3>6, <4>1, SMT
    <3> QED
      BY <3>9 DEF n, k, from
  <2> QED
    BY <2>6, <2>7, Zenon
<1>13. SchemaIsTheGate' /\ OnlyAskedMoves' /\ RetryIsHarmless'
  <2>1. SchemaIsTheGate /\ OnlyAskedMoves /\ RetryIsHarmless
    BY Zenon DEF WireInv
  <2> QED
    BY <1>1, <2>1, Zenon DEF SchemaIsTheGate, OnlyAskedMoves, RetryIsHarmless
<1>14. wire'.elapsed \in 0..MaxTicks
  BY <1>1, <1>2, <1>3, WireAssumption, SMT
<1>15. budgets'.now \in [19..24 -> Nat]
  BY <1>4, <1>11, Zenon
<1>16. Kept(stored') /\ (wire'.from = Nothing \/ (Kept(wire'.from) /\ wire'.to = stored'))
  BY <1>1, <1>2, <1>3, Zenon
<1>17. seeded \in WireSeeds /\ engaged \in BOOLEAN /\ wire.version \in 0..MaxWireSets /\ budgets.rested \in BOOLEAN
  BY Zenon DEF WireInv
<1> QED
  BY <1>1, <1>3, <1>4, <1>12, <1>13, <1>14, <1>15, <1>16, <1>17, Zenon DEF WireInv

LEMMA WireSteps == WireInv /\ [WireNext]_wireVars => WireInv'
<1> SUFFICES ASSUME WireInv, [WireNext]_wireVars PROVE WireInv'
  OBVIOUS
<1>1. CASE UNCHANGED wireVars
  <2>1. seeded' = seeded /\ engaged' = engaged /\ stored' = stored /\ wire' = wire /\ reply' = reply /\ budgets' = budgets
    BY <1>1, Zenon DEF wireVars
  <2>2. RampsAre'
    <3>1. RampsAre
      BY Zenon DEF WireInv
    <3> QED
      BY <2>1, <3>1 DEF RampsAre, StepOf, GatedWords
  <2>3. SchemaIsTheGate' /\ OnlyAskedMoves' /\ RetryIsHarmless'
    <3>1. SchemaIsTheGate /\ OnlyAskedMoves /\ RetryIsHarmless
      BY Zenon DEF WireInv
    <3> QED
      BY <2>1, <3>1, Zenon DEF SchemaIsTheGate, OnlyAskedMoves, RetryIsHarmless
  <2> QED
    BY <2>1, <2>2, <2>3, Zenon DEF WireInv
<1> QED
  BY <1>1, ReseedKeeps, AnswerKeeps, PassKeeps, Zenon DEF WireNext

\* What is reported of a budget on its way down is what the loop has left.
LEMMA WireTells == WireInv => SlewingTells
<1> SUFFICES ASSUME WireInv, wire.from # Nothing, budgets.rested, NEW w \in GatedWords,
                    wire.from[w] > wire.to[w], wire.to[RateOf(w)] >= wire.from[RateOf(w)], wire.elapsed > 0
             PROVE  LeftOf(w, wire.from, wire.to, wire.elapsed)
                      = (1000 * (budgets.now[w] - wire.to[w])) \div (wire.from[w] - wire.to[w])
  BY DEF SlewingTells, GatedWords
<1> DEFINE r == RateOf(w)
           n == wire.elapsed
           from == wire.from[w]
           to == stored[w]
           k == StepOf(w)
           left == from - to - n * k
<1>1. /\ Kept(stored) /\ Kept(wire.from) /\ wire.to = stored /\ n \in Nat /\ RampsAre
  <2>1. wire.elapsed \in 0..MaxTicks
    BY Zenon DEF WireInv
  <2>2. n \in Nat
    BY <2>1, WireAssumption, SMT
  <2> QED
    BY <2>2, Zenon DEF WireInv
<1>2. w \in Words /\ r \in Words /\ r \in Rates /\ Gated(w)
  BY GatedAre, SMT DEF Words, GatedWords, RateOf
<1>3. from \in Nat /\ to \in Nat /\ from > to /\ stored[r] \in Nat /\ wire.from[r] \in Nat /\ stored[r] >= wire.from[r]
      /\ (stored[r] * Tick) % 1000 = 0
  BY <1>1, <1>2, SMT DEF Kept
<1>4. RateInForce(wire.from, wire.to, w) = stored[r]
  BY <1>1, <1>3, SMT DEF RateInForce
<1>5. (stored[r] * Tick * n) \div 1000 = n * k /\ k \in Nat
  BY <1>1, <1>3, WholeSteps DEF StepOf
<1>6. budgets.now[w] = IF from - n * k > to THEN from - n * k ELSE to
  BY <1>1, <1>3, Zenon DEF RampsAre
<1>7. LeftOf(w, wire.from, wire.to, n) = RampLeft(from, to, stored[r], n)
  <2>1. Bounds[w].policy # "step" /\ wire.from[w] # wire.to[w]
    BY <1>1, <1>2, <1>3, SMT DEF Gated
  <2>2. LeftOf(w, wire.from, wire.to, n) = RampLeft(wire.from[w], wire.to[w], RateInForce(wire.from, wire.to, w), n)
    BY <1>2, <2>1, Zenon DEF LeftOf
  <2> QED
    BY <1>1, <1>4, <2>2, Zenon
<1>8. RampLeft(from, to, stored[r], n) = IF from <= to \/ left <= 0 THEN 0 ELSE (1000 * left) \div (from - to)
  BY <1>5 DEF RampLeft
<1> DEFINE m == n * k
<1>9. m \in Nat
  <2> HIDE DEF n, k
  <2> QED
    BY <1>1, <1>5, SMT
<1> HIDE DEF m
<1>10. /\ budgets.now[w] = (IF from - m > to THEN from - m ELSE to)
       /\ RampLeft(from, to, stored[r], n) = IF from <= to \/ from - to - m <= 0 THEN 0 ELSE (1000 * (from - to - m)) \div (from - to)
  BY <1>6, <1>8 DEF m
<1> HIDE DEF from, to, n, k, r
<1>11. (1000 * 0) \div (from - to) = 0
  BY <1>3, SMT
<1>12. RampLeft(from, to, stored[r], n) = (1000 * (budgets.now[w] - to)) \div (from - to)
  <2>1. CASE from - m > to
    <3>1. budgets.now[w] - to = from - to - m /\ ~(from <= to \/ from - to - m <= 0)
      BY <1>3, <1>9, <1>10, <2>1, SMT
    <3> QED
      BY <1>10, <3>1
  <2>2. CASE ~(from - m > to)
    <3>1. budgets.now[w] - to = 0 /\ from - to - m <= 0
      BY <1>3, <1>9, <1>10, <2>2, SMT
    <3> QED
      BY <1>10, <1>11, <3>1
  <2> QED
    BY <2>1, <2>2
<1> QED
  BY <1>1, <1>7, <1>12 DEF from, to, n

LEMMA WireHolds == WireInv => SchemaIsTheGate /\ OnlyAskedMoves /\ RetryIsHarmless /\ SlewingTells /\ WireTypeOK
<1> SUFFICES ASSUME WireInv
             PROVE  SchemaIsTheGate /\ OnlyAskedMoves /\ RetryIsHarmless /\ SlewingTells /\ WireTypeOK
  OBVIOUS
<1>1. SchemaIsTheGate /\ OnlyAskedMoves /\ RetryIsHarmless /\ SlewingTells
  BY WireTells, Zenon DEF WireInv
<1>2. stored \in [Words -> Int] /\ budgets.now \in [19..24 -> Int]
  <2>1. stored \in [Words -> Nat] /\ budgets.now \in [19..24 -> Nat]
    BY Zenon DEF WireInv, Kept
  <2> QED
    BY <2>1, SMT
<1>3. WireTypeOK
  BY <1>2, Zenon DEF WireInv, WireTypeOK
<1> QED
  BY <1>1, <1>3
=============================================================================
