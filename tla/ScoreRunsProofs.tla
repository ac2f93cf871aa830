--------------------------- MODULE ScoreRunsProofs ---------------------------
(***************************************************************************)
(* Proofs about ScoreRuns for every set of businesses, weights and pages.  *)
(***************************************************************************)
EXTENDS ScoreRuns, SignalsProofs, AggregateProofs

(***************************************************************************)
(* The engine.  Its walks over a condition are recursive functions; each   *)
(* is shown to exist and so to obey its own definition.                    *)
(***************************************************************************)

\* What is nested in a condition is less deep than the condition.
LEMMA NestedBelow ==
  ASSUME NEW c \in Conditions
  PROVE  /\ c.all \in Seq(Conditions) /\ c.any \in Seq(Conditions) /\ c.not \in Seq(Conditions)
         /\ Depth \in [Conditions -> Nat]
         /\ \A sub \in Nested(c) : sub \in Conditions /\ Depth[sub] < Depth[c]
         /\ ToSet(c.all) \subseteq Nested(c)
         /\ ToSet(c.any) \subseteq Nested(c)
         /\ ToSet(c.not) \subseteq Nested(c)
<1>1. c.all \in Seq(Conditions) /\ c.any \in Seq(Conditions) /\ c.not \in Seq(Conditions)
  BY ConditionsNest
<1>2. \A s \in Seq(Conditions) : ToSet(s) \subseteq Conditions
  BY DEF ToSet
<1> QED
  BY <1>1, <1>2, ConditionsNest DEF Nested

HoldsStep(known, c, f) ==
  IF c.all # <<>> THEN \A sub \in ToSet(c.all) : f[sub]
  ELSE IF c.any # <<>> THEN \E sub \in ToSet(c.any) : f[sub]
  ELSE IF c.not # <<>> THEN \A sub \in ToSet(c.not) : ~f[sub]
  ELSE Tested(c, known)

\* Evaluating a condition comes to an end.
LEMMA HoldsExists ==
  ASSUME NEW known
  PROVE  \E f \in [Conditions -> BOOLEAN] : \A c \in Conditions : f[c] = HoldsStep(known, c, f)
<1> DEFINE V == [Conditions -> BOOLEAN]
           step == [x \in Conditions \X V |-> HoldsStep(known, x[1], x[2])]
<1>1. \A c \in Conditions, f \in V : step[<<c, f>>] = HoldsStep(known, c, f)
  OBVIOUS
<1>2. step \in [Conditions \X V -> BOOLEAN]
  BY DEF HoldsStep, Tested
<1>3. ASSUME NEW c \in Conditions, NEW f \in V, NEW g \in V,
             \A d \in Conditions : Depth[d] < Depth[c] => f[d] = g[d]
      PROVE  HoldsStep(known, c, f) = HoldsStep(known, c, g)
  <2>1. \A sub \in ToSet(c.all) \cup ToSet(c.any) \cup ToSet(c.not) : f[sub] = g[sub]
    BY <1>3, NestedBelow
  <2> QED
    BY <2>1 DEF HoldsStep
<1>4. LooksBelow(Conditions, BOOLEAN, Depth, step)
  <2> HIDE DEF step
  <2> QED
    BY <1>1, <1>3 DEF LooksBelow
<1>5. Depth \in [Conditions -> Nat]
  BY ConditionsNest
<1> HIDE DEF step
<1>6. \E f \in [Conditions -> BOOLEAN] : \A c \in Conditions : f[c] = step[<<c, f>>]
  <2>1. BOOLEAN # {}
    OBVIOUS
  <2>2. PICK f : IsRecursive(Conditions, BOOLEAN, step, f)
    BY <1>2, <1>4, <1>5, <2>1, RecursionExists
  <2> QED
    BY <2>2 DEF IsRecursive
<1> QED
  BY <1>1, <1>6

\* evaluate: all before any before not, and only then the signal test.
LEMMA EvaluateUnfolds ==
  ASSUME NEW known, NEW c \in Conditions
  PROVE  /\ Evaluate(c, known) \in BOOLEAN
         /\ Evaluate(c, known) =
              IF c.all # <<>> THEN \A sub \in ToSet(c.all) : Evaluate(sub, known)
              ELSE IF c.any # <<>> THEN \E sub \in ToSet(c.any) : Evaluate(sub, known)
              ELSE IF c.not # <<>> THEN \A sub \in ToSet(c.not) : ~Evaluate(sub, known)
              ELSE Tested(c, known)
<1> DEFINE holds == CHOOSE holds : holds = [d \in Conditions |-> HoldsStep(known, d, holds)]
<1>1. \A d : Evaluate(d, known) = holds[d]
  BY DEF Evaluate, HoldsStep
<1>2. PICK f \in [Conditions -> BOOLEAN] : \A d \in Conditions : f[d] = HoldsStep(known, d, f)
  BY HoldsExists
<1>3. f = [d \in Conditions |-> HoldsStep(known, d, f)]
  BY <1>2
<1>4. holds = [d \in Conditions |-> HoldsStep(known, d, holds)]
  BY <1>3, Zenon
<1> HIDE DEF holds
<1>5. holds[c] = HoldsStep(known, c, holds)
  BY <1>4
<1>6. HoldsStep(known, c, holds) \in BOOLEAN
  BY DEF HoldsStep, Tested
<1>7. Evaluate(c, known) = HoldsStep(known, c, holds)
  BY <1>1, <1>5
<1>8. CASE c.all # <<>>
  BY <1>1, <1>7, <1>8 DEF HoldsStep
<1>9. CASE c.all = <<>> /\ c.any # <<>>
  BY <1>1, <1>7, <1>9 DEF HoldsStep
<1>10. CASE c.all = <<>> /\ c.any = <<>> /\ c.not # <<>>
  BY <1>1, <1>7, <1>10 DEF HoldsStep
<1>11. CASE c.all = <<>> /\ c.any = <<>> /\ c.not = <<>>
  BY <1>6, <1>7, <1>11 DEF HoldsStep
<1> QED
  BY <1>6, <1>7, <1>8, <1>9, <1>10, <1>11

ValidStep(c, f) ==
  /\ c.signal # "" \/ Nested(c) # {}
  /\ c.signal # "" => /\ c.signal \in SignalTypes
                      /\ c.present \/ c.absent \/ c.tests # {}
                      /\ ~(c.present /\ c.absent)
  /\ \A sub \in Nested(c) : f[sub]

\* Validating a condition comes to an end.
LEMMA ValidExists ==
  \E f \in [Conditions -> BOOLEAN] : \A c \in Conditions : f[c] = ValidStep(c, f)
<1> DEFINE W == [Conditions -> BOOLEAN]
           step == [x \in Conditions \X W |-> ValidStep(x[1], x[2])]
<1>1. \A c \in Conditions, f \in W : step[<<c, f>>] = ValidStep(c, f)
  OBVIOUS
<1>2. \A c \in Conditions, f \in W : ValidStep(c, f) \in BOOLEAN
  BY DEF ValidStep
<1>3. step \in [Conditions \X W -> BOOLEAN]
  BY <1>2
<1>4. ASSUME NEW c \in Conditions, NEW f \in W, NEW g \in W,
             \A d \in Conditions : Depth[d] < Depth[c] => f[d] = g[d]
      PROVE  ValidStep(c, f) = ValidStep(c, g)
  <2>1. \A sub \in Nested(c) : f[sub] = g[sub]
    BY <1>4, NestedBelow
  <2>2. ToSet(c.all) \cup ToSet(c.any) \subseteq Nested(c)
    BY NestedBelow
  <2> QED
    BY <2>1, <2>2 DEF ValidStep
<1>5. LooksBelow(Conditions, BOOLEAN, Depth, step)
  <2> HIDE DEF step
  <2> QED
    BY <1>1, <1>4 DEF LooksBelow
<1>6. Depth \in [Conditions -> Nat] /\ BOOLEAN # {}
  BY ConditionsNest
<1> HIDE DEF step
<1>7. PICK f : IsRecursive(Conditions, BOOLEAN, step, f)
  BY <1>3, <1>5, <1>6, RecursionExists
<1> QED
  BY <1>1, <1>7 DEF IsRecursive

\* Condition.validate, one level of it.
LEMMA ValidUnfolds ==
  Valid = [c \in Conditions |-> ValidStep(c, Valid)]
<1>1. Valid = CHOOSE f : f = [c \in Conditions |-> ValidStep(c, f)]
  BY DEF Valid, ValidStep
<1>2. PICK f \in [Conditions -> BOOLEAN] : \A c \in Conditions : f[c] = ValidStep(c, f)
  BY ValidExists
<1>3. f = [c \in Conditions |-> ValidStep(c, f)]
  BY <1>2
<1> QED
  BY <1>1, <1>3, Zenon

TestsAbsenceStep(c, f) ==
  c.absent \/ c.not # <<>> \/ \E sub \in ToSet(c.all) \cup ToSet(c.any) : f[sub]

\* Looking for an absence test comes to an end.
LEMMA TestsAbsenceExists ==
  \E f \in [Conditions -> BOOLEAN] : \A c \in Conditions : f[c] = TestsAbsenceStep(c, f)
<1> DEFINE W == [Conditions -> BOOLEAN]
           step == [x \in Conditions \X W |-> TestsAbsenceStep(x[1], x[2])]
<1>1. \A c \in Conditions, f \in W : step[<<c, f>>] = TestsAbsenceStep(c, f)
  OBVIOUS
<1>2. \A c \in Conditions, f \in W : TestsAbsenceStep(c, f) \in BOOLEAN
  BY DEF TestsAbsenceStep
<1>3. step \in [Conditions \X W -> BOOLEAN]
  BY <1>2
<1>4. ASSUME NEW c \in Conditions, NEW f \in W, NEW g \in W,
             \A d \in Conditions : Depth[d] < Depth[c] => f[d] = g[d]
      PROVE  TestsAbsenceStep(c, f) = TestsAbsenceStep(c, g)
  <2>1. \A sub \in Nested(c) : f[sub] = g[sub]
    BY <1>4, NestedBelow
  <2>2. ToSet(c.all) \cup ToSet(c.any) \subseteq Nested(c)
    BY NestedBelow
  <2> QED
    BY <2>1, <2>2 DEF TestsAbsenceStep
<1>5. LooksBelow(Conditions, BOOLEAN, Depth, step)
  <2> HIDE DEF step
  <2> QED
    BY <1>1, <1>4 DEF LooksBelow
<1>6. Depth \in [Conditions -> Nat] /\ BOOLEAN # {}
  BY ConditionsNest
<1> HIDE DEF step
<1>7. PICK f : IsRecursive(Conditions, BOOLEAN, step, f)
  BY <1>3, <1>5, <1>6, RecursionExists
<1> QED
  BY <1>1, <1>7 DEF IsRecursive

\* conditionTestsAbsence, one level of it.
LEMMA TestsAbsenceUnfolds ==
  TestsAbsence = [c \in Conditions |-> TestsAbsenceStep(c, TestsAbsence)]
<1>1. TestsAbsence = CHOOSE f : f = [c \in Conditions |-> TestsAbsenceStep(c, f)]
  BY DEF TestsAbsence, TestsAbsenceStep
<1>2. PICK f \in [Conditions -> BOOLEAN] : \A c \in Conditions : f[c] = TestsAbsenceStep(c, f)
  BY TestsAbsenceExists
<1>3. f = [c \in Conditions |-> TestsAbsenceStep(c, f)]
  BY <1>2
<1> QED
  BY <1>1, <1>3, Zenon

Named == {c.signal : c \in Conditions}

TypesOfStep(c, f) ==
  ({c.signal} \ {""}) \cup UNION {f[sub] : sub \in Nested(c)}

\* Collecting the types of a condition comes to an end.
LEMMA TypesOfExists ==
  \E f \in [Conditions -> SUBSET Named] : \A c \in Conditions : f[c] = TypesOfStep(c, f)
<1> DEFINE W == [Conditions -> SUBSET Named]
           step == [x \in Conditions \X W |-> TypesOfStep(x[1], x[2])]
<1>1. \A c \in Conditions, f \in W : step[<<c, f>>] = TypesOfStep(c, f)
  OBVIOUS
<1>2. \A c \in Conditions, f \in W : TypesOfStep(c, f) \in SUBSET Named
  <2> SUFFICES ASSUME NEW c \in Conditions, NEW f \in W, NEW x \in TypesOfStep(c, f)
               PROVE  x \in Named
    OBVIOUS
  <2>1. CASE x \in {c.signal}
    BY <2>1 DEF Named
  <2>2. ASSUME NEW sub \in Nested(c), x \in f[sub] PROVE x \in Named
    <3>1. sub \in Conditions
      BY NestedBelow
    <3> QED
      BY <2>2, <3>1
  <2> QED
    BY <2>1, <2>2 DEF TypesOfStep
<1>3. step \in [Conditions \X W -> SUBSET Named]
  BY <1>2
<1>4. ASSUME NEW c \in Conditions, NEW f \in W, NEW g \in W,
             \A d \in Conditions : Depth[d] < Depth[c] => f[d] = g[d]
      PROVE  TypesOfStep(c, f) = TypesOfStep(c, g)
  <2>1. \A sub \in Nested(c) : f[sub] = g[sub]
    BY <1>4, NestedBelow
  <2>2. ToSet(c.all) \cup ToSet(c.any) \subseteq Nested(c)
    BY NestedBelow
  <2> QED
    BY <2>1, <2>2 DEF TypesOfStep
<1>5. LooksBelow(Conditions, SUBSET Named, Depth, step)
  <2> HIDE DEF step
  <2> QED
    BY <1>1, <1>4 DEF LooksBelow
<1>6. Depth \in [Conditions -> Nat] /\ SUBSET Named # {}
  BY ConditionsNest
<1> HIDE DEF step
<1>7. PICK f : IsRecursive(Conditions, SUBSET Named, step, f)
  BY <1>3, <1>5, <1>6, RecursionExists
<1> QED
  BY <1>1, <1>7 DEF IsRecursive

\* signalTypes, one level of it.
LEMMA TypesOfUnfolds ==
  TypesOf = [c \in Conditions |-> TypesOfStep(c, TypesOf)]
<1>1. TypesOf = CHOOSE f : f = [c \in Conditions |-> TypesOfStep(c, f)]
  BY DEF TypesOf, TypesOfStep
<1>2. PICK f \in [Conditions -> SUBSET Named] : \A c \in Conditions : f[c] = TypesOfStep(c, f)
  BY TypesOfExists
<1>3. f = [c \in Conditions |-> TypesOfStep(c, f)]
  BY <1>2
<1> QED
  BY <1>1, <1>3, Zenon

\* What holds of a condition once it holds of all that is nested in it holds of
\* every condition.
LEMMA ByNesting ==
  ASSUME NEW Good, \A c \in Conditions : Nested(c) \subseteq Good => c \in Good
  PROVE  Conditions \subseteq Good
<1> DEFINE Bad == Conditions \ Good
           depths == {Depth[c] : c \in Bad}
<1>1. ASSUME Bad # {} PROVE FALSE
  <2>1. depths \subseteq Nat /\ depths # {}
    BY <1>1, ConditionsNest
  <2>2. PICK n \in depths : \A m \in depths : n <= m
    <3> HIDE DEF depths
    <3> QED
      BY <2>1, MinIsMember
  <2>3. PICK c \in Bad : Depth[c] = n
    OBVIOUS
  <2>4. PICK sub \in Nested(c) : sub \notin Good
    OBVIOUS
  <2>5. sub \in Conditions /\ Depth[sub] < Depth[c] /\ Depth \in [Conditions -> Nat]
    BY NestedBelow
  <2>6. Depth[sub] \in depths
    BY <2>4, <2>5
  <2>7. Depth[c] <= Depth[sub] /\ Depth[c] \in Nat /\ Depth[sub] \in Nat
    BY <2>2, <2>3, <2>5, <2>6
  <2> QED
    BY <2>5, <2>7
<1> QED
  BY <1>1

\* A valid condition that holds could be checked: no rule pays without
\* counting.
LEMMA HoldsIfCheckable ==
  ASSUME NEW known, NEW c \in Conditions, Valid[c], Evaluate(c, known)
  PROVE  TestsAbsence[c] \/ \E t \in TypesOf[c] : Has(t, known)
<1> DEFINE Good == {d \in Conditions : Valid[d] /\ Evaluate(d, known) =>
                      TestsAbsence[d] \/ \E t \in TypesOf[d] : Has(t, known)}
<1>1. ASSUME NEW d \in Conditions, Nested(d) \subseteq Good, Valid[d], Evaluate(d, known),
             ~ TestsAbsence[d]
      PROVE  \E t \in TypesOf[d] : Has(t, known)
  <2>1. /\ ~d.absent /\ d.not = <<>>
        /\ \A sub \in ToSet(d.all) \cup ToSet(d.any) : ~ TestsAbsence[sub]
    BY <1>1, TestsAbsenceUnfolds DEF TestsAbsenceStep
  <2>2. /\ d.signal # "" \/ Nested(d) # {}
        /\ d.signal # "" => d.present \/ d.absent \/ d.tests # {}
        /\ \A sub \in Nested(d) : Valid[sub]
    BY <1>1, ValidUnfolds DEF ValidStep
  <2>3. TypesOf[d] = ({d.signal} \ {""}) \cup UNION {TypesOf[sub] : sub \in Nested(d)}
    BY TypesOfUnfolds DEF TypesOfStep
  <2>4. ASSUME NEW sub \in ToSet(d.all) \cup ToSet(d.any), Evaluate(sub, known)
        PROVE  \E t \in TypesOf[d] : Has(t, known)
    <3>1. sub \in Nested(d) /\ sub \in Good
      BY <1>1, NestedBelow
    <3>2. \E t \in TypesOf[sub] : Has(t, known)
      BY <2>1, <2>2, <2>4, <3>1
    <3> QED
      BY <2>3, <3>1, <3>2
  <2>5. d.all \in Seq(Conditions) /\ d.any \in Seq(Conditions)
    BY NestedBelow
  <2>6. CASE d.all # <<>>
    <3>1. \A sub \in ToSet(d.all) : Evaluate(sub, known)
      BY <1>1, <2>6, EvaluateUnfolds
    <3>2. d.all[1] \in ToSet(d.all)
      BY <2>5, <2>6 DEF ToSet
    <3> QED
      BY <2>4, <3>1, <3>2
  <2>7. CASE d.all = <<>> /\ d.any # <<>>
    <3>1. \E sub \in ToSet(d.any) : Evaluate(sub, known)
      BY <1>1, <2>7, EvaluateUnfolds
    <3> QED
      BY <2>4, <3>1
  <2>8. CASE d.all = <<>> /\ d.any = <<>>
    <3>1. Tested(d, known)
      BY <1>1, <2>1, <2>8, EvaluateUnfolds
    <3>2. Nested(d) = {}
      BY <2>1, <2>8 DEF Nested, ToSet
    <3>3. ValuesOf(d.signal, known) # {}
      BY <2>1, <3>1 DEF Tested
    <3> QED
      BY <2>2, <2>3, <3>2, <3>3 DEF Has
  <2> QED
    BY <2>6, <2>7, <2>8
<1>2. Conditions \subseteq Good
  <2>1. \A d \in Conditions : Nested(d) \subseteq Good => d \in Good
    BY <1>1
  <2> HIDE DEF Good
  <2> QED
    BY <2>1, ByNesting
<1> QED
  BY <1>2

\* A valid condition names a type.
LEMMA ValidNamesAType ==
  ASSUME NEW c \in Conditions, Valid[c]
  PROVE  TypesOf[c] # {}
<1> DEFINE Good == {d \in Conditions : Valid[d] => TypesOf[d] # {}}
<1>1. ASSUME NEW d \in Conditions, Nested(d) \subseteq Good, Valid[d]
      PROVE  TypesOf[d] # {}
  <2>1. /\ d.signal # "" \/ Nested(d) # {}
        /\ \A sub \in Nested(d) : Valid[sub]
    BY <1>1, ValidUnfolds DEF ValidStep
  <2>2. TypesOf[d] = ({d.signal} \ {""}) \cup UNION {TypesOf[sub] : sub \in Nested(d)}
    BY TypesOfUnfolds DEF TypesOfStep
  <2>3. CASE Nested(d) # {}
    <3>1. PICK sub \in Nested(d) : TypesOf[sub] # {}
      BY <1>1, <2>1, <2>3
    <3> QED
      BY <2>2, <3>1
  <2> QED
    BY <2>1, <2>2, <2>3
<1>2. Conditions \subseteq Good
  <2>1. \A d \in Conditions : Nested(d) \subseteq Good => d \in Good
    BY <1>1
  <2> HIDE DEF Good
  <2> QED
    BY <2>1, ByNesting
<1> QED
  BY <1>2

\* A percentage of a sum that is not nothing is a number.
LEMMA PercentType ==
  ASSUME NEW part \in Nat, NEW whole \in Nat, whole # 0
  PROVE  Percent(part, whole) \in Nat
BY DEF Percent

\* Of more points the percentage is no less.
LEMMA PercentGrows ==
  ASSUME NEW part \in Nat, NEW more \in Nat, part <= more, NEW whole \in Nat, whole # 0
  PROVE  Percent(part, whole) <= Percent(more, whole)
BY DEF Percent

\* The points of a weights file, rule by rule.
PointsOf(cfg) == [i \in DOMAIN cfg.rules |-> cfg.rules[i].points]

\* The rules of a weights file, as the sums need them.
LEMMA RulesAre ==
  ASSUME NEW cfg \in WeightsFile
  PROVE  /\ IsFiniteSet(DOMAIN cfg.rules)
         /\ \A i \in DOMAIN cfg.rules :
              /\ PointsOf(cfg)[i] = cfg.rules[i].points
              /\ cfg.rules[i].points \in Int
              /\ cfg.rules[i].when \in Conditions
              /\ Valid[cfg.rules[i].when]
         /\ Paying(cfg) \subseteq DOMAIN cfg.rules
         /\ \A i \in Paying(cfg) : cfg.rules[i].points > 0
<1>1. cfg.rules \in Seq(Rule)
  BY DEF WeightsFile
<1>2. Len(cfg.rules) \in Nat /\ DOMAIN cfg.rules = 1 .. Len(cfg.rules)
  BY <1>1
<1>3. IsFiniteSet(DOMAIN cfg.rules)
  BY <1>2, FS_Interval
<1>4. \A i \in DOMAIN cfg.rules : cfg.rules[i] \in Rule
  BY <1>1
<1> QED
  BY <1>3, <1>4 DEF Rule, Paying, PointsOf

\* Points are whole numbers, negative ones included.
LEMMA PointsType ==
  ASSUME NEW cfg \in WeightsFile, NEW rules \in SUBSET DOMAIN cfg.rules
  PROVE  Points(cfg, rules) \in Int
<1>1. IsFiniteSet(rules)
  BY RulesAre, FS_Subset
<1>2. \A i \in rules : PointsOf(cfg)[i] \in Int
  BY RulesAre
<1>3. SumFunctionOnSet(PointsOf(cfg), rules) \in Int
  BY <1>1, <1>2, SumType
<1> QED
  BY <1>3 DEF Points, PointsOf

\* More rules that pay and fewer that do not are no fewer points.
LEMMA PointsCompare ==
  ASSUME NEW cfg \in WeightsFile,
         NEW some \in SUBSET DOMAIN cfg.rules, NEW others \in SUBSET DOMAIN cfg.rules,
         \A i \in some \ others : cfg.rules[i].points <= 0,
         \A i \in others \ some : cfg.rules[i].points > 0
  PROVE  Points(cfg, some) <= Points(cfg, others)
<1> DEFINE f == PointsOf(cfg)
           S == DOMAIN cfg.rules
<1>1. /\ IsFiniteSet(S) /\ \A i \in S : f[i] \in Int /\ f[i] = cfg.rules[i].points
  BY RulesAre
<1>2. /\ \A i \in some \ others : f[i] <= 0
      /\ \A i \in others \ some : f[i] >= 0
  BY <1>1
<1>3. some \in SUBSET S /\ others \in SUBSET S
  OBVIOUS
<1>4. Points(cfg, some) = SumFunctionOnSet(f, some) /\ Points(cfg, others) = SumFunctionOnSet(f, others)
  BY DEF Points, PointsOf
<1> HIDE DEF f, S
<1>5. SumFunctionOnSet(f, some) <= SumFunctionOnSet(f, others)
  BY <1>1, <1>2, <1>3, SumCompares
<1> QED
  BY <1>4, <1>5

\* Some of the paying rules pay no more than all of them, and less if one is
\* missing.
LEMMA PointsBelowMax ==
  ASSUME NEW cfg \in WeightsFile, NEW rules \in SUBSET Paying(cfg)
  PROVE  /\ Points(cfg, rules) \in Nat /\ MaxPossible(cfg) \in Nat
         /\ Points(cfg, rules) <= MaxPossible(cfg)
         /\ rules # Paying(cfg) => Points(cfg, rules) < MaxPossible(cfg)
<1> DEFINE f == PointsOf(cfg)
           S == Paying(cfg)
<1>1. /\ S \subseteq DOMAIN cfg.rules /\ IsFiniteSet(S)
      /\ \A i \in S : f[i] \in Int /\ f[i] > 0 /\ cfg.rules[i].points > 0
  BY RulesAre, FS_Subset
<1>2. /\ Points(cfg, rules) = SumFunctionOnSet(f, rules)
      /\ MaxPossible(cfg) = SumFunctionOnSet(f, S)
      /\ Points(cfg, {}) = SumFunctionOnSet(f, {})
  BY DEF Points, PointsOf, MaxPossible
<1>3. Points(cfg, {}) = 0
  BY <1>2, SumEmpty
<1>4. Points(cfg, rules) \in Int /\ MaxPossible(cfg) \in Int
  BY <1>1, PointsType DEF MaxPossible
<1>5. Points(cfg, {}) <= Points(cfg, rules)
  <2>1. {} \in SUBSET DOMAIN cfg.rules /\ rules \in SUBSET DOMAIN cfg.rules
    BY <1>1
  <2>2. \A i \in {} \ rules : cfg.rules[i].points <= 0
    OBVIOUS
  <2>3. \A i \in rules \ {} : cfg.rules[i].points > 0
    BY <1>1
  <2> QED
    BY <2>1, <2>2, <2>3, PointsCompare
<1>6. Points(cfg, rules) <= MaxPossible(cfg)
  BY <1>1, PointsCompare DEF MaxPossible
<1>7. ASSUME rules # S PROVE Points(cfg, rules) < MaxPossible(cfg)
  <2>1. (\A i \in S : f[i] \in Int) /\ (\A i \in S \ rules : f[i] > 0) /\ rules \in SUBSET S
    BY <1>1
  <2>2. IsFiniteSet(S)
    BY <1>1
  <2> HIDE DEF f, S
  <2>3. SumFunctionOnSet(f, rules) < SumFunctionOnSet(f, S)
    BY <1>7, <2>1, <2>2, SumGrowsStrictly
  <2> QED
    BY <1>2, <2>3
<1> QED
  BY <1>3, <1>4, <1>5, <1>6, <1>7

\* Loading keeps a file valid, and somebody settles its manual check.
LEMMA LoadedIsAFile ==
  ASSUME NEW cfg \in WeightsFile
  PROVE  Loaded(cfg) \in WeightsFile /\ (Loaded(cfg).manual # "" => Loaded(cfg).clearedBy # {})
<1> DEFINE e == [cfg EXCEPT !.clearedBy = {"manual"}]
<1>1. /\ cfg = [rules |-> cfg.rules, bands |-> cfg.bands, manual |-> cfg.manual,
                clearedBy |-> cfg.clearedBy, minConfidence |-> cfg.minConfidence]
      /\ cfg.clearedBy \in SUBSET Trustable
  BY DEF WeightsFile
<1>2. e = [rules |-> cfg.rules, bands |-> cfg.bands, manual |-> cfg.manual,
           clearedBy |-> {"manual"}, minConfidence |-> cfg.minConfidence]
  BY <1>1
<1>3. {"manual"} \in SUBSET Trustable
  BY ManualIsTrustable
<1>4. e \in WeightsFile
  BY <1>2, <1>3 DEF WeightsFile
<1>5. e.clearedBy # {} /\ Loaded(cfg) \in {e, cfg}
  BY <1>2 DEF Loaded
<1>6. Loaded(cfg) = e \/ (Loaded(cfg) = cfg /\ (cfg.manual # "" => cfg.clearedBy # {}))
  BY DEF Loaded
<1> QED
  BY <1>4, <1>5, <1>6

\* The rules a confidence counts, and the rules a score counts.
Checked(cfg, known) == {i \in Paying(cfg) : Checkable(cfg, i, known)}
Matched(cfg, known) == {i \in DOMAIN cfg.rules : Evaluate(cfg.rules[i].when, known)}

\* The rules that hold give no more points than those that could be checked.
LEMMA MatchedIsChecked ==
  ASSUME NEW cfg \in WeightsFile, NEW known
  PROVE  Points(cfg, Matched(cfg, known)) <= Points(cfg, Checked(cfg, known))
<1>1. ASSUME NEW i \in Matched(cfg, known) \ Checked(cfg, known) PROVE cfg.rules[i].points <= 0
  <2>1. /\ i \in DOMAIN cfg.rules /\ cfg.rules[i].points \in Int
        /\ cfg.rules[i].when \in Conditions /\ Valid[cfg.rules[i].when]
        /\ Evaluate(cfg.rules[i].when, known)
    BY RulesAre DEF Matched
  <2>2. Checkable(cfg, i, known)
    BY <2>1, HoldsIfCheckable DEF Checkable
  <2> QED
    BY <2>1, <2>2 DEF Checked, Paying
<1>2. \A i \in Checked(cfg, known) \ Matched(cfg, known) : cfg.rules[i].points > 0
  BY RulesAre DEF Checked
<1>3. /\ Matched(cfg, known) \in SUBSET DOMAIN cfg.rules
      /\ Checked(cfg, known) \in SUBSET DOMAIN cfg.rules
  BY RulesAre DEF Matched, Checked
<1> QED
  BY <1>1, <1>2, <1>3, PointsCompare

\* What is missing is named exactly when something is missing.
LEMMA MissingIsNamed ==
  ASSUME NEW cfg \in WeightsFile, NEW known
  PROVE  Points(cfg, Checked(cfg, known)) < MaxPossible(cfg) <=> Unchecked(cfg, known) # {}
<1> DEFINE missing == {j \in Paying(cfg) : ~Checkable(cfg, j, known)}
<1>1. Checked(cfg, known) \in SUBSET Paying(cfg)
  BY DEF Checked
<1>2. Points(cfg, Checked(cfg, known)) < MaxPossible(cfg) <=> missing # {}
  <2>1. Points(cfg, Checked(cfg, known)) \in Nat /\ MaxPossible(cfg) \in Nat
        /\ (Checked(cfg, known) # Paying(cfg) =>
              Points(cfg, Checked(cfg, known)) < MaxPossible(cfg))
    BY <1>1, PointsBelowMax
  <2>2. missing # {} <=> Checked(cfg, known) # Paying(cfg)
    BY DEF Checked
  <2> QED
    BY <2>1, <2>2 DEF MaxPossible
<1>3. ASSUME NEW i \in missing
      PROVE  {t \in TypesOf[cfg.rules[i].when] : ~Has(t, known)} # {}
  <2>1. i \in DOMAIN cfg.rules /\ TypesOf[cfg.rules[i].when] # {}
    BY RulesAre, ValidNamesAType
  <2> QED
    BY <2>1 DEF Checkable
<1>4. Unchecked(cfg, known) = UNION {{t \in TypesOf[cfg.rules[i].when] : ~Has(t, known)} : i \in missing}
  BY DEF Unchecked
<1> HIDE DEF missing
<1> QED
  BY <1>2, <1>3, <1>4

\* What the engine returns for any valid file, signals and review count.
LEMMA ScoreIsHonest ==
  ASSUME NEW cfg \in WeightsFile, NEW observed, NEW count
  PROVE  LET max == MaxPossible(cfg)
             result == Score(cfg, observed, count)
         IN  /\ result.score \in 0..100
             /\ result.checkable \in 0..max
             /\ IF max = 0 THEN result.score = 0 ELSE result.score <= Percent(result.checkable, max)
             /\ result.checkable < max <=> result.unchecked # {}
<1> DEFINE max == MaxPossible(cfg)
           result == Score(cfg, observed, count)
           known == WithBand(cfg, observed, count)
           raw == Points(cfg, Matched(cfg, known))
           paid == Points(cfg, Checked(cfg, known))
<1>1. /\ result.score = Normalized(raw, max)
      /\ result.checkable = paid
      /\ result.unchecked = Unchecked(cfg, known)
  BY DEF Score, Matched, Checked
<1>2. raw \in Int /\ paid \in Nat /\ max \in Nat /\ paid <= max /\ raw <= paid
  <2>1. Matched(cfg, known) \in SUBSET DOMAIN cfg.rules /\ Checked(cfg, known) \in SUBSET Paying(cfg)
    BY DEF Matched, Checked
  <2> HIDE DEF known
  <2> QED
    BY <2>1, PointsType, PointsBelowMax, MatchedIsChecked
<1>3. paid < max <=> Unchecked(cfg, known) # {}
  <2> HIDE DEF known
  <2> QED
    BY MissingIsNamed
<1> HIDE DEF max, result, known, raw, paid
<1>4. CASE max = 0 \/ raw < 0
  <2>1. result.score = 0
    BY <1>1, <1>4 DEF Normalized
  <2>2. max # 0 => Percent(paid, max) \in Nat
    BY <1>2, PercentType
  <2>3. max # 0 => 0 <= Percent(paid, max)
    BY <2>2
  <2> QED
    BY <1>1, <1>2, <1>3, <2>1, <2>3 DEF max, result
<1>5. CASE ~ (max = 0 \/ raw < 0)
  <2>1. /\ raw \in Nat /\ max # 0
        /\ result.score = Min({Percent(raw, max), 100})
    BY <1>1, <1>2, <1>5 DEF Normalized
  <2>2. Percent(raw, max) \in Nat /\ Percent(paid, max) \in Nat
        /\ Percent(raw, max) <= Percent(paid, max)
    BY <1>2, <2>1, PercentType, PercentGrows
  <2>3. /\ {Percent(raw, max), 100} \subseteq Nat /\ {Percent(raw, max), 100} # {}
    BY <2>2
  <2>4. /\ Min({Percent(raw, max), 100}) \in {Percent(raw, max), 100}
        /\ \A y \in {Percent(raw, max), 100} : Min({Percent(raw, max), 100}) <= y
    BY <2>3, MinIsMember
  <2>5. result.score \in Nat /\ result.score <= 100 /\ result.score <= Percent(raw, max)
    BY <2>1, <2>2, <2>4
  <2>6. result.score \in 0..100 /\ result.score <= Percent(paid, max)
    BY <2>2, <2>5
  <2> QED
    BY <1>1, <1>2, <1>3, <2>1, <2>6 DEF max, result
<1> QED
  BY <1>4, <1>5

(***************************************************************************)
(* The signals table.  A row is current exactly when it is the last of its *)
(* fact, or its fact holds several values, so the current rows are what    *)
(* the history says.                                                       *)
(***************************************************************************)

LastIsCurrent ==
  \A k \in DOMAIN signals :
    signals[k].superseded <=>
      /\ signals[k].fact \notin MultiFact
      /\ \E l \in DOMAIN signals : k < l /\ signals[l].fact = signals[k].fact

\* Superseding the rows of a fact before appending to it leaves the last one
\* current.
LEMMA LastStaysCurrent ==
  ASSUME SignalsTypeOK, LastIsCurrent, NEW o \in Observation, AppendSignal(o)
  PROVE  LastIsCurrent'
<1> DEFINE last == Len(signals) + 1
<1>1. /\ DOMAIN signals = 1..Len(signals) /\ Len(signals) \in Nat
      /\ DOMAIN signals' = 1..last
      /\ signals'[last] = [fact |-> o.fact, value |-> o.value, superseded |-> FALSE]
  BY AppendedRows DEF SignalsTypeOK
<1>2. /\ DOMAIN signals' = DOMAIN signals \cup {last}
      /\ \A k \in DOMAIN signals : k < last
      /\ \A k \in DOMAIN signals' : ~ (last < k)
      /\ signals'[last].fact = o.fact /\ ~signals'[last].superseded
  BY <1>1
<1> HIDE DEF last
<1>3. ASSUME NEW k \in DOMAIN signals
      PROVE  /\ signals'[k].fact = signals[k].fact
             /\ signals'[k].superseded <=>
                  signals[k].superseded \/ (signals[k].fact = o.fact /\ o.fact \notin MultiFact)
  <2>1. /\ signals'[k].fact = signals[k].fact
        /\ signals'[k].superseded =
             (signals[k].superseded \/ (k \in Current(o.fact) /\ o.fact \notin MultiFact))
    BY KeptRows
  <2> QED
    BY <2>1 DEF Current
<1>4. ASSUME NEW k \in DOMAIN signals
      PROVE  (\E l \in DOMAIN signals' : k < l /\ signals'[l].fact = signals'[k].fact) <=>
               \/ \E l \in DOMAIN signals : k < l /\ signals[l].fact = signals[k].fact
               \/ signals[k].fact = o.fact
  BY <1>2, <1>3
<1>5. ASSUME NEW k \in DOMAIN signals
      PROVE  signals'[k].superseded <=>
               /\ signals'[k].fact \notin MultiFact
               /\ \E l \in DOMAIN signals' : k < l /\ signals'[l].fact = signals'[k].fact
  BY <1>3, <1>4 DEF LastIsCurrent
<1>6. signals'[last].superseded <=>
        /\ signals'[last].fact \notin MultiFact
        /\ \E l \in DOMAIN signals' : last < l /\ signals'[l].fact = signals'[last].fact
  BY <1>2
<1> QED
  BY <1>2, <1>5, <1>6 DEF LastIsCurrent

\* What a row tells the engine.
Told(k) ==
  [source |-> signals[k].fact.source, type |-> signals[k].fact.type, value |-> signals[k].value]

\* Of the first n rows, the one at k is not yet replaced.
Standing(k, n) ==
  signals[k].fact \in MultiFact \/ \A l \in 1..n : signals[l].fact = signals[k].fact => l <= k

\* A fact that has a row has a last one.
LEMMA LastOfFact ==
  ASSUME NEW n \in Nat, NEW f, NEW k \in 1..n, signals[k].fact = f
  PROVE  LET rows == {l \in 1..n : signals[l].fact = f}
         IN  /\ Max(rows) \in 1..n /\ signals[Max(rows)].fact = f
             /\ \A l \in 1..n : signals[l].fact = f => l <= Max(rows)
<1> DEFINE rows == {l \in 1..n : signals[l].fact = f}
<1>1. rows \subseteq 0..n /\ rows # {}
  OBVIOUS
<1>2. Max(rows) \in rows /\ \A l \in rows : l <= Max(rows)
  <2> HIDE DEF rows
  <2> QED
    BY <1>1, MaxIsGreatest
<1> QED
  BY <1>2

\* The history of a business is what the rows say that nothing superseded by
\* then.
LEMMA HistoryRows ==
  ASSUME NEW b, NEW n \in Nat
  PROVE  History(b, n) =
           {Told(k) : k \in {j \in 1..n : signals[j].fact.business = b /\ Standing(j, n)}}
<1> DEFINE about(f) == {k \in 1..n : signals[k].fact = f}
           values(f) == IF f \in MultiFact THEN {signals[k].value : k \in about(f)}
                                           ELSE {signals[Max(about(f))].value}
           facts == {f \in {signals[k].fact : k \in 1..n} : f.business = b}
           told(f) == {[source |-> f.source, type |-> f.type, value |-> v] : v \in values(f)}
<1>1. History(b, n) = UNION {told(f) : f \in facts}
  BY DEF History
<1>2. ASSUME NEW k \in 1..n, signals[k].fact.business = b, Standing(k, n)
      PROVE  \E f \in facts : Told(k) \in told(f)
  <2> DEFINE f == signals[k].fact
  <2>1. f \in facts
    BY <1>2
  <2>2. signals[k].value \in values(f)
    <3>1. CASE f \in MultiFact
      BY <3>1
    <3>2. CASE f \notin MultiFact
      <4>1. /\ Max(about(f)) \in 1..n /\ signals[Max(about(f))].fact = f
            /\ \A l \in 1..n : signals[l].fact = f => l <= Max(about(f))
        BY LastOfFact
      <4>2. k <= Max(about(f)) /\ Max(about(f)) <= k
        BY <1>2, <3>2, <4>1 DEF Standing
      <4>3. Max(about(f)) = k
        BY <4>1, <4>2
      <4> QED
        BY <3>2, <4>3
    <3> QED
      BY <3>1, <3>2
  <2> QED
    BY <2>1, <2>2 DEF Told
<1>3. ASSUME NEW f \in facts, NEW x \in told(f)
      PROVE  \E k \in 1..n : signals[k].fact.business = b /\ Standing(k, n) /\ x = Told(k)
  <2>1. PICK v \in values(f) : x = [source |-> f.source, type |-> f.type, value |-> v]
    OBVIOUS
  <2>2. PICK j \in 1..n : signals[j].fact = f
    OBVIOUS
  <2>3. f.business = b
    OBVIOUS
  <2>4. CASE f \in MultiFact
    BY <2>1, <2>3, <2>4 DEF Standing, Told
  <2>5. CASE f \notin MultiFact
    <3>1. /\ Max(about(f)) \in 1..n /\ signals[Max(about(f))].fact = f
          /\ \A l \in 1..n : signals[l].fact = f => l <= Max(about(f))
      BY <2>2, LastOfFact
    <3>2. v = signals[Max(about(f))].value
      BY <2>1, <2>5
    <3> QED
      BY <2>1, <2>3, <3>1, <3>2 DEF Standing, Told
  <2> QED
    BY <2>4, <2>5
<1> HIDE DEF facts, told
<1> QED
  BY <1>1, <1>2, <1>3

\* What is read of a business now is what its history says.
LEMMA CurrentIsHistory ==
  ASSUME SignalsTypeOK, LastIsCurrent, NEW b
  PROVE  CurrentSignals(b) = History(b, Len(signals))
<1>1. DOMAIN signals = 1..Len(signals) /\ Len(signals) \in Nat
  BY DEF SignalsTypeOK
<1>2. ASSUME NEW k \in DOMAIN signals PROVE ~signals[k].superseded <=> Standing(k, Len(signals))
  <2>1. \A l \in DOMAIN signals : ~ (k < l) <=> l <= k
    BY <1>1
  <2> QED
    BY <1>1, <2>1 DEF LastIsCurrent, Standing
<1>3. History(b, Len(signals)) =
        {Told(k) : k \in {j \in 1..Len(signals) : signals[j].fact.business = b
                                                  /\ Standing(j, Len(signals))}}
  BY <1>1, HistoryRows
<1> QED
  BY <1>1, <1>2, <1>3 DEF CurrentSignals, Told

\* What the table said when it had n rows it says for good.
LEMMA HistoryStays ==
  ASSUME SignalsTypeOK, NEW o \in Observation, RecordSignal(o), NEW b, NEW n \in 0..Len(signals)
  PROVE  History(b, n)' = History(b, n)
<1>1. CASE UNCHANGED signals
  BY <1>1 DEF History
<1>2. CASE AppendSignal(o)
  <2>1. 1..n \subseteq DOMAIN signals
    BY DEF SignalsTypeOK
  <2>2. \A k \in 1..n : signals'[k].fact = signals[k].fact /\ signals'[k].value = signals[k].value
    BY <1>2, <2>1, KeptRows
  <2> DEFINE about(f) == {k \in 1..n : signals[k].fact = f}
             aboutN(f) == {k \in 1..n : signals'[k].fact = f}
             facts == {signals[k].fact : k \in 1..n}
             factsN == {signals'[k].fact : k \in 1..n}
             values(f) == IF f \in MultiFact THEN {signals[k].value : k \in about(f)}
                                             ELSE {signals[Max(about(f))].value}
             valuesN(f) == IF f \in MultiFact THEN {signals'[k].value : k \in aboutN(f)}
                                              ELSE {signals'[Max(aboutN(f))].value}
  <2>3. factsN = facts /\ \A f : aboutN(f) = about(f)
    BY <2>2
  <2>4. ASSUME NEW f \in facts PROVE valuesN(f) = values(f)
    <3>1. PICK j \in 1..n : signals[j].fact = f
      OBVIOUS
    <3>2. Max(about(f)) \in 1..n
      BY <3>1, LastOfFact
    <3>3. {signals'[k].value : k \in about(f)} = {signals[k].value : k \in about(f)}
      BY <2>2
    <3> QED
      BY <2>2, <2>3, <3>2, <3>3
  <2>5. History(b, n) = UNION {{[source |-> f.source, type |-> f.type, value |-> v] : v \in values(f)} :
                                  f \in {g \in facts : g.business = b}}
    BY DEF History
  <2>6. History(b, n)' = UNION {{[source |-> f.source, type |-> f.type, value |-> v] : v \in valuesN(f)} :
                                  f \in {g \in factsN : g.business = b}}
    BY DEF History
  <2> HIDE DEF values, valuesN, facts, factsN
  <2> QED
    BY <2>3, <2>4, <2>5, <2>6
<1> QED
  BY <1>1, <1>2 DEF RecordSignal, ConfirmSignal

\* What was ever on record of a type is still known of it.
LEMMA HistoryKnows ==
  ASSUME NEW b, NEW n \in Nat, NEW t
  PROVE  Has(t, History(b, n)) <=>
           \E k \in 1..n : signals[k].fact.business = b /\ signals[k].fact.type = t
<1> DEFINE rows == {j \in 1..n : signals[j].fact.business = b /\ Standing(j, n)}
<1>1. History(b, n) = {Told(k) : k \in rows}
  BY HistoryRows
<1>2. \A k : Told(k).type = signals[k].fact.type
  BY DEF Told
<1>3. Has(t, History(b, n)) <=> \E k \in rows : signals[k].fact.type = t
  BY <1>1, <1>2 DEF Has, ValuesOf
<1>4. ASSUME NEW k \in 1..n, signals[k].fact.business = b, signals[k].fact.type = t
      PROVE  \E j \in rows : signals[j].fact.type = t
  <2> DEFINE j == Max({l \in 1..n : signals[l].fact = signals[k].fact})
  <2>1. /\ j \in 1..n /\ signals[j].fact = signals[k].fact
        /\ \A l \in 1..n : signals[l].fact = signals[k].fact => l <= j
    BY LastOfFact
  <2> HIDE DEF j
  <2> QED
    BY <1>4, <2>1 DEF Standing
<1> QED
  BY <1>3, <1>4

(***************************************************************************)
(* A visit.                                                                *)
(***************************************************************************)

\* What is in one sequence after another is in one of them.
LEMMA RangeOfConcat ==
  ASSUME NEW S, NEW s \in Seq(S), NEW t \in Seq(S)
  PROVE  /\ s \o t \in Seq(S) /\ Len(s \o t) = Len(s) + Len(t)
         /\ ToSet(s \o t) = ToSet(s) \cup ToSet(t)
<1>1. /\ s \o t \in Seq(S) /\ Len(s \o t) = Len(s) + Len(t)
      /\ \A i \in 1 .. Len(s) + Len(t) :
           (s \o t)[i] = IF i <= Len(s) THEN s[i] ELSE t[i - Len(s)]
  BY ConcatProperties
<1>2. Len(s) \in Nat /\ Len(t) \in Nat
  OBVIOUS
<1>3. ASSUME NEW i \in DOMAIN (s \o t) PROVE (s \o t)[i] \in ToSet(s) \cup ToSet(t)
  <2>1. i \in 1 .. Len(s) + Len(t)
    BY <1>1
  <2>2. CASE i <= Len(s)
    BY <1>1, <1>2, <2>1, <2>2 DEF ToSet
  <2>3. CASE ~ (i <= Len(s))
    <3>1. i - Len(s) \in 1 .. Len(t)
      BY <1>2, <2>1, <2>3
    <3> QED
      BY <1>1, <2>1, <2>3, <3>1 DEF ToSet
  <2> QED
    BY <2>2, <2>3
<1>4. ASSUME NEW i \in 1..Len(s) PROVE s[i] \in ToSet(s \o t)
  <2>1. i \in 1 .. Len(s) + Len(t) /\ i <= Len(s)
    BY <1>2
  <2> QED
    BY <1>1, <2>1 DEF ToSet
<1>5. ASSUME NEW i \in 1..Len(t) PROVE t[i] \in ToSet(s \o t)
  <2>1. Len(s) + i \in 1 .. Len(s) + Len(t) /\ ~ (Len(s) + i <= Len(s)) /\ Len(s) + i - Len(s) = i
    BY <1>2
  <2> QED
    BY <1>1, <2>1 DEF ToSet
<1>6. ToSet(s \o t) \subseteq ToSet(s) \cup ToSet(t)
  BY <1>3 DEF ToSet
<1>7. ToSet(s) \subseteq ToSet(s \o t) /\ ToSet(t) \subseteq ToSet(s \o t)
  <2>1. /\ \A x \in ToSet(s) : \E i \in 1..Len(s) : x = s[i]
        /\ \A x \in ToSet(t) : \E i \in 1..Len(t) : x = t[i]
    BY DEF ToSet
  <2> QED
    BY <1>4, <1>5, <2>1
<1> QED
  BY <1>1, <1>6, <1>7

\* What is in a sequence with one more element.
LEMMA RangeOfAppend ==
  ASSUME NEW S, NEW s \in Seq(S), NEW x \in S
  PROVE  /\ Append(s, x) \in Seq(S) /\ Len(Append(s, x)) = Len(s) + 1
         /\ ToSet(Append(s, x)) = ToSet(s) \cup {x}
         /\ \A i \in 1..Len(s) : Append(s, x)[i] = s[i]
         /\ Append(s, x)[Len(s) + 1] = x
<1>1. /\ Append(s, x) \in Seq(S) /\ Len(Append(s, x)) = Len(s) + 1 /\ Len(s) \in Nat
      /\ \A i \in 1..Len(s) : Append(s, x)[i] = s[i]
      /\ Append(s, x)[Len(s) + 1] = x
  BY AppendProperties
<1>2. DOMAIN Append(s, x) = 1 .. Len(s) + 1 /\ DOMAIN s = 1..Len(s)
  BY <1>1
<1>3. 1 .. Len(s) + 1 = 1..Len(s) \cup {Len(s) + 1}
  BY <1>1
<1> QED
  BY <1>1, <1>2, <1>3 DEF ToSet

\* A fold of Once over the links, as FoldLeft makes it: from the last link back.
FoldsOnce(links, g) ==
  g = [s \in SUBSET DOMAIN links |->
         IF s = {} THEN <<>> ELSE Once(g[s \ {Max(s)}], links[Max(s)])]

\* Distinct, as the fold of the library unfolds to it.
LEMMA DistinctUnfolds ==
  ASSUME NEW links
  PROVE  Distinct(links) = (CHOOSE g : FoldsOnce(links, g))[DOMAIN links]
BY DEF Distinct, FoldLeft, MapThenFoldSet, FoldsOnce

\* A candidate more or not, the candidates are pages.
LEMMA OnceType ==
  ASSUME NEW urls \in Seq(URLs), NEW link \in Link
  PROVE  Once(urls, link) \in Seq(URLs)
BY RangeOfAppend DEF Once, Link

\* Going through the links comes to an end.
LEMMA FoldOnceExists ==
  ASSUME NEW links \in Seq(Link)
  PROVE  \E g \in [SUBSET DOMAIN links -> Seq(URLs)] : FoldsOnce(links, g)
<1> DEFINE D == SUBSET DOMAIN links
           V == Seq(URLs)
           rank == [s \in D |-> Cardinality(s)]
           body(s, g) == IF s = {} THEN <<>> ELSE Once(g[s \ {Max(s)}], links[Max(s)])
           step == [x \in D \X [D -> V] |-> body(x[1], x[2])]
<1>1. DOMAIN links = 1..Len(links) /\ Len(links) \in Nat /\ IsFiniteSet(DOMAIN links)
  BY FS_Interval
<1>2. ASSUME NEW s \in D, s # {}
      PROVE  /\ Max(s) \in s /\ s \ {Max(s)} \in D /\ links[Max(s)] \in Link
             /\ Cardinality(s) \in Nat /\ Cardinality(s \ {Max(s)}) \in Nat
             /\ Cardinality(s \ {Max(s)}) < Cardinality(s)
  <2>1. s \subseteq 0 .. Len(links)
    BY <1>1
  <2>2. Max(s) \in s
    BY <1>1, <1>2, <2>1, MaxIsGreatest
  <2>3. IsFiniteSet(s)
    BY <1>1, FS_Subset
  <2>4. /\ Cardinality(s) \in Nat /\ Cardinality(s \ {Max(s)}) = Cardinality(s) - 1
        /\ IsFiniteSet(s \ {Max(s)})
    BY <2>2, <2>3, FS_RemoveElement, FS_CardinalityType
  <2>5. Cardinality(s \ {Max(s)}) \in Nat
    BY <2>4, FS_CardinalityType
  <2>6. links[Max(s)] \in Link
    BY <1>1, <2>2
  <2> QED
    BY <2>2, <2>4, <2>5, <2>6
<1>3. rank \in [D -> Nat]
  <2>1. ASSUME NEW s \in D PROVE Cardinality(s) \in Nat
    BY <1>1, FS_Subset, FS_CardinalityType
  <2> QED
    BY <2>1
<1>4. ASSUME NEW s \in D, NEW g \in [D -> V] PROVE body(s, g) \in V
  <2>1. CASE s = {}
    BY <2>1
  <2>2. CASE s # {}
    <3>1. g[s \ {Max(s)}] \in Seq(URLs) /\ links[Max(s)] \in Link
      BY <1>2, <2>2
    <3> QED
      BY <2>2, <3>1, OnceType
  <2> QED
    BY <2>1, <2>2
<1>5. step \in [D \X [D -> V] -> V] /\ \A s \in D, g \in [D -> V] : step[<<s, g>>] = body(s, g)
  <2> HIDE DEF V, D, body
  <2> QED
    BY <1>4
<1>6. ASSUME NEW s \in D, NEW f \in [D -> V], NEW g \in [D -> V],
             \A d \in D : rank[d] < rank[s] => f[d] = g[d]
      PROVE  body(s, f) = body(s, g)
  <2>1. CASE s = {}
    BY <2>1
  <2>2. CASE s # {}
    <3>1. f[s \ {Max(s)}] = g[s \ {Max(s)}]
      BY <1>2, <1>6, <2>2
    <3> QED
      BY <3>1
  <2> QED
    BY <2>1, <2>2
<1>7. LooksBelow(D, V, rank, step)
  <2> HIDE DEF step, D, V, rank, body
  <2> QED
    BY <1>5, <1>6 DEF LooksBelow
<1>8. V # {}
  <2>1. <<>> \in V
    OBVIOUS
  <2> QED
    BY <2>1
<1> HIDE DEF step, rank, D, V, body
<1>9. PICK g : IsRecursive(D, V, step, g)
  BY <1>3, <1>5, <1>7, <1>8, RecursionExists
<1>10. g \in [D -> V] /\ g = [s \in D |-> body(s, g)]
  BY <1>5, <1>9 DEF IsRecursive
<1> QED
  BY <1>10 DEF FoldsOnce, D, V, body

\* What Distinct leaves: pages of the site that are not the homepage, none twice,
\* each linked from where it was taken.
NoneTwice(urls, links) ==
  /\ urls \in Seq(URLs)
  /\ IsInjective(urls)
  /\ Home \notin ToSet(urls)
  /\ \A url \in ToSet(urls) : \E l \in ToSet(links) : l.own /\ l.url = url

\* One more link keeps the candidates distinct, of the site and not the
\* homepage.
LEMMA OnceMore ==
  ASSUME NEW links \in Seq(Link), NEW urls, NoneTwice(urls, links), NEW link \in ToSet(links)
  PROVE  NoneTwice(Once(urls, link), links)
<1>1. link \in Link
  BY DEF ToSet
<1>2. CASE ~ (link.contactish /\ link.own /\ link.url \notin ToSet(urls) \cup {Home})
  BY <1>2 DEF Once
<1>3. CASE link.contactish /\ link.own /\ link.url \notin ToSet(urls) \cup {Home}
  <2> DEFINE more == Append(urls, link.url)
             n == Len(urls)
  <2>1. Once(urls, link) = more /\ urls \in Seq(URLs) /\ link.url \in URLs
    BY <1>1, <1>3 DEF Once, NoneTwice, Link
  <2>2. /\ more \in Seq(URLs) /\ Len(more) = n + 1 /\ n \in Nat
        /\ ToSet(more) = ToSet(urls) \cup {link.url}
        /\ \A i \in 1..n : more[i] = urls[i]
        /\ more[n + 1] = link.url
    BY <2>1, RangeOfAppend
  <2>3. \A i \in 1..n : urls[i] \in ToSet(urls) /\ urls[i] # link.url
    BY <1>3, <2>1 DEF ToSet
  <2>4. DOMAIN urls = 1..n /\ DOMAIN more = 1 .. n + 1 /\ 1 .. n + 1 = 1..n \cup {n + 1}
    BY <2>1, <2>2
  <2> HIDE DEF more, n
  <2>5. \A i, j \in 1..n : urls[i] = urls[j] => i = j
    BY <2>4 DEF NoneTwice, IsInjective
  <2>6. IsInjective(more)
    BY <2>2, <2>3, <2>4, <2>5 DEF IsInjective
  <2> QED
    BY <1>3, <2>1, <2>2, <2>6 DEF NoneTwice
<1> QED
  BY <1>2, <1>3

\* And so does going through all of them.
LEMMA DistinctIsNoneTwice ==
  ASSUME NEW links \in Seq(Link)
  PROVE  NoneTwice(Distinct(links), links)
<1> DEFINE g == CHOOSE g : FoldsOnce(links, g)
           n == Len(links)
           S == DOMAIN links
           Bad == {s \in SUBSET S : ~ NoneTwice(g[s], links)}
<1>1. FoldsOnce(links, g)
  BY FoldOnceExists, Zenon
<1>2. Distinct(links) = g[S]
  BY DistinctUnfolds
<1>3. n \in Nat /\ S = 1..n /\ IsFiniteSet(S)
  BY FS_Interval
<1> HIDE DEF g
<1>4. g[{}] = <<>> /\ \A s \in SUBSET S : s # {} => g[s] = Once(g[s \ {Max(s)}], links[Max(s)])
  BY <1>1 DEF FoldsOnce
<1>5. NoneTwice(<<>>, links)
  BY DEF NoneTwice, IsInjective, ToSet
<1>6. ASSUME Bad # {} PROVE FALSE
  <2>1. PICK s \in Bad : \A t \in Bad : t \subseteq s => t = s
    <3>1. Bad \in SUBSET SUBSET S
      OBVIOUS
    <3>2. IsFiniteSet(S)
      BY <1>3
    <3> HIDE DEF Bad, S
    <3> QED
      BY <1>6, <3>1, <3>2, SmallestSubset
  <2>2. s \in SUBSET S /\ s # {}
    BY <1>4, <1>5
  <2>3. Max(s) \in s
    <3>1. s \subseteq 0..n
      BY <1>3, <2>2
    <3> QED
      BY <1>3, <2>2, <3>1, MaxIsGreatest
  <2>4. NoneTwice(g[s \ {Max(s)}], links)
    BY <2>1, <2>2, <2>3
  <2>5. links[Max(s)] \in ToSet(links)
    BY <2>2, <2>3 DEF ToSet
  <2> QED
    BY <1>4, <2>2, <2>4, <2>5, OnceMore
<1>7. S \in SUBSET S
  OBVIOUS
<1> QED
  BY <1>2, <1>6, <1>7

\* The pages a visit may ask for after the homepage.
LEMMA CandidatesAre ==
  ASSUME NEW links \in Seq(Link)
  PROVE  /\ Candidates(links) \in Seq(URLs)
         /\ IsInjective(Candidates(links))
         /\ Home \notin ToSet(Candidates(links))
         /\ \A url \in ToSet(Candidates(links)) :
              \E l \in ToSet(links) \cup ToSet(Fallback) : l.own /\ l.url = url
<1>1. Fallback \in Seq(Link)
  BY PagesAreReadable
<1>2. NoneTwice(Distinct(links), links) /\ NoneTwice(Distinct(Fallback), Fallback)
  BY <1>1, DistinctIsNoneTwice
<1>3. Candidates(links) = Distinct(links) \/ Candidates(links) = Distinct(Fallback)
  BY DEF Candidates
<1> QED
  BY <1>2, <1>3 DEF NoneTwice

\* What a signal the website reports is.
Statement == [source : {"website"}, type : Types, value : Values]

\* One statement per value, and no other.
LEMMA EachSays ==
  ASSUME NEW type \in Types, NEW held \in SUBSET Values, IsFiniteSet(held)
  PROVE  /\ Each(type, held) \in Seq(Statement)
         /\ ToSet(Each(type, held)) = {Says(type, v) : v \in held}
<1> DEFINE n == Cardinality(held)
           f == SetToSeq(held)
<1>1. n \in Nat /\ IsFiniteSet(1..n) /\ Cardinality(1..n) = n
  BY FS_CardinalityType, FS_Interval
<1>2. ExistsBijection(1..n, held)
  BY FS_CardinalityType
<1>3. \E g : g \in [1..n -> held] /\ IsInjective(g)
  <2>1. PICK g : g \in Bijection(1..n, held)
    BY <1>2 DEF ExistsBijection
  <2> QED
    BY <2>1 DEF Bijection, Injection
<1>4. f = CHOOSE g \in [1..n -> held] : IsInjective(g)
  BY DEF SetToSeq
<1>5. f \in [1..n -> held] /\ IsInjective(f)
  BY <1>3, <1>4, Zenon
<1>6. f \in Injection(1..n, held)
  BY <1>5 DEF Injection
<1>7. f \in Surjection(1..n, held)
  BY <1>1, <1>6, FS_Injection
<1>8. \A v \in held : \E k \in 1..n : f[k] = v
  BY <1>7 DEF Surjection
<1> HIDE DEF f, n
<1>9. Each(type, held) = [k \in 1..n |-> Says(type, f[k])]
  BY DEF Each, f, n
<1>10. \A v \in held : Says(type, v) \in Statement
  BY DEF Says, Statement
<1>11. Each(type, held) \in Seq(Statement)
  BY <1>1, <1>5, <1>9, <1>10
<1> QED
  BY <1>5, <1>8, <1>9, <1>11 DEF ToSet

\* What has been found on the pages of a site, put together.
Findings(f) ==
  /\ f.emails \in SUBSET (Values \cap DOMAIN RankOf)
  /\ f.form \in BOOLEAN
  /\ f.tags \in SUBSET Values /\ IsFiniteSet(f.tags)
  /\ f.marks \in SUBSET Values /\ IsFiniteSet(f.marks)
  /\ f.hours \in Nat
  /\ f.hours # 0 => ToString(f.hours) \in Values

Mailbox(f) == IF f.emails = {} THEN {} ELSE {Says("contact_email", First(f.emails))}
Promised(f) == IF f.hours = 0 THEN {} ELSE {Says("response_time_hours", ToString(f.hours))}

\* Everything a report says.
Sayings(f) ==
  Mailbox(f)
  \cup {Says("contact_form", Truth(f.form)), Says("chat_widget", Truth(f.widgets # {}))}
  \cup {Says("automation_tag", v) : v \in f.tags}
  \cup {Says("enterprise_marker", v) : v \in f.marks}
  \cup Promised(f)

\* One address comes first in the alphabet.
LEMMA FirstIs ==
  ASSUME NEW emails \in SUBSET DOMAIN RankOf, emails # {}
  PROVE  /\ First(emails) \in emails
         /\ \A d \in emails : RankOf[First(emails)] <= RankOf[d]
         /\ {e \in emails : \A d \in emails : RankOf[e] <= RankOf[d]} = {First(emails)}
<1> DEFINE ranks == {RankOf[e] : e \in emails}
<1>1. RankOf \in [DOMAIN RankOf -> Nat] /\ IsInjective(RankOf)
  BY PagesAreReadable
<1>2. ranks \subseteq Nat /\ ranks # {}
  BY <1>1
<1>3. PICK r \in ranks : \A y \in ranks : r <= y
  <2> HIDE DEF ranks
  <2> QED
    BY <1>2, MinIsMember
<1>4. \E e \in emails : \A d \in emails : RankOf[e] <= RankOf[d]
  BY <1>3
<1>5. First(emails) \in emails /\ \A d \in emails : RankOf[First(emails)] <= RankOf[d]
  BY <1>4, Zenon DEF First
<1>6. ASSUME NEW e \in emails, \A d \in emails : RankOf[e] <= RankOf[d]
      PROVE  e = First(emails)
  <2>1. RankOf[e] <= RankOf[First(emails)] /\ RankOf[First(emails)] <= RankOf[e]
    BY <1>5, <1>6
  <2>2. RankOf[e] \in Nat /\ RankOf[First(emails)] \in Nat
    BY <1>1, <1>5
  <2>3. RankOf[e] = RankOf[First(emails)]
    BY <2>1, <2>2
  <2> QED
    BY <1>1, <1>5, <2>3 DEF IsInjective
<1> QED
  BY <1>5, <1>6

\* The statements of a report, as a set.
LEMMA ReportSays ==
  ASSUME NEW f, Findings(f)
  PROVE  /\ Report(f) \in Seq(Statement)
         /\ Len(Report(f)) >= 1
         /\ ToSet(Report(f)) = Sayings(f)
<1> DEFINE a == IF f.emails = {} THEN <<>> ELSE <<Says("contact_email", First(f.emails))>>
           b == <<Says("contact_form", Truth(f.form)), Says("chat_widget", Truth(f.widgets # {}))>>
           c == Each("automation_tag", f.tags)
           d == Each("enterprise_marker", f.marks)
           e == IF f.hours = 0 THEN <<>> ELSE <<Says("response_time_hours", ToString(f.hours))>>
<1>1. /\ {"true", "false"} \subseteq Values
      /\ {"contact_email", "contact_form", "chat_widget", "automation_tag", "enterprise_marker",
          "response_time_hours"} \subseteq Types
  BY VocabularyHolds
<1>2. a \in Seq(Statement) /\ ToSet(a) = Mailbox(f) /\ Len(a) \in Nat
  <2>1. CASE f.emails = {}
    BY <2>1 DEF Mailbox, ToSet
  <2>2. CASE f.emails # {}
    <3>1. First(f.emails) \in Values
      BY <2>2, FirstIs DEF Findings
    <3> DEFINE x == Says("contact_email", First(f.emails))
    <3>2. x \in Statement /\ a = <<x>> /\ Mailbox(f) = {x}
      BY <1>1, <2>2, <3>1 DEF Says, Statement, Mailbox
    <3> HIDE DEF x, a
    <3> QED
      BY <3>2 DEF ToSet
  <2> QED
    BY <2>1, <2>2
<1>3. /\ b \in Seq(Statement) /\ Len(b) = 2
      /\ ToSet(b) = {Says("contact_form", Truth(f.form)), Says("chat_widget", Truth(f.widgets # {}))}
  <2> DEFINE x == Says("contact_form", Truth(f.form))
             y == Says("chat_widget", Truth(f.widgets # {}))
  <2>1. x \in Statement /\ y \in Statement
    BY <1>1 DEF Says, Statement, Truth
  <2> HIDE DEF x, y
  <2>2. <<x, y>> \in Seq(Statement) /\ Len(<<x, y>>) = 2 /\ ToSet(<<x, y>>) = {x, y}
    BY <2>1 DEF ToSet
  <2> QED
    BY <2>2 DEF x, y
<1>4. c \in Seq(Statement) /\ ToSet(c) = {Says("automation_tag", v) : v \in f.tags} /\ Len(c) \in Nat
  BY <1>1, EachSays DEF Findings
<1>5. d \in Seq(Statement) /\ ToSet(d) = {Says("enterprise_marker", v) : v \in f.marks} /\ Len(d) \in Nat
  BY <1>1, EachSays DEF Findings
<1>6. e \in Seq(Statement) /\ ToSet(e) = Promised(f) /\ Len(e) \in Nat
  <2>1. CASE f.hours = 0
    BY <2>1 DEF Promised, ToSet
  <2>2. CASE f.hours # 0
    <3> DEFINE x == Says("response_time_hours", ToString(f.hours))
    <3>1. ToString(f.hours) \in Values
      BY <2>2 DEF Findings
    <3>2. x \in Statement /\ e = <<x>> /\ Promised(f) = {x}
      BY <1>1, <2>2, <3>1 DEF Says, Statement, Promised
    <3> HIDE DEF x, e
    <3> QED
      BY <3>2 DEF ToSet
  <2> QED
    BY <2>1, <2>2
<1>7. Report(f) = a \o b \o c \o d \o e
  BY DEF Report
<1> HIDE DEF a, b, c, d, e
<1> DEFINE ab == a \o b
           abc == ab \o c
           abcd == abc \o d
           abcde == abcd \o e
<1>8. ab \in Seq(Statement) /\ Len(ab) = Len(a) + Len(b) /\ ToSet(ab) = ToSet(a) \cup ToSet(b)
  <2>1. a \in Seq(Statement) /\ b \in Seq(Statement)
    BY <1>2, <1>3
  <2> QED
    BY <2>1, RangeOfConcat
<1> HIDE DEF ab
<1>9. abc \in Seq(Statement) /\ Len(abc) = Len(ab) + Len(c) /\ ToSet(abc) = ToSet(ab) \cup ToSet(c)
  BY <1>4, <1>8, RangeOfConcat
<1> HIDE DEF abc
<1>10. abcd \in Seq(Statement) /\ Len(abcd) = Len(abc) + Len(d) /\ ToSet(abcd) = ToSet(abc) \cup ToSet(d)
  BY <1>5, <1>9, RangeOfConcat
<1> HIDE DEF abcd
<1>11. /\ abcde \in Seq(Statement) /\ Len(abcde) = Len(abcd) + Len(e)
       /\ ToSet(abcde) = ToSet(abcd) \cup ToSet(e)
  BY <1>6, <1>10, RangeOfConcat
<1>12. Report(f) = abcde
  BY <1>7 DEF ab, abc, abcd
<1> HIDE DEF abcde
<1>13. Len(Report(f)) >= 1
  BY <1>2, <1>3, <1>4, <1>5, <1>6, <1>8, <1>9, <1>10, <1>11, <1>12
<1>14. ToSet(Report(f)) = Mailbox(f)
         \cup {Says("contact_form", Truth(f.form)), Says("chat_widget", Truth(f.widgets # {}))}
         \cup {Says("automation_tag", v) : v \in f.tags}
         \cup {Says("enterprise_marker", v) : v \in f.marks} \cup Promised(f)
  BY <1>2, <1>3, <1>4, <1>5, <1>6, <1>8, <1>9, <1>10, <1>11, <1>12
<1> QED
  BY <1>11, <1>12, <1>13, <1>14 DEF Sayings

\* A promise that is kept is one of the vocabulary's.
LEMMA HoursAre ==
  ASSUME NEW page \in Pages
  PROVE  /\ ResponseHours(page.promises) \in Nat
         /\ ResponseHours(page.promises) # 0 => ToString(ResponseHours(page.promises)) \in Values
<1> DEFINE promises == page.promises
           I == {i \in 1..Len(promises) : Believable(promises[i])}
<1>1. promises \in Seq([n : Nat, unit : {"hour", "day"}])
  BY PagesAreReadable
<1>2. ResponseHours(promises) =
        (IF (IF I # {} THEN Min(I) ELSE 0) = 0 THEN 0
         ELSE Hours(promises[IF I # {} THEN Min(I) ELSE 0]))
  BY DEF ResponseHours, SelectInSeq
<1>3. CASE I = {}
  BY <1>2, <1>3
<1>4. CASE I # {}
  <2>1. I \subseteq Nat
    OBVIOUS
  <2>2. Min(I) \in I
    <3> HIDE DEF I
    <3> QED
      BY <1>4, <2>1, MinIsMember
  <2>3. /\ Min(I) \in 1..Len(promises) /\ Believable(promises[Min(I)])
        /\ Min(I) # 0
    BY <2>2
  <2> HIDE DEF I
  <2>4. ResponseHours(promises) = Hours(promises[Min(I)])
    BY <1>2, <1>4, <2>3
  <2>5. promises[Min(I)] \in ToSet(promises)
    BY <1>1, <2>3 DEF ToSet
  <2>6. promises[Min(I)] \in [n : Nat, unit : {"hour", "day"}]
    <3> DEFINE P == [n : Nat, unit : {"hour", "day"}]
    <3>1. promises \in Seq(P)
      BY <1>1
    <3> HIDE DEF P, promises
    <3>2. promises[Min(I)] \in P
      BY <2>3, <3>1
    <3> QED
      BY <3>2 DEF P
  <2>7. ToString(Hours(promises[Min(I)])) \in Values
    BY <2>3, <2>5, VocabularyHolds
  <2>8. Hours(promises[Min(I)]) \in Nat
    BY <2>6 DEF Hours
  <2> QED
    BY <2>4, <2>7, <2>8
<1> QED
  BY <1>3, <1>4

\* What was found is what the pages read say together.
Merged(f, read) ==
  LET pages == ToSet(read)
  IN  /\ f.emails = (UNION {p.addresses : p \in pages}) \ Noise
      /\ f.form = (\E p \in pages : \E form \in p.forms : IsContactForm(form))
      /\ f.widgets = UNION {p.widgets : p \in pages}
      /\ f.tags = UNION {p.tags : p \in pages}
      /\ f.marks = UNION {p.marks : p \in pages}
      /\ f.hours \in {ResponseHours(p.promises) : p \in pages}
      /\ \A p \in pages : ResponseHours(p.promises) <= f.hours

\* The findings of one page are what that page says.
LEMMA PageSays ==
  ASSUME NEW page \in Pages
  PROVE  /\ Findings(Extract(page))
         /\ Merged(Extract(page), <<page>>)
         /\ Extract(page).links = page.links /\ page.links \in Seq(Link)
<1> DEFINE f == Extract(page)
<1>1. /\ f.emails = page.addresses \ Noise
      /\ f.form = (\E form \in page.forms : IsContactForm(form))
      /\ f.widgets = page.widgets /\ f.tags = page.tags /\ f.marks = page.marks
      /\ f.hours = ResponseHours(page.promises)
      /\ f.links = page.links
  BY DEF Extract
<1>2. /\ page.links \in Seq(Link) /\ IsFiniteSet(page.tags) /\ IsFiniteSet(page.marks)
      /\ page.addresses \subseteq DOMAIN RankOf
      /\ (page.addresses \ Noise) \cup page.tags \cup page.marks \subseteq Values
  BY PagesAreReadable, VocabularyHolds
<1>3. ToSet(<<page>>) = {page}
  BY DEF ToSet
<1> HIDE DEF f
<1>4. Findings(f)
  BY <1>1, <1>2, HoursAre DEF Findings
<1>5. Merged(f, <<page>>)
  <2>1. f.hours \in {ResponseHours(p.promises) : p \in {page}} /\ f.hours \in Nat
    BY <1>1, HoursAre
  <2>2. \A p \in {page} : ResponseHours(p.promises) <= f.hours
    BY <1>1, <2>1
  <2> QED
    BY <1>1, <1>3, <2>1, <2>2 DEF Merged
<1> QED
  BY <1>1, <1>2, <1>4, <1>5 DEF f

\* Merging a page into what the earlier ones say gives what all of them say.
LEMMA MergeKeeps ==
  ASSUME NEW read \in Seq(Pages), NEW f, Findings(f), Merged(f, read), NEW page \in Pages
  PROVE  /\ Findings(Merge(f, Extract(page)))
         /\ Merged(Merge(f, Extract(page)), Append(read, page))
<1> DEFINE x == Extract(page)
           m == Merge(f, x)
           more == ToSet(Append(read, page))
<1>1. more = ToSet(read) \cup {page}
  BY RangeOfAppend
<1>2. Findings(x) /\ Merged(x, <<page>>)
  BY PageSays
<1>3. ToSet(<<page>>) = {page}
  BY DEF ToSet
<1>4. /\ m.emails = f.emails \cup x.emails /\ m.form = (f.form \/ x.form)
      /\ m.widgets = f.widgets \cup x.widgets
      /\ m.tags = f.tags \cup x.tags /\ m.marks = f.marks \cup x.marks
      /\ m.hours = Max({f.hours, x.hours})
  BY DEF Merge
<1> HIDE DEF m, x, more
<1>5. /\ m.hours \in {f.hours, x.hours} /\ f.hours <= m.hours /\ x.hours <= m.hours
      /\ f.hours \in Nat /\ x.hours \in Nat
  <2>1. f.hours \in Nat /\ x.hours \in Nat
    BY <1>2 DEF Findings
  <2>2. /\ {f.hours, x.hours} \subseteq 0 .. f.hours + x.hours /\ {f.hours, x.hours} # {}
        /\ f.hours + x.hours \in Nat
    BY <2>1
  <2> QED
    BY <1>4, <2>1, <2>2, MaxIsGreatest
<1>6. Findings(m)
  <2>1. /\ m.emails \in SUBSET (Values \cap DOMAIN RankOf) /\ m.form \in BOOLEAN
        /\ m.tags \in SUBSET Values /\ m.marks \in SUBSET Values
    BY <1>2, <1>4 DEF Findings
  <2>2. IsFiniteSet(m.tags) /\ IsFiniteSet(m.marks)
    <3>1. /\ IsFiniteSet(f.tags) /\ IsFiniteSet(f.marks)
          /\ IsFiniteSet(x.tags) /\ IsFiniteSet(x.marks)
      BY <1>2 DEF Findings
    <3>2. IsFiniteSet(f.tags \cup x.tags)
      BY <3>1, FS_Union
    <3>3. IsFiniteSet(f.marks \cup x.marks)
      BY <3>1, FS_Union
    <3> QED
      BY <1>4, <3>2, <3>3
  <2>3. m.hours \in Nat /\ (m.hours # 0 => ToString(m.hours) \in Values)
    BY <1>2, <1>5 DEF Findings
  <2> QED
    BY <2>1, <2>2, <2>3 DEF Findings
<1>7. Merged(m, Append(read, page))
  <2>1. /\ x.emails = page.addresses \ Noise
        /\ x.form = (\E form \in page.forms : IsContactForm(form))
        /\ x.widgets = page.widgets /\ x.tags = page.tags /\ x.marks = page.marks
        /\ x.hours = ResponseHours(page.promises)
    BY DEF x, Extract
  <2>2. m.emails = (UNION {p.addresses : p \in more}) \ Noise
    <3>1. UNION {p.addresses : p \in more} = (UNION {p.addresses : p \in ToSet(read)}) \cup page.addresses
      BY <1>1
    <3>2. f.emails = (UNION {p.addresses : p \in ToSet(read)}) \ Noise
      BY DEF Merged
    <3> QED
      BY <1>4, <2>1, <3>1, <3>2
  <2>3. m.form = (\E p \in more : \E form \in p.forms : IsContactForm(form))
    BY <1>1, <1>4, <2>1 DEF Merged
  <2>4. m.widgets = UNION {p.widgets : p \in more}
    BY <1>1, <1>4, <2>1 DEF Merged
  <2>5. m.tags = UNION {p.tags : p \in more} /\ m.marks = UNION {p.marks : p \in more}
    BY <1>1, <1>4, <2>1 DEF Merged
  <2>6. m.hours \in {ResponseHours(p.promises) : p \in more}
    BY <1>1, <1>5, <2>1 DEF Merged
  <2>7. \A p \in more : ResponseHours(p.promises) <= m.hours
    <3>1. \A p \in ToSet(read) : ResponseHours(p.promises) \in Nat
      BY HoursAre DEF ToSet
    <3>2. \A p \in ToSet(read) : ResponseHours(p.promises) <= f.hours
      BY DEF Merged
    <3> QED
      BY <1>1, <1>5, <2>1, <3>1, <3>2
  <2> QED
    BY <2>2, <2>3, <2>4, <2>5, <2>6, <2>7 DEF Merged, more
<1> QED
  BY <1>6, <1>7 DEF m, x

\* The pages asked for so far, and those still to be asked for.
Asking(asked, left, read) ==
  /\ asked \in Seq(URLs) /\ left \in Seq(URLs) /\ read \in Seq(Pages)
  /\ Len(asked) <= MaxContactPages
  /\ IsInjective(asked) /\ IsInjective(left)
  /\ ToSet(asked) \cap ToSet(left) = {}
  /\ Home \notin ToSet(asked) \cup ToSet(left)
  /\ \A url \in ToSet(asked) \cup ToSet(left) :
       \E l \in ToSet(read[1].links) \cup ToSet(Fallback) : l.own /\ l.url = url

Reading ==
  /\ visit = [stage |-> "contact", found |-> visit.found, asked |-> visit.asked,
              read |-> visit.read, left |-> visit.left]
  /\ Asking(visit.asked, visit.left, visit.read)
  /\ visit.read # <<>>
  /\ Findings(visit.found) /\ Merged(visit.found, visit.read)

Reporting ==
  /\ visit = [stage |-> "report", next |-> visit.next, asked |-> visit.asked,
              read |-> visit.read, said |-> visit.said]
  /\ Asking(visit.asked, <<>>, visit.read)
  /\ visit.said \in Seq(Statement) /\ visit.next \in 1 .. Len(visit.said)
  /\ visit.read # <<>> =>
       \E f : Findings(f) /\ Merged(f, visit.read) /\ visit.said = Report(f)

VisitInv == visit = NoVisit \/ Reading \/ Reporting

\* The next candidate is of the site and was not asked for before.
LEMMA AskOneMore ==
  ASSUME NEW asked, NEW left, NEW read, Asking(asked, left, read),
         left # <<>>, Len(asked) < MaxContactPages
  PROVE  Asking(Append(asked, Head(left)), Tail(left), read)
<1> DEFINE url == Head(left)
           more == Append(asked, url)
           rest == Tail(left)
           n == Len(asked)
<1>1. /\ asked \in Seq(URLs) /\ left \in Seq(URLs) /\ read \in Seq(Pages)
      /\ n \in Nat /\ MaxContactPages \in Nat
  BY PagesAreReadable DEF Asking
<1>2. /\ url = left[1] /\ url \in URLs /\ rest \in Seq(URLs)
      /\ Len(left) \in Nat /\ Len(left) >= 1 /\ DOMAIN left = 1..Len(left)
      /\ Len(rest) = Len(left) - 1 /\ DOMAIN rest = 1 .. Len(left) - 1
      /\ \A i \in 1 .. Len(left) - 1 : rest[i] = left[i + 1]
  BY <1>1
<1>3. /\ more \in Seq(URLs) /\ Len(more) = n + 1
      /\ ToSet(more) = ToSet(asked) \cup {url}
      /\ \A i \in 1..n : more[i] = asked[i]
      /\ more[n + 1] = url
  BY <1>1, <1>2, RangeOfAppend
<1>4. DOMAIN asked = 1..n /\ DOMAIN more = 1 .. n + 1 /\ 1 .. n + 1 = 1..n \cup {n + 1}
  BY <1>1, <1>3
<1>5. url \in ToSet(left) /\ url \notin ToSet(asked)
  <2>1. url \in ToSet(left)
    BY <1>2 DEF ToSet
  <2> QED
    BY <2>1 DEF Asking
<1> HIDE DEF url, more, rest, n
<1>6. IsInjective(more)
  <2>1. \A i \in 1..n : asked[i] # url
    BY <1>4, <1>5 DEF ToSet
  <2>2. \A i, j \in 1..n : asked[i] = asked[j] => i = j
    BY <1>4 DEF Asking, IsInjective
  <2> QED
    BY <1>3, <1>4, <2>1, <2>2 DEF IsInjective
<1>7. IsInjective(left)
  BY DEF Asking
<1>8. ASSUME NEW i \in DOMAIN rest
      PROVE  i + 1 \in DOMAIN left /\ rest[i] = left[i + 1] /\ i + 1 # 1 /\ rest[i] # url
  <2>1. i \in Nat /\ i + 1 \in DOMAIN left /\ i + 1 # 1 /\ rest[i] = left[i + 1] /\ 1 \in DOMAIN left
    BY <1>2
  <2> QED
    BY <1>2, <1>7, <2>1 DEF IsInjective
<1>9. IsInjective(rest)
  <2> SUFFICES ASSUME NEW i \in DOMAIN rest, NEW j \in DOMAIN rest, rest[i] = rest[j] PROVE i = j
    BY DEF IsInjective
  <2>1. i + 1 = j + 1
    BY <1>7, <1>8 DEF IsInjective
  <2> QED
    BY <1>2, <2>1
<1>10. ToSet(rest) \subseteq ToSet(left) \ {url}
  BY <1>8 DEF ToSet
<1>11. ToSet(more) \cap ToSet(rest) = {}
  BY <1>3, <1>10 DEF Asking
<1>12. /\ Home \notin ToSet(more) \cup ToSet(rest)
       /\ \A u \in ToSet(more) \cup ToSet(rest) :
            \E l \in ToSet(read[1].links) \cup ToSet(Fallback) : l.own /\ l.url = u
  <2>1. ToSet(more) \cup ToSet(rest) \subseteq ToSet(asked) \cup ToSet(left)
    BY <1>3, <1>5, <1>10
  <2> QED
    BY <2>1 DEF Asking
<1>13. Len(more) <= MaxContactPages
  BY <1>1, <1>3 DEF n
<1>14. Asking(more, rest, read)
  BY <1>1, <1>2, <1>3, <1>6, <1>9, <1>11, <1>12, <1>13 DEF Asking
<1> QED
  BY <1>14 DEF more, rest, url

\* No visit is under way.
LEMMA NobodyVisits == NoVisit.stage = "idle"
BY DEF NoVisit

LEMMA NothingAsked ==
  /\ <<>> \in Seq(URLs) /\ IsInjective(<<>>) /\ ToSet(<<>>) = {}
  /\ Len(<<>>) <= MaxContactPages
<1>1. Len(<<>>) = 0 /\ MaxContactPages \in Nat
  BY PagesAreReadable
<1>2. Len(<<>>) <= MaxContactPages
  BY <1>1
<1> QED
  BY <1>2 DEF ToSet, IsInjective

\* After the homepage, its candidates are left.
LEMMA HomeIsAsked ==
  ASSUME NEW page \in Pages
  PROVE  Asking(<<>>, Candidates(page.links), <<page>>)
<1> DEFINE left == Candidates(page.links)
<1>1. page.links \in Seq(Link)
  BY PagesAreReadable
<1>2. /\ left \in Seq(URLs) /\ IsInjective(left) /\ Home \notin ToSet(left)
      /\ \A url \in ToSet(left) : \E l \in ToSet(page.links) \cup ToSet(Fallback) : l.own /\ l.url = url
  BY <1>1, CandidatesAre
<1> HIDE DEF left
<1>3. <<page>> \in Seq(Pages) /\ <<page>>[1] = page
  OBVIOUS
<1>4. Asking(<<>>, left, <<page>>)
  BY <1>2, <1>3, NothingAsked DEF Asking
<1> QED
  BY <1>4 DEF left

\* The homepage is read.
LEMMA ReadHomeStep ==
  ASSUME ReadHome PROVE VisitInv'
<1>1. PICK page \in PagesAt[Home] :
        visit' = [stage |-> "contact", found |-> Extract(page), asked |-> <<>>,
                  read |-> <<page>>, left |-> Candidates(Extract(page).links)]
  BY DEF ReadHome
<1>2. page \in Pages
  BY PagesAreReadable DEF Pages
<1>3. /\ Findings(Extract(page)) /\ Merged(Extract(page), <<page>>)
      /\ Extract(page).links = page.links
      /\ Asking(<<>>, Candidates(page.links), <<page>>)
  BY <1>2, PageSays, HomeIsAsked
<1>4. /\ visit'.found = Extract(page) /\ visit'.asked = <<>> /\ visit'.read = <<page>>
      /\ visit'.left = Candidates(page.links)
      /\ visit' = [stage |-> "contact", found |-> visit'.found, asked |-> visit'.asked,
                   read |-> visit'.read, left |-> visit'.left]
  BY <1>1, <1>3
<1>5. <<page>> # <<>>
  OBVIOUS
<1> QED
  BY <1>3, <1>4, <1>5 DEF VisitInv, Reading

\* The homepage is disallowed.
LEMMA HomeDisallowedStep ==
  ASSUME HomeDisallowed PROVE VisitInv'
<1> DEFINE x == Says("robots_disallowed", "true")
<1>1. visit' = [stage |-> "report", next |-> 1, asked |-> <<>>, read |-> <<>>, said |-> <<x>>]
  BY DEF HomeDisallowed
<1>2. x \in Statement
  BY VocabularyHolds DEF Says, Statement
<1> HIDE DEF x
<1>3. <<x>> \in Seq(Statement) /\ 1 \in 1 .. Len(<<x>>)
  BY <1>2
<1>4. Asking(<<>>, <<>>, <<>>)
  <2>1. <<>> \in Seq(Pages)
    OBVIOUS
  <2> QED
    BY <2>1, NothingAsked DEF Asking
<1>5. /\ visit'.next = 1 /\ visit'.asked = <<>> /\ visit'.read = <<>> /\ visit'.said = <<x>>
      /\ visit' = [stage |-> "report", next |-> visit'.next, asked |-> visit'.asked,
                   read |-> visit'.read, said |-> visit'.said]
  BY <1>1
<1> QED
  BY <1>3, <1>4, <1>5 DEF VisitInv, Reporting

\* Between the homepage and the report.
LEMMA InContact ==
  ASSUME VisitInv, visit.stage = "contact"
  PROVE  Reading
BY DEF VisitInv, NoVisit, Reporting

\* While the report is recorded.
LEMMA InReport ==
  ASSUME VisitInv, visit.stage = "report"
  PROVE  Reporting
BY DEF VisitInv, NoVisit, Reading

\* One more page is asked for.
LEMMA AskedIs ==
  ASSUME Reading, MorePages
  PROVE  /\ Asked = [stage |-> "contact", found |-> visit.found,
                     asked |-> Append(visit.asked, Head(visit.left)),
                     read |-> visit.read, left |-> Tail(visit.left)]
         /\ Asking(Append(visit.asked, Head(visit.left)), Tail(visit.left), visit.read)
<1>1. /\ visit = [stage |-> "contact", found |-> visit.found, asked |-> visit.asked,
                  read |-> visit.read, left |-> visit.left]
      /\ Asking(visit.asked, visit.left, visit.read)
  BY DEF Reading
<1>2. Asking(Append(visit.asked, Head(visit.left)), Tail(visit.left), visit.read)
  BY <1>1, AskOneMore DEF MorePages
<1> DEFINE asked == Append(visit.asked, Head(visit.left))
           left == Tail(visit.left)
<1>3. Asked = [visit EXCEPT !.asked = asked, !.left = left]
  BY DEF Asked
<1> HIDE DEF asked, left
<1>4. Asked = [stage |-> "contact", found |-> visit.found, asked |-> asked,
               read |-> visit.read, left |-> left]
  <2>1. visit = [stage |-> "contact", found |-> visit.found, asked |-> visit.asked,
                 read |-> visit.read, left |-> visit.left]
    BY <1>1
  <2> DEFINE step == [visit EXCEPT !.asked = asked]
  <2>2. Asked = [step EXCEPT !.left = left]
    BY <1>3
  <2>3. step = [stage |-> "contact", found |-> visit.found, asked |-> asked,
                read |-> visit.read, left |-> visit.left]
    BY <2>1
  <2> HIDE DEF step
  <2> QED
    BY <2>2, <2>3
<1> QED
  BY <1>2, <1>4 DEF asked, left

\* A contact page cannot be read.
LEMMA SkipContactPageStep ==
  ASSUME VisitInv, SkipContactPage PROVE VisitInv'
<1>1. Reading /\ MorePages /\ visit' = Asked
  BY InContact DEF SkipContactPage
<1>2. /\ visit' = [stage |-> "contact", found |-> visit.found,
                   asked |-> Append(visit.asked, Head(visit.left)),
                   read |-> visit.read, left |-> Tail(visit.left)]
      /\ Asking(Append(visit.asked, Head(visit.left)), Tail(visit.left), visit.read)
  BY <1>1, AskedIs
<1>3. /\ visit'.found = visit.found /\ visit'.read = visit.read /\ visit'.left = Tail(visit.left)
      /\ visit'.asked = Append(visit.asked, Head(visit.left))
      /\ visit' = [stage |-> "contact", found |-> visit'.found, asked |-> visit'.asked,
                   read |-> visit'.read, left |-> visit'.left]
  BY <1>2
<1> QED
  BY <1>1, <1>2, <1>3 DEF VisitInv, Reading

\* A contact page is read and merged.
LEMMA ReadContactPageStep ==
  ASSUME VisitInv, ReadContactPage PROVE VisitInv'
<1> DEFINE asked == Append(visit.asked, Head(visit.left))
           left == Tail(visit.left)
<1>1. Reading /\ MorePages
  BY InContact DEF ReadContactPage
<1>2. PICK page \in PagesAt[Head(visit.left)] :
        visit' = [Asked EXCEPT !.found = Merge(@, Extract(page)), !.read = Append(@, page)]
  BY DEF ReadContactPage
<1>3. /\ Asking(visit.asked, visit.left, visit.read) /\ visit.read # <<>>
      /\ Findings(visit.found) /\ Merged(visit.found, visit.read)
  BY <1>1 DEF Reading
<1>4. page \in Pages
  <2>1. visit.left \in Seq(URLs) /\ visit.left # <<>>
    BY <1>1, <1>3 DEF MorePages, Asking
  <2>2. Head(visit.left) \in URLs
    BY <2>1
  <2> QED
    BY <2>2 DEF Pages
<1>5. /\ Asked = [stage |-> "contact", found |-> visit.found, asked |-> asked,
                  read |-> visit.read, left |-> left]
      /\ Asking(asked, left, visit.read)
  BY <1>1, AskedIs
<1> DEFINE found == Merge(visit.found, Extract(page))
           read == Append(visit.read, page)
<1>6. visit' = [stage |-> "contact", found |-> found, asked |-> asked, read |-> read, left |-> left]
  BY <1>2, <1>5
<1>7. visit.read \in Seq(Pages)
  BY <1>3 DEF Asking
<1>8. read \in Seq(Pages) /\ read # <<>> /\ read[1] = visit.read[1]
  <2>1. Len(visit.read) >= 1 /\ Len(visit.read) \in Nat
    BY <1>3, <1>7
  <2>2. 1 \in 1 .. Len(visit.read) /\ Len(read) = Len(visit.read) + 1 /\ read \in Seq(Pages)
    BY <1>4, <1>7, <2>1, RangeOfAppend
  <2>3. read[1] = visit.read[1]
    BY <1>4, <1>7, <2>2, RangeOfAppend
  <2> QED
    BY <2>1, <2>2, <2>3
<1>9. Findings(found) /\ Merged(found, read)
  BY <1>3, <1>4, <1>7, MergeKeeps
<1> HIDE DEF found, read, asked, left
<1>10. Asking(asked, left, read)
  BY <1>5, <1>8 DEF Asking
<1>11. /\ visit'.found = found /\ visit'.read = read /\ visit'.left = left /\ visit'.asked = asked
       /\ visit' = [stage |-> "contact", found |-> visit'.found, asked |-> visit'.asked,
                    read |-> visit'.read, left |-> visit'.left]
  BY <1>6
<1> QED
  BY <1>8, <1>9, <1>10, <1>11 DEF VisitInv, Reading

\* The findings become a report.
LEMMA FinishVisitStep ==
  ASSUME VisitInv, FinishVisit PROVE VisitInv'
<1> DEFINE said == Report(visit.found)
<1>1. /\ Asking(visit.asked, visit.left, visit.read) /\ visit.read # <<>>
      /\ Findings(visit.found) /\ Merged(visit.found, visit.read)
  BY InContact DEF FinishVisit, Reading
<1>2. visit' = [stage |-> "report", next |-> 1, asked |-> visit.asked, read |-> visit.read,
                said |-> said]
  BY DEF FinishVisit
<1>3. said \in Seq(Statement) /\ 1 \in 1 .. Len(said)
  <2>1. said \in Seq(Statement) /\ Len(said) >= 1
    BY <1>1, ReportSays
  <2> QED
    BY <2>1
<1>4. Asking(visit.asked, <<>>, visit.read)
  <2>1. <<>> \in Seq(URLs) /\ IsInjective(<<>>) /\ ToSet(<<>>) = {}
    BY DEF ToSet, IsInjective
  <2> QED
    BY <1>1, <2>1 DEF Asking
<1>5. \E f : Findings(f) /\ Merged(f, visit.read) /\ said = Report(f)
  BY <1>1
<1> HIDE DEF said
<1>6. /\ visit'.next = 1 /\ visit'.asked = visit.asked /\ visit'.read = visit.read
      /\ visit'.said = said
      /\ visit' = [stage |-> "report", next |-> visit'.next, asked |-> visit'.asked,
                   read |-> visit'.read, said |-> visit'.said]
  BY <1>2
<1> QED
  BY <1>3, <1>4, <1>5, <1>6 DEF VisitInv, Reporting

\* A statement of the report is recorded, and it is one the table can hold.
LEMMA RecordReportStep ==
  ASSUME VisitInv, RecordReport
  PROVE  VisitInv' /\ ObservationOf(Site, visit.said[visit.next]) \in Observation
<1>1. Reporting
  BY InReport DEF RecordReport
<1>2. visit.said[visit.next] \in Statement
  BY <1>1 DEF Reporting
<1>3. ObservationOf(Site, visit.said[visit.next]) \in Observation
  BY <1>2, BusinessesAreListed, VocabularyHolds DEF ObservationOf, Statement, Observation, Fact
<1>4. CASE visit.next = Len(visit.said)
  <2>1. visit' = NoVisit
    BY <1>4 DEF RecordReport
  <2> QED
    BY <1>3, <2>1 DEF VisitInv
<1>5. CASE visit.next # Len(visit.said)
  <2>1. visit' = [stage |-> "report", next |-> visit.next + 1, asked |-> visit.asked,
                  read |-> visit.read, said |-> visit.said]
    BY <1>1, <1>5 DEF RecordReport, Reporting
  <2>2. visit.next + 1 \in 1 .. Len(visit.said)
    BY <1>1, <1>5 DEF Reporting
  <2>3. /\ visit'.next = visit.next + 1 /\ visit'.asked = visit.asked /\ visit'.read = visit.read
        /\ visit'.said = visit.said
        /\ visit' = [stage |-> "report", next |-> visit'.next, asked |-> visit'.asked,
                     read |-> visit'.read, said |-> visit'.said]
    BY <2>1
  <2>4. /\ Asking(visit.asked, <<>>, visit.read) /\ visit.said \in Seq(Statement)
        /\ visit.read # <<>> =>
             \E f : Findings(f) /\ Merged(f, visit.read) /\ visit.said = Report(f)
    BY <1>1 DEF Reporting
  <2> QED
    BY <1>3, <2>2, <2>3, <2>4 DEF VisitInv, Reporting
<1> QED
  BY <1>3, <1>4, <1>5

\* Every step of a visit.
LEMMA VisitStep ==
  ASSUME VisitInv, Visit PROVE VisitInv'
BY ReadHomeStep, HomeDisallowedStep, ReadContactPageStep, SkipContactPageStep, FinishVisitStep
   DEF Visit

\* Every step of somebody else.
LEMMA VisitStays ==
  ASSUME VisitInv, UNCHANGED visit PROVE VisitInv'
BY DEF VisitInv, Reading, Reporting

\* The signals of a type, in a report.
LEMMA SaidIs ==
  ASSUME NEW type
  PROVE  SaidOf(type) = {s.value : s \in {x \in ToSet(visit.said) : x.type = type}}
BY DEF SaidOf, ToSet

\* A report of the merged findings is what the pages say.
LEMMA ReportIsThePages ==
  ASSUME NEW f, Findings(f), Merged(f, visit.read), visit.said = Report(f),
         visit.stage = "report", visit.read \in Seq(Pages)
  PROVE  ReportIsTheSite
<1> DEFINE pages == ToSet(visit.read)
           emails == (UNION {p.addresses : p \in pages}) \ Noise
           promised == {ResponseHours(p.promises) : p \in pages} \ {0}
           about(type) == {s.value : s \in {x \in Sayings(f) : x.type = type}}
<1>1. \A type : SaidOf(type) = about(type)
  BY SaidIs, ReportSays
<1>2. \A t, v : Says(t, v).type = t /\ Says(t, v).value = v
  BY DEF Says
<1>3. about("contact_email") = IF f.emails = {} THEN {} ELSE {First(f.emails)}
  <2>1. {x \in Sayings(f) : x.type = "contact_email"} = Mailbox(f)
    BY <1>2 DEF Sayings, Mailbox, Promised
  <2>2. about("contact_email") = {s.value : s \in Mailbox(f)}
    BY <2>1
  <2> HIDE DEF about
  <2> QED
    BY <1>2, <2>2 DEF Mailbox
<1>4. about("contact_form") = {Truth(f.form)} /\ about("chat_widget") = {Truth(f.widgets # {})}
  BY <1>2 DEF Sayings, Mailbox, Promised
<1>5. about("automation_tag") = f.tags /\ about("enterprise_marker") = f.marks
  BY <1>2 DEF Sayings, Mailbox, Promised
<1>6. about("response_time_hours") = IF f.hours = 0 THEN {} ELSE {ToString(f.hours)}
  <2>1. {x \in Sayings(f) : x.type = "response_time_hours"} = Promised(f)
    BY <1>2 DEF Sayings, Mailbox, Promised
  <2>2. about("response_time_hours") = {s.value : s \in Promised(f)}
    BY <2>1
  <2> HIDE DEF about
  <2> QED
    BY <1>2, <2>2 DEF Promised
<1> HIDE DEF about
<1>7. SaidOf("contact_email") = {e \in emails : \A d \in emails : RankOf[e] <= RankOf[d]}
  <2>1. f.emails = emails /\ f.emails \in SUBSET DOMAIN RankOf
    BY DEF Merged, Findings
  <2> HIDE DEF emails
  <2>2. f.emails # {} =>
          {e \in f.emails : \A d \in f.emails : RankOf[e] <= RankOf[d]} = {First(f.emails)}
    BY <2>1, FirstIs
  <2> QED
    BY <1>1, <1>3, <2>1, <2>2
<1>8. /\ SaidOf("contact_form") =
           {Truth(\E p \in pages : \E form \in p.forms : IsContactForm(form))}
      /\ SaidOf("chat_widget") = {Truth(\E p \in pages : p.widgets # {})}
  <2>1. (f.widgets # {}) = (\E p \in pages : p.widgets # {})
    <3>1. f.widgets = UNION {p.widgets : p \in pages}
      BY DEF Merged
    <3>2. ASSUME NEW p \in pages, p.widgets # {} PROVE f.widgets # {}
      BY <3>1, <3>2
    <3>3. ASSUME f.widgets # {} PROVE \E p \in pages : p.widgets # {}
      BY <3>1, <3>3
    <3> QED
      BY <3>2, <3>3
  <2>2. f.form = (\E p \in pages : \E form \in p.forms : IsContactForm(form))
    BY DEF Merged
  <2> QED
    BY <1>1, <1>4, <2>1, <2>2
<1>9. /\ SaidOf("automation_tag") = UNION {p.tags : p \in pages}
      /\ SaidOf("enterprise_marker") = UNION {p.marks : p \in pages}
  BY <1>1, <1>5 DEF Merged
<1>10. SaidOf("response_time_hours") =
         {ToString(v) : v \in {h \in promised : \A other \in promised : h >= other}}
  <2> DEFINE hours == {ResponseHours(p.promises) : p \in pages}
  <2>1. /\ f.hours \in Nat /\ f.hours \in hours
        /\ \A h \in hours : h <= f.hours
    BY DEF Merged, Findings
  <2>4. \A h \in hours : h \in Nat
    BY HoursAre DEF ToSet
  <2>5. promised = hours \ {0}
    OBVIOUS
  <2> HIDE DEF hours, promised
  <2>2. CASE f.hours = 0
    <3>1. promised = {}
      BY <2>1, <2>2, <2>4, <2>5
    <3> QED
      BY <1>1, <1>6, <2>2, <3>1
  <2>3. CASE f.hours # 0
    <3>1. {h \in promised : \A other \in promised : h >= other} = {f.hours}
      BY <2>1, <2>3, <2>4, <2>5
    <3> QED
      BY <1>1, <1>6, <2>3, <3>1
  <2> QED
    BY <2>2, <2>3
<1> QED
  BY <1>7, <1>8, <1>9, <1>10 DEF ReportIsTheSite

(***************************************************************************)
(* The score command.  The values a part speaks of are bound to names, so  *)
(* that they are the same values before and after a step.                  *)
(***************************************************************************)

Files == {Loaded(cfg) : cfg \in Weights}
CountsOf == [Businesses -> Counts \cup {None}]

\* A score command at work: what it has read of a business is what the table
\* said then, and it knows what every row that was there when it began knew.
Computing(s) ==
  /\ s = [stage |-> s.stage, weights |-> s.weights, queue |-> s.queue, reviews |-> s.reviews,
          began |-> s.began, known |-> s.known, asOf |-> s.asOf]
  /\ s.stage \in {"read", "save"}
  /\ s.weights \in Files
  /\ s.queue \in SUBSET Businesses /\ s.queue # {}
  /\ s.reviews \in CountsOf /\ \A b \in Businesses : s.reviews[b] # None => reviews[b] # None
  /\ s.began \in 0 .. Len(scores)
  /\ s.asOf \in 0 .. Len(signals)
  /\ \A i \in 1 .. s.began : scores[i].reviews # None => s.reviews[scores[i].business] # None
  /\ s.stage = "save" =>
       /\ \A i \in 1 .. s.began : scores[i].asOf <= s.asOf
       /\ \A b \in {Min(s.queue)}, n \in {s.asOf} : s.known = History(b, n)

\* A row of the scores table, the r-th.
Saved(x, r) ==
  /\ x.business \in Businesses
  /\ x.weights \in Files
  /\ x.asOf \in 0 .. Len(signals)
  /\ x.began \in 0 .. r - 1
  /\ x.reviews # None => reviews[x.business] # None
  /\ \A i \in 1 .. x.began :
       /\ scores[i].asOf <= x.asOf
       /\ scores[i].business = x.business /\ scores[i].reviews # None => x.reviews # None
  /\ \A b \in {x.business}, n \in {x.asOf} : x.result = Score(x.weights, History(b, n), x.reviews)

ScorersInv ==
  /\ scorer = [p \in Scorers |-> scorer[p]]
  /\ \A p \in Scorers : \A s \in {scorer[p]} : s = Resting \/ Computing(s)

RowsInv ==
  /\ scores \in Seq(ToSet(scores))
  /\ \A r \in Rows : \A x \in {scores[r]} : Saved(x, r)

ScoreInv ==
  /\ SignalsTypeOK
  /\ LastIsCurrent
  /\ VisitInv
  /\ reviews \in CountsOf
  /\ ScorersInv
  /\ RowsInv

\* The signals table only grows.
LEMMA SignalsGrow ==
  ASSUME SignalsTypeOK, NEW o \in Observation, RecordSignal(o)
  PROVE  Len(signals) \in Nat /\ Len(signals') \in Nat /\ Len(signals) <= Len(signals')
<1>1. Len(signals) \in Nat
  BY DEF SignalsTypeOK
<1>2. CASE UNCHANGED signals
  <2>1. Len(signals') = Len(signals)
    BY <1>2
  <2> QED
    BY <1>1, <2>1
<1>3. CASE AppendSignal(o)
  <2>1. Len(signals') = Len(signals) + 1
    BY <1>3, AppendedRows
  <2> QED
    BY <1>1, <2>1
<1> QED
  BY <1>1, <1>2, <1>3 DEF RecordSignal, ConfirmSignal

\* Recording keeps the table typed and the last row of a fact current.
LEMMA RecordedTable ==
  ASSUME SignalsTypeOK, LastIsCurrent, NEW o \in Observation, RecordSignal(o)
  PROVE  SignalsTypeOK' /\ LastIsCurrent'
<1>1. SignalsTypeOK'
  BY SignalsTypeStep DEF SignalsNext
<1>2. CASE UNCHANGED signals
  BY <1>1, <1>2 DEF LastIsCurrent
<1>3. CASE AppendSignal(o)
  BY <1>1, <1>3, LastStaysCurrent
<1> QED
  BY <1>2, <1>3 DEF RecordSignal, ConfirmSignal

\* A signal recorded changes nothing of what was read before.
LEMMA ComputingWhenRecorded ==
  ASSUME SignalsTypeOK, NEW o \in Observation, RecordSignal(o), UNCHANGED <<scores, reviews>>,
         NEW s, Computing(s)
  PROVE  Computing(s)'
<1>1. /\ s.asOf \in 0 .. Len(signals) /\ Len(signals) \in Nat
      /\ Len(signals') \in Nat /\ Len(signals) <= Len(signals')
  BY SignalsGrow DEF Computing
<1>2. s.asOf \in 0 .. Len(signals')
  BY <1>1
<1>3. \A b : \A n \in 0 .. Len(signals) : History(b, n)' = History(b, n)
  BY HistoryStays
<1>4. \A b \in {Min(s.queue)}, n \in {s.asOf} : History(b, n)' = History(b, n)
  BY <1>1, <1>3
<1> QED
  BY <1>2, <1>4 DEF Computing

\* A saved score is not touched by what is recorded later.
LEMMA SavedWhenRecorded ==
  ASSUME SignalsTypeOK, NEW o \in Observation, RecordSignal(o), UNCHANGED <<scores, reviews>>,
         NEW x, NEW r, Saved(x, r)
  PROVE  Saved(x, r)'
<1>1. /\ x.asOf \in 0 .. Len(signals) /\ Len(signals) \in Nat
      /\ Len(signals') \in Nat /\ Len(signals) <= Len(signals')
  BY SignalsGrow DEF Saved
<1>2. x.asOf \in 0 .. Len(signals')
  BY <1>1
<1>3. \A b : \A n \in 0 .. Len(signals) : History(b, n)' = History(b, n)
  BY HistoryStays
<1>4. \A b \in {x.business}, n \in {x.asOf} : History(b, n)' = History(b, n)
  BY <1>1, <1>3
<1> QED
  BY <1>2, <1>4 DEF Saved

\* Nor is anything else the invariant speaks of.
LEMMA RecordedInv ==
  ASSUME ScoreInv, NEW o \in Observation, RecordSignal(o), VisitInv',
         UNCHANGED <<reviews, scores, scorer>>
  PROVE  ScoreInv'
<1>1. SignalsTypeOK /\ LastIsCurrent /\ ScorersInv /\ RowsInv
  BY DEF ScoreInv
<1>2. SignalsTypeOK' /\ LastIsCurrent'
  BY <1>1, RecordedTable
<1>3. ScorersInv'
  <2>1. ASSUME NEW p \in Scorers, NEW s \in {scorer[p]}, Computing(s) PROVE Computing(s)'
    BY <1>1, <2>1, ComputingWhenRecorded
  <2> QED
    BY <1>1, <2>1 DEF ScorersInv
<1>4. RowsInv'
  <2>1. ASSUME NEW r \in Rows, NEW x \in {scores[r]}, Saved(x, r) PROVE Saved(x, r)'
    BY <1>1, <2>1, SavedWhenRecorded
  <2> QED
    BY <1>1, <2>1 DEF RowsInv, Rows
<1> QED
  BY <1>2, <1>3, <1>4 DEF ScoreInv

\* Nothing of the tables changes: each command may only rest.
LEMMA RestedInv ==
  ASSUME ScoreInv, VisitInv', UNCHANGED <<signals, reviews, scores>>,
         scorer' = [p \in Scorers |-> scorer'[p]],
         \A p \in Scorers : scorer'[p] \in {scorer[p], Resting}
  PROVE  ScoreInv'
<1>1. SignalsTypeOK' /\ LastIsCurrent'
  BY DEF ScoreInv, SignalsTypeOK, LastIsCurrent
<1>2. \A b, n : History(b, n)' = History(b, n)
  BY DEF History
<1>3. scores' = scores /\ reviews' = reviews /\ Len(signals') = Len(signals)
  OBVIOUS
<1>4. ASSUME NEW s, Computing(s) PROVE Computing(s)'
  BY <1>4, <1>2, <1>3 DEF Computing
<1>5. ASSUME NEW x, NEW r, Saved(x, r) PROVE Saved(x, r)'
  BY <1>5, <1>2, <1>3 DEF Saved
<1>6. ScorersInv'
  <2>1. \A p \in Scorers : \A s \in {scorer'[p]} : s = Resting \/ Computing(s)
    BY DEF ScoreInv, ScorersInv
  <2> QED
    BY <1>4, <2>1 DEF ScorersInv
<1>7. RowsInv'
  BY <1>5 DEF ScoreInv, RowsInv, Rows
<1> QED
  BY <1>1, <1>6, <1>7 DEF ScoreInv

\* An entry that is valid can be recorded.
LEMMA ManualIsObserved ==
  ASSUME NEW b \in Businesses, NEW e \in Entries, ValidEntry(e.type, e.value)
  PROVE  ObservationOf(b, ManualSignal(e.type, e.value)) \in Observation
<1>1. /\ "manual" \in Sources /\ e.type \in Types /\ e.value \in Values
  BY VocabularyHolds
<1> QED
  BY <1>1 DEF ObservationOf, ManualSignal, Observation, Fact

\* So can the answer of the Ad Library.
LEMMA AdIsObserved ==
  ASSUME NEW b \in Businesses, NEW ads
  PROVE  ObservationOf(b, AdSignal(Names[b], ads)) \in Observation
<1>1. /\ "meta_ads" \in Sources /\ "running_ads" \in Types /\ {"true", "false"} \subseteq Values
  BY VocabularyHolds
<1> QED
  BY <1>1 DEF ObservationOf, AdSignal, Observation, Fact

\* The rows of the scores table.
LEMMA RowsAre ==
  ASSUME scores \in Seq(ToSet(scores))
  PROVE  Len(scores) \in Nat /\ Rows = 1 .. Len(scores)
BY DEF Rows

\* A newer review count takes none away.
LEMMA DiscoverInv ==
  ASSUME ScoreInv, Discover PROVE ScoreInv'
<1>1. PICK b \in Businesses, n \in Counts : reviews' = [reviews EXCEPT ![b] = n]
  BY DEF Discover
<1>2. /\ signals' = signals /\ visit' = visit /\ scores' = scores /\ scorer' = scorer
      /\ reviews \in CountsOf /\ RowsInv
  BY DEF Discover, ScoreInv
<1>3. reviews' \in CountsOf /\ \A c \in Businesses : reviews[c] # None => reviews'[c] # None
  BY <1>1, <1>2, BusinessesAreListed DEF CountsOf
<1>4. \A c, n_1 : History(c, n_1)' = History(c, n_1)
  BY <1>2 DEF History
<1>5. Len(signals') = Len(signals)
  BY <1>2
<1>6. ASSUME NEW s, Computing(s) PROVE Computing(s)'
  BY <1>2, <1>3, <1>4, <1>5, <1>6 DEF Computing
<1>7. ASSUME NEW x, NEW r, Saved(x, r) PROVE Saved(x, r)'
  BY <1>2, <1>3, <1>4, <1>5, <1>7 DEF Saved
<1>8. SignalsTypeOK' /\ LastIsCurrent' /\ VisitInv'
  BY <1>2, VisitStays DEF ScoreInv, SignalsTypeOK, LastIsCurrent
<1>9. ScorersInv'
  BY <1>2, <1>6 DEF ScoreInv, ScorersInv
<1>10. RowsInv'
  BY <1>2, <1>7 DEF RowsInv, Rows
<1> QED
  BY <1>3, <1>8, <1>9, <1>10 DEF ScoreInv

\* A command starts or reads: the tables do not change.
LEMMA WorkingInv ==
  ASSUME ScoreInv, NEW p \in Scorers, UNCHANGED <<signals, visit, reviews, scores>>,
         NEW s, scorer' = [scorer EXCEPT ![p] = s], Computing(s)
  PROVE  ScoreInv'
<1>1. SignalsTypeOK' /\ LastIsCurrent' /\ VisitInv' /\ reviews' \in CountsOf
  BY VisitStays DEF ScoreInv, SignalsTypeOK, LastIsCurrent
<1>2. \A b, n : History(b, n)' = History(b, n)
  BY DEF History
<1>3. scores' = scores /\ reviews' = reviews /\ Len(signals') = Len(signals)
  OBVIOUS
<1>4. ASSUME NEW x, Computing(x) PROVE Computing(x)'
  BY <1>2, <1>3, <1>4 DEF Computing
<1>5. ASSUME NEW x, NEW r, Saved(x, r) PROVE Saved(x, r)'
  BY <1>2, <1>3, <1>5 DEF Saved
<1>6. scorer = [q \in Scorers |-> scorer[q]]
  BY DEF ScoreInv, ScorersInv
<1>7. /\ scorer' = [q \in Scorers |-> scorer'[q]]
      /\ scorer'[p] = s /\ \A q \in Scorers \ {p} : scorer'[q] = scorer[q]
  BY <1>6
<1>8. ScorersInv'
  <2>1. ASSUME NEW q \in Scorers, NEW x \in {scorer'[q]} PROVE x = Resting \/ Computing(x)
    <3>1. CASE q = p
      BY <1>7, <3>1
    <3>2. CASE q # p
      BY <1>7, <3>2 DEF ScoreInv, ScorersInv
    <3> QED
      BY <3>1, <3>2
  <2> QED
    BY <1>4, <1>7, <2>1 DEF ScorersInv
<1>9. RowsInv'
  BY <1>5 DEF ScoreInv, RowsInv, Rows
<1> QED
  BY <1>1, <1>8, <1>9 DEF ScoreInv

\* A command starts from the rows and counts of the moment.
LEMMA StartScoreInv ==
  ASSUME ScoreInv, NEW p \in Scorers, StartScore(p) PROVE ScoreInv'
<1>1. PICK cfg \in Weights :
        scorer' = [scorer EXCEPT ![p] =
          [stage |-> "read", weights |-> Loaded(cfg), queue |-> Businesses,
           reviews |-> reviews, began |-> Len(scores), known |-> {}, asOf |-> 0]]
  BY DEF StartScore
<1>2. PICK s : s = [stage |-> "read", weights |-> Loaded(cfg), queue |-> Businesses,
                    reviews |-> reviews, began |-> Len(scores), known |-> {}, asOf |-> 0]
  OBVIOUS
<1>3. /\ s.stage = "read" /\ s.weights = Loaded(cfg) /\ s.queue = Businesses
      /\ s.reviews = reviews /\ s.began = Len(scores) /\ s.known = {} /\ s.asOf = 0
      /\ s = [stage |-> s.stage, weights |-> s.weights, queue |-> s.queue, reviews |-> s.reviews,
              began |-> s.began, known |-> s.known, asOf |-> s.asOf]
  BY <1>2
<1>4. /\ Len(scores) \in Nat /\ Rows = 1 .. Len(scores) /\ Len(signals) \in Nat
      /\ reviews \in CountsOf
  BY RowsAre DEF ScoreInv, RowsInv, SignalsTypeOK
<1>5. \A i \in 1 .. s.began : scores[i].reviews # None => s.reviews[scores[i].business] # None
  BY <1>3, <1>4 DEF ScoreInv, RowsInv, Saved
<1>6. s.began \in 0 .. Len(scores) /\ s.asOf \in 0 .. Len(signals)
  BY <1>3, <1>4
<1>7. s.weights \in Files /\ s.queue \in SUBSET Businesses /\ s.queue # {}
  BY <1>3, BusinessesAreListed DEF Files
<1>8. Computing(s)
  BY <1>3, <1>4, <1>5, <1>6, <1>7 DEF Computing
<1>9. scorer' = [scorer EXCEPT ![p] = s] /\ UNCHANGED <<signals, visit, reviews, scores>>
  BY <1>1, <1>2 DEF StartScore
<1> QED
  BY <1>8, <1>9, WorkingInv

\* A command reads the current signals, which is the history so far.
LEMMA ReadSignalsInv ==
  ASSUME ScoreInv, NEW p \in Scorers, ReadSignals(p) PROVE ScoreInv'
<1>1. PICK old : old = scorer[p]
  OBVIOUS
<1>2. old.stage = "read" /\ Computing(old)
  BY <1>1 DEF ReadSignals, ScoreInv, ScorersInv, Resting
<1>3. PICK s : s = [stage |-> "save", weights |-> old.weights, queue |-> old.queue,
                    reviews |-> old.reviews, began |-> old.began,
                    known |-> CurrentSignals(Min(old.queue)), asOf |-> Len(signals)]
  OBVIOUS
<1>4. scorer' = [scorer EXCEPT ![p] = s]
  <2> DEFINE known == CurrentSignals(Min(old.queue))
             asOf == Len(signals)
  <2>1. NextBusiness(p) = Min(old.queue)
    BY <1>1 DEF NextBusiness
  <2>2. scorer' = [scorer EXCEPT ![p].stage = "save", ![p].asOf = asOf, ![p].known = known]
    BY <2>1 DEF ReadSignals
  <2> HIDE DEF known, asOf
  <2>3. scorer' = [scorer EXCEPT ![p] = [[[old EXCEPT !.stage = "save"] EXCEPT !.asOf = asOf]
                                           EXCEPT !.known = known]]
    BY <1>1, <2>2
  <2> DEFINE a == [old EXCEPT !.stage = "save"]
             b == [a EXCEPT !.asOf = asOf]
             c == [b EXCEPT !.known = known]
  <2>4. a =
          [stage |-> "save", weights |-> old.weights, queue |-> old.queue, reviews |-> old.reviews,
           began |-> old.began, known |-> old.known, asOf |-> old.asOf]
    BY <1>2 DEF Computing
  <2> HIDE DEF a
  <2>5. b = [stage |-> "save", weights |-> old.weights, queue |-> old.queue, reviews |-> old.reviews,
             began |-> old.began, known |-> old.known, asOf |-> asOf]
    BY <2>4
  <2> HIDE DEF b
  <2>6. c = [stage |-> "save", weights |-> old.weights, queue |-> old.queue, reviews |-> old.reviews,
             began |-> old.began, known |-> known, asOf |-> asOf]
    BY <2>5
  <2>7. c = s
    BY <1>3, <2>6 DEF known, asOf
  <2>8. scorer' = [scorer EXCEPT ![p] = c]
    BY <2>3 DEF a, b
  <2> HIDE DEF c
  <2> QED
    BY <2>7, <2>8
<1>5. /\ s.stage = "save" /\ s.weights = old.weights /\ s.queue = old.queue
      /\ s.reviews = old.reviews /\ s.began = old.began
      /\ s.known = CurrentSignals(Min(old.queue)) /\ s.asOf = Len(signals)
      /\ s = [stage |-> s.stage, weights |-> s.weights, queue |-> s.queue, reviews |-> s.reviews,
              began |-> s.began, known |-> s.known, asOf |-> s.asOf]
  BY <1>3
<1>6. /\ Len(scores) \in Nat /\ Rows = 1 .. Len(scores) /\ Len(signals) \in Nat
  BY RowsAre DEF ScoreInv, RowsInv, SignalsTypeOK
<1>7. \A i \in 1 .. s.began : scores[i].asOf <= s.asOf
  <2> SUFFICES ASSUME NEW i \in 1 .. s.began PROVE scores[i].asOf <= Len(signals)
    BY <1>5
  <2>1. i \in Rows
    BY <1>2, <1>5, <1>6 DEF Computing
  <2>2. scores[i].asOf \in 0 .. Len(signals)
    BY <2>1 DEF ScoreInv, RowsInv, Saved
  <2> QED
    BY <1>6, <2>2
<1>8. s.known = History(Min(s.queue), s.asOf)
  BY <1>5, CurrentIsHistory DEF ScoreInv
<1>9. s.asOf \in 0 .. Len(signals)
  BY <1>5, <1>6
<1>10. Computing(s)
  BY <1>2, <1>5, <1>7, <1>8, <1>9 DEF Computing
<1>11. UNCHANGED <<signals, visit, reviews, scores>>
  BY DEF ReadSignals
<1> QED
  BY <1>4, <1>10, <1>11, WorkingInv

\* The table with one more score.
LEMMA AppendedScore ==
  ASSUME scores \in Seq(ToSet(scores)), NEW row, scores' = Append(scores, row)
  PROVE  /\ scores' \in Seq(ToSet(scores'))
         /\ Len(scores) \in Nat /\ Len(scores') = Len(scores) + 1
         /\ Rows = 1 .. Len(scores) /\ Rows' = 1 .. Len(scores) \cup {Len(scores) + 1}
         /\ \A i \in 1 .. Len(scores) : scores'[i] = scores[i]
         /\ scores'[Len(scores) + 1] = row
<1> DEFINE S == ToSet(scores) \cup {row}
<1>1. scores \in Seq(S) /\ row \in S
  OBVIOUS
<1> HIDE DEF S
<1>2. /\ scores' \in Seq(S) /\ Len(scores') = Len(scores) + 1
      /\ ToSet(scores') = ToSet(scores) \cup {row}
      /\ \A i \in 1 .. Len(scores) : scores'[i] = scores[i]
      /\ scores'[Len(scores) + 1] = row
  BY <1>1, RangeOfAppend
<1>3. scores' \in Seq(ToSet(scores'))
  BY <1>2 DEF S
<1>4. Len(scores) \in Nat /\ Rows = 1 .. Len(scores)
  BY RowsAre
<1>5. Rows' = 1 .. Len(scores) + 1
  BY <1>2, <1>3 DEF Rows
<1>6. Rows' = 1 .. Len(scores) \cup {Len(scores) + 1}
  BY <1>4, <1>5
<1> QED
  BY <1>2, <1>3, <1>4, <1>6

\* A score is saved with what it was made of.
LEMMA SaveScoreInv ==
  ASSUME ScoreInv, NEW p \in Scorers, SaveScore(p) PROVE ScoreInv'
<1>0. PICK m : m = Len(scores)
  OBVIOUS
<1>1. PICK s : s = scorer[p]
  OBVIOUS
<1>2. s.stage = "save" /\ Computing(s)
  BY <1>1 DEF SaveScore, ScoreInv, ScorersInv, Resting
<1>3. PICK b : b = Min(s.queue)
  OBVIOUS
<1>4. b \in s.queue /\ b \in Businesses
  <2>1. s.queue \subseteq Nat /\ s.queue # {} /\ s.queue \subseteq Businesses
    BY <1>2, BusinessesAreListed DEF Computing
  <2> QED
    BY <1>3, <2>1, MinIsMember
<1>5. PICK row : row = [business |-> b, weights |-> s.weights, reviews |-> s.reviews[b],
                        asOf |-> s.asOf, began |-> s.began,
                        result |-> Score(s.weights, s.known, s.reviews[b])]
  OBVIOUS
<1>6. /\ row.business = b /\ row.weights = s.weights /\ row.reviews = s.reviews[b]
      /\ row.asOf = s.asOf /\ row.began = s.began
      /\ row.result = Score(s.weights, s.known, s.reviews[b])
  BY <1>5
<1>7. /\ scores' = Append(scores, row)
      /\ scorer' = [scorer EXCEPT ![p] =
           IF s.queue = {b} THEN Resting ELSE [s EXCEPT !.stage = "read", !.queue = @ \ {b}]]
      /\ UNCHANGED <<signals, visit, reviews, visits, answers>>
  BY <1>1, <1>3, <1>5 DEF SaveScore, NextBusiness
<1>8. /\ scores' \in Seq(ToSet(scores'))
      /\ m \in Nat /\ Len(scores') = m + 1 /\ Rows = 1..m /\ Rows' = 1..m \cup {m + 1}
      /\ \A i \in 1..m : scores'[i] = scores[i]
      /\ scores'[m + 1] = row
  BY <1>0, <1>7, AppendedScore DEF ScoreInv, RowsInv
<1>9. /\ reviews' = reviews /\ Len(signals') = Len(signals)
      /\ \A c, n : History(c, n)' = History(c, n)
  BY <1>7 DEF History
<1>10. ASSUME NEW x, Computing(x) PROVE Computing(x)'
  <2>1. x.began \in 0..m /\ x.began \in 0 .. Len(scores')
    BY <1>0, <1>8, <1>10 DEF Computing
  <2>2. \A i \in 1 .. x.began : scores'[i] = scores[i]
    BY <1>8, <2>1
  <2> QED
    BY <1>9, <1>10, <2>1, <2>2 DEF Computing
<1>11. ASSUME NEW r \in 1..m, NEW x, Saved(x, r) PROVE Saved(x, r)'
  <2>1. x.began \in 0 .. r - 1
    BY <1>11 DEF Saved
  <2>2. \A i \in 1 .. x.began : scores'[i] = scores[i]
    BY <1>8, <2>1
  <2> QED
    BY <1>9, <1>11, <2>2 DEF Saved
<1>12. \A r \in {m + 1} : Saved(row, r)'
  <2>1. row.business \in Businesses /\ row.weights \in Files /\ row.asOf \in 0 .. Len(signals')
    BY <1>2, <1>4, <1>6, <1>9 DEF Computing
  <2>2. row.began \in 0..m
    BY <1>0, <1>2, <1>6, <1>8 DEF Computing
  <2>3. \A i \in 1 .. row.began :
          /\ scores'[i].asOf <= row.asOf
          /\ scores'[i].business = row.business /\ scores'[i].reviews # None => row.reviews # None
    <3>1. \A i \in 1 .. row.began : scores'[i] = scores[i]
      BY <1>8, <2>2
    <3> QED
      BY <1>2, <1>6, <3>1 DEF Computing
  <2>4. ASSUME s.reviews[b] # None PROVE reviews[b] # None
    BY <1>2, <1>4, <2>4 DEF Computing
  <2>5. \A c \in {row.business}, n \in {row.asOf} :
          row.result = Score(row.weights, History(c, n), row.reviews)
    BY <1>2, <1>3, <1>6 DEF Computing
  <2>6. row.reviews # None => reviews'[row.business] # None
    BY <1>6, <1>9, <2>4
  <2>7. (\A c \in {row.business}, n \in {row.asOf} :
           row.result = Score(row.weights, History(c, n), row.reviews))'
    BY <1>9, <2>5
  <2>8. ASSUME NEW r \in {m + 1} PROVE row.began \in 0 .. r - 1
    BY <1>8, <2>2
  <2> QED
    BY <2>1, <2>3, <2>6, <2>7, <2>8 DEF Saved
<1>13. ASSUME s.queue # {b}
       PROVE  \A x \in {[s EXCEPT !.stage = "read", !.queue = @ \ {b}]} : Computing(x)
  <2> DEFINE rest == s.queue \ {b}
             a == [s EXCEPT !.stage = "read"]
             e == [a EXCEPT !.queue = rest]
  <2>1. [s EXCEPT !.stage = "read", !.queue = @ \ {b}] = e
    BY <1>2 DEF Computing
  <2>2. rest \in SUBSET Businesses /\ rest # {}
    BY <1>2, <1>4, <1>13 DEF Computing
  <2> HIDE DEF rest
  <2>3. a = [stage |-> "read", weights |-> s.weights, queue |-> s.queue, reviews |-> s.reviews,
             began |-> s.began, known |-> s.known, asOf |-> s.asOf]
    BY <1>2 DEF Computing
  <2> HIDE DEF a
  <2>4. e = [stage |-> "read", weights |-> s.weights, queue |-> rest, reviews |-> s.reviews,
             began |-> s.began, known |-> s.known, asOf |-> s.asOf]
    BY <2>3
  <2> HIDE DEF e
  <2>5. /\ e.stage = "read" /\ e.weights = s.weights /\ e.queue = rest /\ e.reviews = s.reviews
        /\ e.began = s.began /\ e.known = s.known /\ e.asOf = s.asOf
        /\ e = [stage |-> e.stage, weights |-> e.weights, queue |-> e.queue, reviews |-> e.reviews,
                began |-> e.began, known |-> e.known, asOf |-> e.asOf]
    BY <2>4
  <2>6. Computing(e)
    BY <1>2, <2>2, <2>5 DEF Computing
  <2> QED
    BY <2>1, <2>6
<1>14. ScorersInv'
  <2>1. scorer = [q \in Scorers |-> scorer[q]]
    BY DEF ScoreInv, ScorersInv
  <2>2. /\ scorer' = [q \in Scorers |-> scorer'[q]]
        /\ scorer'[p] = IF s.queue = {b} THEN Resting
                        ELSE [s EXCEPT !.stage = "read", !.queue = @ \ {b}]
        /\ \A q \in Scorers \ {p} : scorer'[q] = scorer[q]
    BY <1>7, <2>1
  <2>3. ASSUME NEW q \in Scorers, NEW x \in {scorer'[q]} PROVE x = Resting \/ Computing(x)
    <3>1. CASE q = p
      BY <1>13, <2>2, <3>1
    <3>2. CASE q # p
      BY <2>2, <3>2 DEF ScoreInv, ScorersInv
    <3> QED
      BY <3>1, <3>2
  <2> QED
    BY <1>10, <2>2, <2>3 DEF ScorersInv
<1>15. RowsInv'
  <2>1. ASSUME NEW r \in 1..m, NEW x \in {scores'[r]} PROVE Saved(x, r)'
    <3>1. x = scores[r] /\ r \in Rows
      BY <1>8
    <3>2. Saved(x, r)
      BY <3>1 DEF ScoreInv, RowsInv
    <3> QED
      BY <1>11, <3>2
  <2> QED
    BY <1>8, <1>12, <2>1 DEF RowsInv
<1>16. SignalsTypeOK' /\ LastIsCurrent' /\ VisitInv' /\ reviews' \in CountsOf
  BY <1>7, VisitStays DEF ScoreInv, SignalsTypeOK, LastIsCurrent
<1> QED
  BY <1>14, <1>15, <1>16 DEF ScoreInv

LEMMA ScoreInvInit == Init => ScoreInv
<1> SUFFICES ASSUME Init PROVE ScoreInv
  OBVIOUS
<1>1. /\ signals = <<>> /\ visit = NoVisit /\ reviews = [b \in Businesses |-> None]
      /\ scores = <<>> /\ scorer = [p \in Scorers |-> Resting]
  BY DEF Init, SignalsInit
<1>2. SignalsTypeOK /\ LastIsCurrent
  BY <1>1 DEF SignalsTypeOK, LastIsCurrent
<1>3. VisitInv /\ reviews \in CountsOf
  BY <1>1 DEF VisitInv, CountsOf
<1>4. ScorersInv /\ RowsInv
  BY <1>1 DEF ScorersInv, RowsInv, Rows
<1> QED
  BY <1>2, <1>3, <1>4 DEF ScoreInv

LEMMA ScoreInvNext == ScoreInv /\ [Next]_vars => ScoreInv'
<1> SUFFICES ASSUME ScoreInv, [Next]_vars PROVE ScoreInv'
  OBVIOUS
<1>1. VisitInv /\ scorer = [p \in Scorers |-> scorer[p]]
  BY DEF ScoreInv, ScorersInv
<1>2. CASE UNCHANGED vars
  <2>1. VisitInv'
    BY <1>1, <1>2, VisitStays DEF vars
  <2>2. scorer' = scorer /\ UNCHANGED <<signals, reviews, scores>>
    BY <1>2 DEF vars
  <2> QED
    BY <1>1, <2>1, <2>2, RestedInv
<1>3. CASE Visit
  <2>1. VisitInv'
    BY <1>1, <1>3, VisitStep
  <2>2. scorer' = scorer /\ UNCHANGED <<signals, reviews, scores>>
    BY <1>3 DEF Visit
  <2> QED
    BY <1>1, <2>1, <2>2, RestedInv
<1>4. CASE RecordReport
  <2>1. VisitInv' /\ ObservationOf(Site, visit.said[visit.next]) \in Observation
    BY <1>1, <1>4, RecordReportStep
  <2>2. /\ RecordSignal(ObservationOf(Site, visit.said[visit.next]))
        /\ UNCHANGED <<reviews, scores, scorer>>
    BY <1>4 DEF RecordReport
  <2> QED
    BY <2>1, <2>2, RecordedInv
<1>5. CASE DropVisit
  <2>1. VisitInv' /\ scorer' = scorer /\ UNCHANGED <<signals, reviews, scores>>
    BY <1>5 DEF DropVisit, VisitInv
  <2> QED
    BY <1>1, <2>1, RestedInv
<1>6. CASE AskAdLibrary
  <2>1. PICK b \in Businesses, ads \in Archives : RecordSignal(ObservationOf(b, AdSignal(Names[b], ads)))
    BY <1>6 DEF AskAdLibrary
  <2>2. VisitInv' /\ UNCHANGED <<reviews, scores, scorer>>
    BY <1>1, <1>6, VisitStays DEF AskAdLibrary
  <2> QED
    BY <2>1, <2>2, AdIsObserved, RecordedInv
<1>7. CASE Enter
  <2>1. PICK b \in Businesses, e \in Entries :
          /\ ValidEntry(e.type, e.value)
          /\ RecordSignal(ObservationOf(b, ManualSignal(e.type, e.value)))
    BY <1>7 DEF Enter
  <2>2. VisitInv' /\ UNCHANGED <<reviews, scores, scorer>>
    BY <1>1, <1>7, VisitStays DEF Enter
  <2> QED
    BY <2>1, <2>2, ManualIsObserved, RecordedInv
<1>8. CASE Discover
  BY <1>8, DiscoverInv
<1>9. ASSUME NEW p \in Scorers, StopScore(p) PROVE ScoreInv'
  <2>1. VisitInv' /\ UNCHANGED <<signals, reviews, scores>>
    BY <1>1, <1>9, VisitStays DEF StopScore
  <2>2. scorer' = [scorer EXCEPT ![p] = Resting]
    BY <1>9 DEF StopScore
  <2>3. /\ scorer' = [q \in Scorers |-> scorer'[q]]
        /\ \A q \in Scorers : scorer'[q] \in {scorer[q], Resting}
    BY <1>1, <2>2
  <2> QED
    BY <2>1, <2>3, RestedInv
<1> QED
  BY <1>2, <1>3, <1>4, <1>5, <1>6, <1>7, <1>8, <1>9, StartScoreInv, ReadSignalsInv, SaveScoreInv DEF Next

\* What is known is what was recorded, and what is saved can be told from it.
LEMMA ScoreInvariant == Spec => []ScoreInv
BY ScoreInvInit, ScoreInvNext, PTL DEF Spec

\* What a command has loaded is a valid file.
LEMMA FilesAreWeights ==
  ASSUME NEW cfg \in Files
  PROVE  cfg \in WeightsFile
BY WeightsAreValid, LoadedIsAFile DEF Files, ValidWeights

\* A row as the proofs below use it.
LEMMA RowIs ==
  ASSUME ScoreInv, NEW r \in Rows
  PROVE  /\ scores[r].business \in Businesses
         /\ scores[r].weights \in WeightsFile
         /\ scores[r].asOf \in Nat
         /\ scores[r].began \in 0 .. r - 1
         /\ \A i \in 1 .. scores[r].began :
              /\ scores[i].asOf <= scores[r].asOf
              /\ scores[i].business = scores[r].business /\ scores[i].reviews # None
                   => scores[r].reviews # None
         /\ scores[r].result = Score(scores[r].weights, History(scores[r].business, scores[r].asOf),
                                     scores[r].reviews)
<1>1. Saved(scores[r], r)
  BY DEF ScoreInv, RowsInv
<1>2. scores[r].weights \in WeightsFile
  BY <1>1, FilesAreWeights DEF Saved
<1>3. Len(signals) \in Nat
  BY DEF ScoreInv, SignalsTypeOK
<1>4. scores[r].asOf \in Nat
  BY <1>1, <1>3 DEF Saved
<1> QED
  BY <1>1, <1>2, <1>4 DEF Saved

\* What Score returns, field by field.
LEMMA ScoreGives ==
  ASSUME NEW cfg, NEW observed, NEW count
  PROVE  LET known == WithBand(cfg, observed, count)
             result == Score(cfg, observed, count)
         IN  /\ result.matched = Matched(cfg, known)
             /\ result.checkable = Points(cfg, Checked(cfg, known))
             /\ result.needs = NeedsManualCheck(cfg, known)
BY DEF Score, Matched, Checked

\* The band reviews stand in for is all they add to what is known.
LEMMA BandAdds ==
  ASSUME NEW cfg, NEW observed, NEW count, NEW t
  PROVE  /\ Has(t, WithBand(cfg, observed, count)) <=>
              Has(t, observed) \/ (t = "size_band" /\ count # None)
         /\ \A s : s.type # "size_band" =>
              (s \in WithBand(cfg, observed, count) <=> s \in observed)
<1> DEFINE band == [source |-> "places", type |-> "size_band", value |-> BandFor(cfg, count)]
<1>1. band.type = "size_band"
  OBVIOUS
<1> HIDE DEF band
<1>2. WithBand(cfg, observed, count) =
        IF Has("size_band", observed) \/ count = None THEN observed ELSE observed \cup {band}
  BY DEF WithBand, band
<1>3. \A u, known : Has(u, known) <=> \E s \in known : s.type = u
  BY DEF Has, ValuesOf
<1>4. CASE Has("size_band", observed) \/ count = None
  BY <1>2, <1>4
<1>5. CASE ~ (Has("size_band", observed) \/ count = None)
  <2>1. WithBand(cfg, observed, count) = observed \cup {band}
    BY <1>2, <1>5
  <2> QED
    BY <1>1, <1>3, <1>5, <2>1
<1> QED
  BY <1>4, <1>5

\* The tables hold what their columns say, and a score is a percentage of
\* points that are all in the weights file (store/migrations/0001_init.sql;
\* engine.go: Score).
THEOREM ScoreRunsTypes == Spec => []TypeOK
<1>1. ScoreInv => TypeOK
  <2> SUFFICES ASSUME ScoreInv PROVE TypeOK
    OBVIOUS
  <2>1. SignalsTypeOK /\ reviews \in [Businesses -> Counts \cup {None}]
    BY DEF ScoreInv, CountsOf
  <2>2. \A p \in Scorers : scorer[p] = Resting \/ scorer[p].queue # {}
    BY DEF ScoreInv, ScorersInv, Computing
  <2>3. ASSUME NEW r \in Rows
        PROVE  /\ scores[r].result.score \in 0..100
               /\ scores[r].result.checkable \in 0 .. MaxPossible(scores[r].weights)
    BY RowIs, ScoreIsHonest
  <2> QED
    BY <2>1, <2>2, <2>3 DEF TypeOK
<1> QED
  BY <1>1, ScoreInvariant, PTL

\* A saved score is a function of the history of its business, whichever
\* commands ran beside it (cli/score.go: scoreAll; store/signals.go:
\* CurrentSignals).
THEOREM ScoresAreReproducible == Spec => []ScoresReproducible
<1>1. ScoreInv => ScoresReproducible
  BY RowIs DEF ScoresReproducible
<1> QED
  BY <1>1, ScoreInvariant, PTL

\* No weights file makes a score look better founded than it is (engine.go:
\* ruleIsCheckable, uncheckedSignals).
THEOREM ConfidenceIsHonest == Spec => []HonestConfidence
<1>1. ScoreInv => HonestConfidence
  BY RowIs, ScoreIsHonest DEF HonestConfidence
<1> QED
  BY <1>1, ScoreInvariant, PTL

\* After the homepage a visit asks for few pages, of the site, each once and none
\* of them the homepage (website.go: Collect).
THEOREM VisitsArePolite == Spec => []VisitIsPolite
<1>1. VisitInv => VisitIsPolite
  <2> SUFFICES ASSUME VisitInv, visit.stage # "idle"
               PROVE  /\ Len(visit.asked) <= MaxContactPages
                      /\ IsInjective(visit.asked)
                      /\ Home \notin ToSet(visit.asked)
                      /\ \A url \in ToSet(visit.asked) :
                           \E l \in ToSet(visit.read[1].links) \cup ToSet(Fallback) :
                             l.own /\ l.url = url
    BY DEF VisitIsPolite
  <2>1. Reading \/ Reporting
    BY NobodyVisits DEF VisitInv
  <2> QED
    BY <2>1 DEF Reading, Reporting, Asking
<1> QED
  BY <1>1, ScoreInvariant, PTL DEF ScoreInv

\* A report is what the pages say together (extract.go: Merge, Signals).
THEOREM ReportsAreTheSite == Spec => []ReportIsTheSite
<1>1. VisitInv => ReportIsTheSite
  <2> SUFFICES ASSUME VisitInv PROVE ReportIsTheSite
    OBVIOUS
  <2>1. CASE visit.stage = "report" /\ visit.read # <<>>
    <3>1. Reporting
      BY <2>1, InReport
    <3>2. PICK f : Findings(f) /\ Merged(f, visit.read) /\ visit.said = Report(f)
      BY <2>1, <3>1 DEF Reporting
    <3>3. visit.read \in Seq(Pages)
      BY <3>1 DEF Reporting, Asking
    <3> QED
      BY <2>1, <3>2, <3>3, ReportIsThePages
  <2>2. CASE ~ (visit.stage = "report" /\ visit.read # <<>>)
    BY <2>2 DEF ReportIsTheSite
  <2> QED
    BY <2>1, <2>2
<1> QED
  BY <1>1, ScoreInvariant, PTL DEF ScoreInv

\* Of one business and one weights file, a command that begins later knows no
\* less (cli/score.go: scoreAll; engine.go: ruleIsCheckable).
THEOREM ConfidenceGrows == Spec => []ConfidenceNeverFalls
<1>1. ScoreInv => ConfidenceNeverFalls
  <2> SUFFICES ASSUME ScoreInv, NEW i \in Rows, NEW j \in Rows,
                      scores[i].business = scores[j].business,
                      scores[i].weights = scores[j].weights,
                      scores[j].began >= i
               PROVE  scores[i].result.checkable <= scores[j].result.checkable
    BY DEF ConfidenceNeverFalls
  <2> DEFINE cfg == scores[i].weights
             b == scores[i].business
             old == WithBand(cfg, History(b, scores[i].asOf), scores[i].reviews)
             new == WithBand(cfg, History(b, scores[j].asOf), scores[j].reviews)
  <2>1. /\ scores[i].asOf \in Nat /\ scores[j].asOf \in Nat /\ cfg \in WeightsFile
        /\ scores[i].asOf <= scores[j].asOf
        /\ scores[i].reviews # None => scores[j].reviews # None
    <3>1. i \in 1 .. scores[j].began
      <4>1. i \in Nat /\ i >= 1 /\ scores[j].began \in Nat
        BY RowIs, RowsAre DEF ScoreInv, RowsInv
      <4> QED
        BY <4>1
    <3> QED
      BY <3>1, RowIs
  <2>2. ASSUME NEW t, Has(t, old) PROVE Has(t, new)
    <3>1. Has(t, History(b, scores[i].asOf)) => Has(t, History(b, scores[j].asOf))
      BY <2>1, HistoryKnows
    <3> QED
      BY <2>1, <2>2, <3>1, BandAdds
  <2>3. /\ scores[i].result.checkable = Points(cfg, Checked(cfg, old))
        /\ scores[j].result.checkable = Points(cfg, Checked(cfg, new))
    BY RowIs, ScoreGives
  <2> HIDE DEF old, new, cfg
  <2>4. Checked(cfg, old) \subseteq Checked(cfg, new)
    BY <2>2 DEF Checked, Checkable
  <2>5. /\ Checked(cfg, old) \in SUBSET DOMAIN cfg.rules
        /\ Checked(cfg, new) \in SUBSET DOMAIN cfg.rules
        /\ \A k \in Checked(cfg, new) : cfg.rules[k].points > 0
    BY DEF Checked, Paying
  <2>6. Points(cfg, Checked(cfg, old)) <= Points(cfg, Checked(cfg, new))
    BY <2>1, <2>4, <2>5, PointsCompare
  <2> QED
    BY <2>3, <2>6
<1> QED
  BY <1>1, ScoreInvariant, PTL

\* The score shown is out of date only when two commands overlapped
\* (cli/score.go: scoreAll; store/scores.go: SaveScore).
THEOREM OnlyOverlapsOutdate == Spec => []OutdatedOnlyByOverlap
<1>1. ScoreInv => OutdatedOnlyByOverlap
  <2> SUFFICES ASSUME ScoreInv, NEW b \in Businesses,
                      NEW i \in Rows, scores[i].business = b,
                      scores[Latest(b)].asOf < scores[i].asOf
               PROVE  scores[Latest(b)].began < i /\ scores[i].began < Latest(b)
    BY DEF OutdatedOnlyByOverlap
  <2> DEFINE rows == {r \in DOMAIN scores : scores[r].business = b}
             last == Latest(b)
  <2>1. Len(scores) \in Nat /\ Rows = 1 .. Len(scores) /\ Rows = DOMAIN scores
    BY RowsAre DEF ScoreInv, RowsInv, Rows
  <2>2. rows \subseteq 0 .. Len(scores) /\ i \in rows
    BY <2>1
  <2>3. last = Max(rows)
    BY DEF Latest
  <2> HIDE DEF last
  <2>4. last \in rows /\ i <= last
    <3> HIDE DEF rows
    <3> QED
      BY <2>1, <2>2, <2>3, MaxIsGreatest
  <2>5. last \in Rows /\ last \in Nat /\ i \in Nat /\ i >= 1
    BY <2>1, <2>4
  <2>6. /\ scores[i].asOf \in Nat /\ scores[last].asOf \in Nat
        /\ scores[i].began \in 0 .. i - 1 /\ scores[last].began \in 0 .. last - 1
        /\ \A k \in 1 .. scores[last].began : scores[k].asOf <= scores[last].asOf
    BY <2>5, RowIs
  <2>7. scores[i].began < last
    BY <2>4, <2>5, <2>6
  <2>8. ASSUME ~ (scores[last].began < i) PROVE FALSE
    <3>1. i \in 1 .. scores[last].began
      BY <2>5, <2>6, <2>8
    <3>2. scores[i].asOf <= scores[last].asOf /\ scores[last].asOf < scores[i].asOf
      BY <2>6, <3>1 DEF last
    <3> QED
      BY <2>6, <3>2
  <2> QED
    BY <2>7, <2>8 DEF last
<1> QED
  BY <1>1, ScoreInvariant, PTL

\* A condition in which nothing is nested is what its own test says.
LEMMA LeafIsTested ==
  ASSUME NEW known, NEW c \in Conditions, Nested(c) = {}
  PROVE  Evaluate(c, known) = Tested(c, known)
<1>1. c.all \in Seq(Conditions) /\ c.any \in Seq(Conditions) /\ c.not \in Seq(Conditions)
  BY NestedBelow
<1>2. ToSet(c.all) = {} /\ ToSet(c.any) = {} /\ ToSet(c.not) = {}
  BY DEF Nested
<1>3. ASSUME NEW s \in Seq(Conditions), ToSet(s) = {} PROVE s = <<>>
  <2>1. Len(s) = 0
    <3>1. ASSUME Len(s) # 0 PROVE FALSE
      <4>1. 1 \in DOMAIN s
        BY <3>1
      <4> QED
        BY <1>3, <4>1 DEF ToSet
    <3> QED
      BY <3>1
  <2> QED
    BY <2>1
<1>4. c.all = <<>> /\ c.any = <<>> /\ c.not = <<>>
  BY <1>1, <1>2, <1>3
<1> QED
  BY <1>4, EvaluateUnfolds

\* The weights ask a person something the review count does not tell.
Asks(cfg) == cfg.manual \notin {"", "size_band"}

\* The band that reviews stand in for settles no manual check but one for a
\* band.
LEMMA AskingIs ==
  ASSUME NEW cfg, NEW known, Asks(cfg)
  PROVE  /\ cfg.manual # "size_band"
         /\ NeedsManualCheck(cfg, known) <=>
              ~Has(cfg.manual, {s \in known : s.source \in cfg.clearedBy})
BY Zenon DEF Asks, NeedsManualCheck

\* Of the answers of trusted sources, what is known is the last of each source.
LEMMA AnswersAreKnown ==
  ASSUME NEW cfg, NEW b, NEW n \in Nat, NEW count, Asks(cfg)
  PROVE  LET answered == {k \in 1..n : /\ signals[k].fact.business = b
                                       /\ signals[k].fact.type = cfg.manual
                                       /\ signals[k].fact.source \in cfg.clearedBy}
             known == WithBand(cfg, History(b, n), count)
         IN  /\ NeedsManualCheck(cfg, known) <=> answered = {}
             /\ answered # {} => /\ Max(answered) \in answered
                                 /\ Told(Max(answered)) \in known
<1> DEFINE answered == {k \in 1..n : /\ signals[k].fact.business = b
                                     /\ signals[k].fact.type = cfg.manual
                                     /\ signals[k].fact.source \in cfg.clearedBy}
           known == WithBand(cfg, History(b, n), count)
           rows == {j \in 1..n : signals[j].fact.business = b /\ Standing(j, n)}
<1>1. History(b, n) = {Told(k) : k \in rows}
  BY HistoryRows
<1>2. \A k : Told(k).type = signals[k].fact.type /\ Told(k).source = signals[k].fact.source
  BY DEF Told
<1>3. \A s : s.type = cfg.manual => (s \in known <=> s \in History(b, n))
  BY BandAdds, AskingIs
<1> HIDE DEF known
<1>4. NeedsManualCheck(cfg, known) <=>
        ~ \E s \in known : s.type = cfg.manual /\ s.source \in cfg.clearedBy
  BY AskingIs DEF Has, ValuesOf
<1>5. ASSUME NEW s \in known, s.type = cfg.manual, s.source \in cfg.clearedBy
      PROVE  answered # {}
  <2>1. PICK k \in rows : s = Told(k)
    BY <1>1, <1>3, <1>5
  <2> QED
    BY <1>2, <1>5, <2>1
<1>6. ASSUME answered # {}
      PROVE  Max(answered) \in answered /\ Told(Max(answered)) \in known
  <2> DEFINE last == Max(answered)
  <2>1. answered \subseteq 0..n
    <3>1. answered \subseteq 1..n
      OBVIOUS
    <3>2. 1..n \subseteq 0..n
      OBVIOUS
    <3> HIDE DEF answered
    <3> QED
      BY <3>1, <3>2
  <2>2. last \in answered /\ \A k \in answered : k <= last
    <3> HIDE DEF answered
    <3> QED
      BY <1>6, <2>1, MaxIsGreatest
  <2> HIDE DEF last
  <2>3. \A l \in 1..n : signals[l].fact = signals[last].fact => l <= last
    BY <2>2
  <2>4. last \in rows
    BY <2>2, <2>3 DEF Standing
  <2> QED
    BY <1>1, <1>2, <1>3, <2>2, <2>4 DEF last
<1>7. ASSUME answered # {} PROVE ~ NeedsManualCheck(cfg, known)
  <2>1. PICK k : k = Max(answered)
    OBVIOUS
  <2>2. k \in answered /\ Told(k) \in known
    BY <1>6, <1>7, <2>1
  <2> QED
    BY <1>2, <1>4, <2>2
<1> HIDE DEF answered
<1>8. (NeedsManualCheck(cfg, known) <=> answered = {}) /\ (answered # {} => Max(answered) \in answered /\ Told(Max(answered)) \in known)
  BY <1>4, <1>5, <1>6, <1>7
<1> QED
  BY <1>8 DEF answered, known

\* The manual check is settled by the first answer of whoever the weights trust,
\* for good, and the last such answer decides what it pays (engine.go:
\* hasFromSources, evaluateSignal).
THEOREM AdsAreSettled == Spec => []PersonSettlesAds
<1>1. ASSUME ScoreInv, NEW r \in Rows PROVE
        LET answered == {k \in 1 .. scores[r].asOf :
                           /\ signals[k].fact.business = scores[r].business
                           /\ signals[k].fact.type = scores[r].weights.manual
                           /\ signals[k].fact.source \in scores[r].weights.clearedBy}
            rules == scores[r].weights.rules
        IN  scores[r].weights.manual \notin {"", "size_band"} =>
            /\ scores[r].result.needs <=> answered = {}
            /\ answered # {} /\ signals[Max(answered)].value = "true" =>
                 \A i \in DOMAIN rules :
                   rules[i].when = Passes(scores[r].weights.manual, {"true"})
                     => i \in scores[r].result.matched
  <2> DEFINE cfg == scores[r].weights
             b == scores[r].business
             n == scores[r].asOf
             known == WithBand(cfg, History(b, n), scores[r].reviews)
             answered == {k \in 1..n : /\ signals[k].fact.business = b
                                       /\ signals[k].fact.type = cfg.manual
                                       /\ signals[k].fact.source \in cfg.clearedBy}
  <2> SUFFICES ASSUME Asks(cfg)
               PROVE  /\ scores[r].result.needs <=> answered = {}
                      /\ answered # {} /\ signals[Max(answered)].value = "true" =>
                           \A i \in DOMAIN cfg.rules :
                             cfg.rules[i].when = Passes(cfg.manual, {"true"})
                               => i \in scores[r].result.matched
    BY Zenon DEF Asks
  <2>1. n \in Nat /\ cfg \in WeightsFile
    BY <1>1, RowIs
  <2>2. /\ scores[r].result.matched = Matched(cfg, known)
        /\ scores[r].result.needs = NeedsManualCheck(cfg, known)
    <3>1. scores[r].result = Score(cfg, History(b, n), scores[r].reviews)
      BY <1>1, RowIs
    <3>2. scores[r].result.matched = Matched(cfg, known)
      BY <3>1, ScoreGives
    <3>3. scores[r].result.needs = NeedsManualCheck(cfg, known)
      BY <3>1, ScoreGives
    <3> QED
      BY <3>2, <3>3
  <2>3. /\ NeedsManualCheck(cfg, known) <=> answered = {}
        /\ answered # {} => Max(answered) \in answered /\ Told(Max(answered)) \in known
    BY <2>1, AnswersAreKnown
  <2>4. ASSUME answered # {}, signals[Max(answered)].value = "true",
               NEW i \in DOMAIN cfg.rules, cfg.rules[i].when = Passes(cfg.manual, {"true"})
        PROVE  i \in Matched(cfg, known)
    <3>1. PICK c : c = cfg.rules[i].when
      OBVIOUS
    <3>2. PICK s : s = Told(Max(answered))
      OBVIOUS
    <3>3. s \in known /\ s.type = cfg.manual /\ s.value = "true"
      BY <2>3, <2>4, <3>2 DEF Told
    <3>4. /\ c.signal = cfg.manual /\ c.tests = {{"true"}} /\ ~c.absent /\ ~c.present
          /\ c.all = <<>> /\ c.any = <<>> /\ c.not = <<>>
      BY <2>4, <3>1 DEF Passes, Blank
    <3>5. c \in Conditions
      BY <2>1, <3>1, RulesAre
    <3> HIDE DEF known, answered, cfg
    <3>6. Nested(c) = {}
      <4>1. <<>> \in Seq(Conditions) /\ ToSet(<<>>) = {}
        BY DEF ToSet
      <4> QED
        BY <3>4, <4>1 DEF Nested
    <3>7. "true" \in ValuesOf(cfg.manual, known)
      BY <3>3 DEF ValuesOf
    <3>8. Tested(c, known)
      BY <3>4, <3>7 DEF Tested
    <3> QED
      BY <3>1, <3>5, <3>6, <3>8, LeafIsTested DEF Matched
  <2> QED
    BY <2>2, <2>3, <2>4
<1>2. ScoreInv => PersonSettlesAds
  BY <1>1 DEF PersonSettlesAds
<1> QED
  BY <1>2, ScoreInvariant, PTL

\* A score pays for an absence only if nothing of the kind was ever on record
\* (engine.go: evaluateSignal; store/signals.go: CurrentSignals).
THEOREM AbsenceIsHistory == Spec => []PaidAbsenceIsHistory
<1>1. ScoreInv => PaidAbsenceIsHistory
  <2> SUFFICES ASSUME ScoreInv, NEW r \in Rows, NEW i \in scores[r].result.matched,
                      NEW c \in ToSet(scores[r].weights.rules[i].when.all),
                      c.absent, Nested(c) = {},
                      NEW k \in 1 .. scores[r].asOf,
                      signals[k].fact.business = scores[r].business,
                      signals[k].fact.type = c.signal
               PROVE  FALSE
    BY DEF PaidAbsenceIsHistory
  <2> DEFINE cfg == scores[r].weights
             b == scores[r].business
             n == scores[r].asOf
             known == WithBand(cfg, History(b, n), scores[r].reviews)
             when == cfg.rules[i].when
  <2>1. n \in Nat /\ cfg \in WeightsFile /\ scores[r].result.matched = Matched(cfg, known)
    BY RowIs, ScoreGives
  <2>2. i \in DOMAIN cfg.rules /\ Evaluate(when, known)
    BY <2>1 DEF Matched
  <2>3. when \in Conditions
    BY <2>1, <2>2, RulesAre
  <2>4. Has(c.signal, known)
    <3>1. Has(c.signal, History(b, n))
      BY <2>1, HistoryKnows
    <3> QED
      BY <3>1, BandAdds
  <2>5. c \in ToSet(when.all)
    OBVIOUS
  <2> HIDE DEF known, when, cfg
  <2>6. c \in Conditions
    BY <2>3, <2>5, NestedBelow
  <2>7. when.all # <<>>
    BY <2>5 DEF ToSet
  <2>8. Evaluate(c, known)
    BY <2>2, <2>3, <2>5, <2>7, EvaluateUnfolds
  <2>9. Tested(c, known)
    BY <2>6, <2>8, LeafIsTested
  <2> QED
    BY <2>4, <2>9 DEF Tested, Has
<1> QED
  BY <1>1, ScoreInvariant, PTL
=============================================================================
