------------------------------ MODULE Scoring ------------------------------
(***************************************************************************)
(* The scoring engine (internal/scoring/engine.go, config.go): what a      *)
(* weights file and the current signals of a business give.  A signal is a *)
(* record [source, type, value].  A value test (equals, one_of, at_least,  *)
(* at_most) is the set of values that pass it.  A weights file is a record *)
(* [rules, bands, manual, clearedBy, minConfidence], a rule a record       *)
(* [points, when], its identity its place in the file.  Evidence, labels  *)
(* and the wording of the explanation are left out.                        *)
(***************************************************************************)
EXTENDS Integers, SequencesExt, FiniteSetsExt

CONSTANTS
  SignalTypes,  (* the closed vocabulary of model.signalSpecs                *)
  Trustable,    (* the sources a weights file may trust                      *)
  Conditions,   (* what a rule may test, with all that is nested in it       *)
  Depth,        (* condition -> how many levels are nested in it             *)
  None          (* no review count                                           *)

----------------------------------------------------------------------------
(* Conditions.  One may hold both a signal test and nested conditions, in   *)
(* which case the nested ones decide, all before any before not.            *)

Blank == [signal |-> "", present |-> FALSE, absent |-> FALSE, tests |-> {},
          all |-> <<>>, any |-> <<>>, not |-> <<>>]

Passes(type, test) == [Blank EXCEPT !.signal = type, !.tests = {test}]
Present(type) == [Blank EXCEPT !.signal = type, !.present = TRUE]
Absent(type) == [Blank EXCEPT !.signal = type, !.absent = TRUE]
AllOf(subs) == [Blank EXCEPT !.all = subs]
AnyOf(subs) == [Blank EXCEPT !.any = subs]
Not(sub) == [Blank EXCEPT !.not = <<sub>>]

Nested(c) == ToSet(c.all) \cup ToSet(c.any) \cup ToSet(c.not)

\* A condition is a tree, read from a file.
ASSUME ConditionsNest ==
  /\ Depth \in [Conditions -> Nat]
  /\ \A c \in Conditions :
       /\ {c.all, c.any, c.not} \subseteq Seq(Conditions)
       /\ \A sub \in Nested(c) : Depth[sub] < Depth[c]

Valid[c \in Conditions] ==
  /\ c.signal # "" \/ Nested(c) # {}
  /\ c.signal # "" => /\ c.signal \in SignalTypes
                      /\ c.present \/ c.absent \/ c.tests # {}
                      /\ ~(c.present /\ c.absent)
  /\ \A sub \in Nested(c) : Valid[sub]

ValuesOf(type, known) == {s.value : s \in {k \in known : k.type = type}}
Has(type, known) == ValuesOf(type, known) # {}

\* Faulty variant: a type is absent as long as nobody said "true" of it.
FaultyTested(c, known) ==
  LET values == ValuesOf(c.signal, known)
  IN  IF c.absent THEN "true" \notin values
      ELSE IF c.present THEN values # {}
      ELSE \E v \in values : \A test \in c.tests : v \in test

\* evaluateSignal: one current value that passes every test is enough.
Tested(c, known) ==
  LET values == ValuesOf(c.signal, known)
  IN  IF c.absent THEN values = {}
      ELSE IF c.present THEN values # {}
      ELSE \E v \in values : \A test \in c.tests : v \in test

Evaluate(c, known) ==
  LET holds[d \in Conditions] ==
        IF d.all # <<>> THEN \A sub \in ToSet(d.all) : holds[sub]
        ELSE IF d.any # <<>> THEN \E sub \in ToSet(d.any) : holds[sub]
        ELSE IF d.not # <<>> THEN \A sub \in ToSet(d.not) : ~holds[sub]
        ELSE Tested(d, known)
  IN  holds[c]

\* Whether a condition can hold because something is missing.
TestsAbsence[c \in Conditions] ==
  c.absent \/ c.not # <<>> \/ \E sub \in ToSet(c.all) \cup ToSet(c.any) : TestsAbsence[sub]

TypesOf[c \in Conditions] ==
  ({c.signal} \ {""}) \cup UNION {TypesOf[sub] : sub \in Nested(c)}

----------------------------------------------------------------------------
(* The weights.                                                             *)

ASSUME ManualIsTrustable == "manual" \in Trustable

Rule == [points : Int \ {0}, when : {c \in Conditions : Valid[c]}]

WeightsFile ==
  [rules : Seq(Rule) \ {<<>>}, bands : [micro : Int, smb : Int, mid : Int],
   manual : SignalTypes \cup {""}, clearedBy : SUBSET Trustable, minConfidence : 0..100]

ValidWeights(cfg) ==
  /\ cfg \in WeightsFile
  /\ cfg.bands.micro <= cfg.bands.smb /\ cfg.bands.smb <= cfg.bands.mid

\* Unless the file says who settles the manual check, a person does.
Loaded(cfg) ==
  IF cfg.manual # "" /\ cfg.clearedBy = {} THEN [cfg EXCEPT !.clearedBy = {"manual"}] ELSE cfg

BandFor(cfg, reviews) ==
  IF reviews < cfg.bands.micro THEN "micro"
  ELSE IF reviews < cfg.bands.smb THEN "smb"
  ELSE IF reviews < cfg.bands.mid THEN "mid" ELSE "large"

Points(cfg, rules) ==
  SumFunctionOnSet([i \in DOMAIN cfg.rules |-> cfg.rules[i].points], rules)

Paying(cfg) == {i \in DOMAIN cfg.rules : cfg.rules[i].points > 0}

MaxPossible(cfg) == Points(cfg, Paying(cfg))

----------------------------------------------------------------------------
(* The score.                                                               *)

\* Reviews stand in for a size band nobody recorded.
WithBand(cfg, known, reviews) ==
  IF Has("size_band", known) \/ reviews = None THEN known
  ELSE known \cup {[source |-> "places", type |-> "size_band", value |-> BandFor(cfg, reviews)]}

\* Faulty variant: a rule can be checked once every type it names is known.
FaultyCheckable(cfg, i, known) == \A type \in TypesOf[cfg.rules[i].when] : Has(type, known)

Checkable(cfg, i, known) ==
  \/ TestsAbsence[cfg.rules[i].when]
  \/ \E type \in TypesOf[cfg.rules[i].when] : Has(type, known)

\* math.Round of part out of whole, in percent, for part and whole that are
\* not negative.
Percent(part, whole) == (200 * part + whole) \div (2 * whole)

\* Faulty variant: penalties may take a score below zero.
FaultyNormalized(raw, max) == IF max = 0 THEN 0 ELSE Min({Percent(raw, max), 100})

Normalized(raw, max) ==
  IF max = 0 \/ raw < 0 THEN 0 ELSE Min({Percent(raw, max), 100})

\* Faulty variant: whoever answered, the question is settled.
FaultyNeedsManualCheck(cfg, known) == cfg.manual # "" /\ ~Has(cfg.manual, known)

NeedsManualCheck(cfg, known) ==
  cfg.manual # "" /\ ~Has(cfg.manual, {s \in known : s.source \in cfg.clearedBy})

\* The types the unchecked rules wait for.
Unchecked(cfg, known) ==
  UNION {{t \in TypesOf[cfg.rules[i].when] : ~Has(t, known)} :
           i \in {j \in Paying(cfg) : ~Checkable(cfg, j, known)}}

Score(cfg, signals, reviews) ==
  LET known == WithBand(cfg, signals, reviews)
      matched == {i \in DOMAIN cfg.rules : Evaluate(cfg.rules[i].when, known)}
      raw == Points(cfg, matched)
  IN  [matched |-> matched,
       raw |-> raw,
       score |-> Normalized(raw, MaxPossible(cfg)),
       checkable |-> Points(cfg, {i \in Paying(cfg) : Checkable(cfg, i, known)}),
       needs |-> NeedsManualCheck(cfg, known),
       unchecked |-> Unchecked(cfg, known)]

LowConfidence(cfg, result) ==
  100 * result.checkable < cfg.minConfidence * Max({MaxPossible(cfg), 1})
=============================================================================
