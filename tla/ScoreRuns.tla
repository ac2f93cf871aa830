------------------------------ MODULE ScoreRuns ------------------------------
(***************************************************************************)
(* Enrich, the operator and the score command over one signals table       *)
(* (internal/cli/score.go, signal.go, store/scores.go): a visit reports    *)
(* what it read one signal at a time, the Ad Library and the operator add  *)
(* theirs, discover updates review counts, and score commands, several at  *)
(* once and each with its own weights, read the signals of a business in   *)
(* one statement and append its score in another.  The runs table is       *)
(* Enrich's; which businesses are listed is the catalogue's business.      *)
(***************************************************************************)
EXTENDS Signals, FiniteSets, Scoring, Website, Observers

CONSTANTS
  Scorers,     (* score commands                                            *)
  Site,        (* the business whose website is read                        *)
  Names,       (* business -> its name, as the Ad Library is asked for it   *)
  Archives,    (* the sets of advertisers the Ad Library may answer with    *)
  Entries,     (* what the operator may type, as [type, value]              *)
  Weights,     (* the weights files a command may load                      *)
  Counts,      (* the review counts discover may bring                      *)
  MaxAnswers,  (* bound: observations beside those of the visits             *)
  MaxScores    (* bound: scores saved or being computed                     *)

ASSUME WeightsAreValid == \A cfg \in Weights : ValidWeights(cfg)

ASSUME BusinessesAreListed ==
  Site \in Businesses /\ Businesses \subseteq Nat /\ None \notin Counts

\* The vocabulary holds whatever is observed.
ASSUME VocabularyHolds ==
  /\ {"website", "meta_ads", "manual"} \subseteq Sources
  /\ {"contact_email", "contact_form", "chat_widget", "automation_tag", "enterprise_marker",
      "response_time_hours", "robots_disallowed", "running_ads"} \subseteq Types
  /\ {"true", "false"} \subseteq Values
  /\ \A e \in Entries : ValidEntry(e.type, e.value) => e.type \in Types /\ e.value \in Values
  /\ \A page \in Pages :
       /\ (page.addresses \ Noise) \cup page.tags \cup page.marks \subseteq Values
       /\ \A p \in ToSet(page.promises) : Believable(p) => ToString(Hours(p)) \in Values

VARIABLES
  reviews,     (* businesses.review_count, or None                          *)
  scores,      (* the scores table, in id order                             *)
  scorer,      (* how far each score command is                             *)
  visits,      (* visits made so far                                        *)
  answers      (* observations made so far beside those of the visits       *)

vars == <<signals, visit, reviews, scores, scorer, visits, answers>>

Resting == [stage |-> "idle"]

Init ==
  /\ SignalsInit
  /\ visit = NoVisit
  /\ reviews = [b \in Businesses |-> None]
  /\ scores = <<>>
  /\ scorer = [p \in Scorers |-> Resting]
  /\ visits = 0
  /\ answers = 0

----------------------------------------------------------------------------
(* What is observed.                                                        *)

Visit ==
  /\ \/ visits < MaxVisits /\ visits' = visits + 1 /\ (ReadHome \/ HomeDisallowed)
     \/ visits' = visits /\ (ReadContactPage \/ SkipContactPage \/ FinishVisit)
  /\ UNCHANGED <<signals, reviews, scores, scorer, answers>>

\* The observation of business b, as RecordSignal is given it.
ObservationOf(b, said) ==
  [fact |-> [business |-> b, source |-> said.source, type |-> said.type], value |-> said.value]

\* RecordSignals: one transaction per signal.
RecordReport ==
  /\ visit.stage = "report"
  /\ RecordSignal(ObservationOf(Site, visit.said[visit.next]))
  /\ visit' = IF visit.next = Len(visit.said) THEN NoVisit ELSE [visit EXCEPT !.next = @ + 1]
  /\ UNCHANGED <<reviews, scores, scorer, visits, answers>>

\* Ctrl-C, a kill or a failing statement: the rest is not recorded.
DropVisit ==
  /\ visit.stage # "idle"
  /\ visit' = NoVisit
  /\ UNCHANGED <<signals, reviews, scores, scorer, visits, answers>>

\* metaads.Collect, for a business that has a name to search on.
AskAdLibrary ==
  /\ answers < MaxAnswers
  /\ \E b \in Businesses, ads \in Archives :
       Names[b] # <<>> /\ RecordSignal(ObservationOf(b, AdSignal(Names[b], ads)))
  /\ answers' = answers + 1
  /\ UNCHANGED <<visit, reviews, scores, scorer, visits>>

\* prospect signal.
Enter ==
  /\ answers < MaxAnswers
  /\ \E b \in Businesses, e \in Entries :
       ValidEntry(e.type, e.value) /\ RecordSignal(ObservationOf(b, ManualSignal(e.type, e.value)))
  /\ answers' = answers + 1
  /\ UNCHANGED <<visit, reviews, scores, scorer, visits>>

\* UpsertBusiness with a review count, of which the newest is kept.
Discover ==
  /\ answers < MaxAnswers
  /\ \E b \in Businesses, n \in Counts : reviews' = [reviews EXCEPT ![b] = n]
  /\ answers' = answers + 1
  /\ UNCHANGED <<signals, visit, scores, scorer, visits>>

----------------------------------------------------------------------------
(* The score command.                                                       *)

\* BusinessesToScore: the rows are read here, their signals later.
StartScore(p) ==
  /\ scorer[p] = Resting
  /\ Len(scores) + Cardinality({q \in Scorers : scorer[q] # Resting}) < MaxScores
  /\ \E cfg \in Weights :
       scorer' = [scorer EXCEPT ![p] =
         [stage |-> "read", weights |-> Loaded(cfg), queue |-> Businesses,
          reviews |-> reviews, began |-> Len(scores), known |-> {}, asOf |-> 0]]
  /\ UNCHANGED <<signals, visit, reviews, scores, visits, answers>>

\* Faulty variant: superseded rows are read too.
FaultyCurrentSignals(b) ==
  {[source |-> signals[k].fact.source, type |-> signals[k].fact.type, value |-> signals[k].value] :
     k \in {j \in DOMAIN signals : signals[j].fact.business = b}}

CurrentSignals(b) ==
  {[source |-> signals[k].fact.source, type |-> signals[k].fact.type, value |-> signals[k].value] :
     k \in {j \in DOMAIN signals : signals[j].fact.business = b /\ ~signals[j].superseded}}

NextBusiness(p) == Min(scorer[p].queue)

ReadSignals(p) ==
  /\ scorer[p].stage = "read"
  /\ scorer' = [scorer EXCEPT ![p].stage = "save", ![p].asOf = Len(signals),
                              ![p].known = CurrentSignals(NextBusiness(p))]
  /\ UNCHANGED <<signals, visit, reviews, scores, visits, answers>>

\* Appended, never updated.
SaveScore(p) ==
  /\ scorer[p].stage = "save"
  /\ LET s == scorer[p]
         b == NextBusiness(p)
     IN  /\ scores' = Append(scores,
              [business |-> b, weights |-> s.weights, reviews |-> s.reviews[b],
               asOf |-> s.asOf, began |-> s.began,
               result |-> Score(s.weights, s.known, s.reviews[b])])
         /\ scorer' = [scorer EXCEPT ![p] =
              IF s.queue = {b} THEN Resting
              ELSE [s EXCEPT !.stage = "read", !.queue = @ \ {b}]]
  /\ UNCHANGED <<signals, visit, reviews, visits, answers>>

\* Ctrl-C, a kill, or a failing statement.
StopScore(p) ==
  /\ scorer[p] # Resting
  /\ scorer' = [scorer EXCEPT ![p] = Resting]
  /\ UNCHANGED <<signals, visit, reviews, scores, visits, answers>>

\* Faulty variant: some row of the business.
FaultyLatest(b) == Min({r \in DOMAIN scores : scores[r].business = b})

\* v_latest_scores: the highest id of a business that has a score.
Latest(b) == Max({r \in DOMAIN scores : scores[r].business = b})

Next ==
  \/ Visit \/ RecordReport \/ DropVisit \/ AskAdLibrary \/ Enter \/ Discover
  \/ \E p \in Scorers : StartScore(p) \/ ReadSignals(p) \/ SaveScore(p) \/ StopScore(p)

Spec == Init /\ [][Next]_vars

----------------------------------------------------------------------------
Rows == DOMAIN scores

TypeOK ==
  /\ SignalsTypeOK
  /\ reviews \in [Businesses -> Counts \cup {None}]
  /\ \A p \in Scorers : scorer[p] = Resting \/ scorer[p].queue # {}
  /\ \A r \in Rows : /\ scores[r].result.score \in 0..100
                     /\ scores[r].result.checkable \in 0 .. MaxPossible(scores[r].weights)

\* What the table said of business b when it had n rows, told from the history
\* alone: of a fact the last value, or all of them.
History(b, n) ==
  LET about(f) == {k \in 1..n : signals[k].fact = f}
      facts == {f \in {signals[k].fact : k \in 1..n} : f.business = b}
      values(f) == IF f \in MultiFact THEN {signals[k].value : k \in about(f)}
                                      ELSE {signals[Max(about(f))].value}
  IN  UNION {{[source |-> f.source, type |-> f.type, value |-> v] : v \in values(f)} : f \in facts}

\* Every saved score can be computed again from the history of the signals,
\* whatever was recorded or superseded since (store/signals.go:
\* CurrentSignals; cli/score.go: scoreAll).
ScoresReproducible ==
  \A r \in Rows :
    scores[r].result = Score(scores[r].weights, History(scores[r].business, scores[r].asOf),
                             scores[r].reviews)

\* A score never exceeds the share of the points that could be checked, and
\* a share below the whole comes with the names of what is missing
\* (engine.go: ruleIsCheckable, uncheckedSignals).
HonestConfidence ==
  \A r \in Rows :
    LET max == MaxPossible(scores[r].weights)
        result == scores[r].result
    IN  /\ IF max = 0 THEN result.score = 0 ELSE result.score <= Percent(result.checkable, max)
        /\ result.checkable < max <=> result.unchecked # {}

\* Under the same weights a command that begins after a score was saved never
\* knows less: signals change and are never forgotten (cli/score.go: scoreAll;
\* store/signals.go: RecordSignal).
ConfidenceNeverFalls ==
  \A i, j \in Rows :
    /\ scores[i].business = scores[j].business
    /\ scores[i].weights = scores[j].weights
    /\ scores[j].began >= i
    => scores[i].result.checkable <= scores[j].result.checkable

\* The score v_latest_scores shows was computed from older signals than
\* another one only if the commands that saved the two ran at the same time
\* (cli/score.go: scoreAll; store/scores.go: SaveScore).
OutdatedOnlyByOverlap ==
  \A b \in Businesses : \A i \in {r \in Rows : scores[r].business = b} :
    scores[Latest(b)].asOf < scores[i].asOf =>
      scores[Latest(b)].began < i /\ scores[i].began < Latest(b)

\* Only an answer of a trusted source settles the manual check, once given it
\* settles it for good, and its "yes" pays whatever other sources say
\* (engine.go: hasFromSources, evaluateSignal; README.md:436-445).
PersonSettlesAds ==
  \A r \in Rows :
    LET answered == {k \in 1 .. scores[r].asOf :
                       /\ signals[k].fact.business = scores[r].business
                       /\ signals[k].fact.type = scores[r].weights.manual
                       /\ signals[k].fact.source \in scores[r].weights.clearedBy}
        rules == scores[r].weights.rules
    IN  scores[r].weights.manual \notin {"", "size_band"} =>
        /\ scores[r].result.needs <=> answered = {}
        /\ answered # {} /\ signals[Max(answered)].value = "true" =>
             \A i \in DOMAIN rules :
               rules[i].when = Passes(scores[r].weights.manual, {"true"})
                 => i \in scores[r].result.matched

\* What an absence pays for was never on record of that business: the absence
\* of a tool is not recorded, so nothing can take back that it was once seen
\* (extract.go: Signals; engine.go: evaluateSignal).
PaidAbsenceIsHistory ==
  \A r \in Rows : \A i \in scores[r].result.matched :
    \A c \in ToSet(scores[r].weights.rules[i].when.all) :
      c.absent /\ Nested(c) = {} =>
                  \A k \in 1 .. scores[r].asOf :
                    signals[k].fact.business = scores[r].business => signals[k].fact.type # c.signal
=============================================================================
