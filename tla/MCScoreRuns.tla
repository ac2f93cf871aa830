----------------------------- MODULE MCScoreRuns -----------------------------
(***************************************************************************)
(* A small instance of ScoreRuns: one business whose homepage and contact  *)
(* page change, two score commands and the default weights.  The          *)
(* assumptions check the engine over every condition and every set of      *)
(* signals of a bounded size.                                              *)
(***************************************************************************)
EXTENDS ScoreRuns

CONSTANTS p1, p2

MCScorers == {p1, p2}
Either == Permutations(MCScorers)
MCSources == {"website", "meta_ads", "manual"}
MCTypes == {"running_ads", "contact_form", "chat_widget", "automation_tag", "enterprise_marker",
            "response_time_hours", "contact_email", "size_band", "hiring_lead_role",
            "robots_disallowed"}
MCMultiTypes == {"automation_tag", "enterprise_marker"}
MCValues == {"true", "false", "hubspot", "24", "48", "a@", "b@"}

\* weights.default.yaml.
DefaultRules ==
  << [points |-> 40, when |-> Passes("running_ads", {"true"})],
     [points |-> 20, when |-> AllOf(<<Passes("contact_form", {"true"}), Absent("automation_tag"),
                                      Absent("enterprise_marker")>>)],
     [points |-> 15, when |-> Passes("response_time_hours", {"24", "48"})],
     [points |-> 15, when |-> Passes("hiring_lead_role", {"true"})],
     [points |-> 10, when |-> Passes("size_band", {"smb"})],
     [points |-> 10, when |-> Present("contact_email")],
     [points |-> -25, when |-> Present("enterprise_marker")],
     [points |-> -5, when |-> Passes("chat_widget", {"true"})] >>

Default ==
  [rules |-> DefaultRules, bands |-> [micro |-> 5, smb |-> 150, mid |-> 1000],
   manual |-> "running_ads", clearedBy |-> {"manual"}, minConfidence |-> 70]

MCWeights == {Default}

MCNames == <<<<"acme">>>>
MCArchives == {{<<"bolt">>, <<>>}, {<<"bolt">>, <<"acme", "ltd">>}}
MCEntries == {[type |-> "running_ads", value |-> v] : v \in {"true", "yes"}}

Page == [addresses |-> {}, forms |-> {}, widgets |-> {}, tags |-> {}, marks |-> {},
         promises |-> <<>>, links |-> <<>>]
Contact(url) == [url |-> url, contactish |-> TRUE, own |-> TRUE]
Offsite == [url |-> "/elsewhere", contactish |-> TRUE, own |-> FALSE]
Form == [fields |-> {"email", "textarea"}, contactish |-> FALSE, searchish |-> FALSE]

TheSite ==
  [url \in {"/", "/contact", "/contact-us", "/elsewhere"} |->
     CASE url = "/" ->
            {[Page EXCEPT !.links = <<Contact("/contact"), Contact("/"), Offsite, Contact("/contact")>>,
                          !.addresses = {"noreply@", "b@"}, !.promises = <<[n |-> 1, unit |-> "day"]>>],
             [Page EXCEPT !.widgets = {"drift"}, !.tags = {"hubspot"}]}
       [] url = "/contact" ->
            {[Page EXCEPT !.forms = {Form}, !.addresses = {"a@"},
                          !.promises = <<[n |-> 90, unit |-> "day"], [n |-> 48, unit |-> "hour"]>>]}
       [] OTHER -> {}]

\* TLC evaluates a definition once, but what a constant is replaced by each time.
MCPagesAt == TheSite
MCFallback == <<Contact("/contact"), Contact("/contact-us")>>
MCNoise == {"noreply@"}
MCRankOf == [e \in {"noreply@", "a@", "b@"} |-> IF e = "a@" THEN 1 ELSE IF e = "b@" THEN 2 ELSE 3]

----------------------------------------------------------------------------
Leaves == UNION {{Passes(t, {"true"}), Present(t), Absent(t)} : t \in {"running_ads", "chat_widget"}}
Pairs == {AllOf(<<a, b>>) : a, b \in Leaves} \cup {AnyOf(<<a, b>>) : a, b \in Leaves}
Tests == Leaves \cup Pairs \cup {Not(c) : c \in Leaves \cup Pairs}
           \cup {AllOf(<<a, Not(b)>>) : a \in Pairs, b \in Leaves}

InFile == {r.when : r \in ToSet(DefaultRules)}
AllTests == Tests \cup InFile \cup UNION {Nested(c) : c \in InFile}
MCConditions == AllTests

MCDepth[c \in MCConditions] ==
  IF Nested(c) = {} THEN 0 ELSE 1 + Max({MCDepth[sub] : sub \in Nested(c)})

Knowns == SUBSET {ManualSignal(t, v) : t \in {"running_ads", "chat_widget"}, v \in {"true", "false"}}

\* A condition that holds is one that could be checked, so what a score counts
\* is among what its confidence counts (engine.go: evaluate, ruleIsCheckable).
ASSUME PaidIsCheckable ==
  \A c \in Tests : Valid[c] /\ \A known \in Knowns :
    Evaluate(c, known) => TestsAbsence[c] \/ \E t \in TypesOf[c] : Has(t, known)

Twice(cfg) == [cfg EXCEPT !.rules = [i \in DOMAIN @ |-> [@[i] EXCEPT !.points = 2 * @]]]

\* "Doubling every weight leaves the printed score unchanged" (README.md:495).
ASSUME DoublingKeepsScores ==
  \A c \in Leaves, d \in Pairs, m, n \in {-3, 1, 7} : \A known \in Knowns :
    LET cfg == [Default EXCEPT !.rules = <<[points |-> m, when |-> c], [points |-> n, when |-> d]>>]
    IN  Score(cfg, known, None).score = Score(Twice(cfg), known, None).score

\* Whatever else is known, without an answer on the ads a score is based on
\* some 64% of the points, and on the Ad Library alone it is provisional
\* (README.md:439-440, 500-504).
ASSUME AdsAreMostOfIt ==
  LET values == {ManualSignal(t, v) : t \in Types \ {"running_ads"}, v \in {"true", "24", "smb"}}
      result(known) == Score(Default, known, 10)
  IN  /\ Percent(result(values).checkable, MaxPossible(Default)) = 64
      /\ \A v \in {"true", "false"} : LowConfidence(Default, Score(Default, {[ManualSignal("running_ads", v) EXCEPT !.source = "meta_ads"]}, None))

BandOrder == <<"micro", "smb", "mid", "large">>

\* More reviews never mean a smaller band (config.go: BandFor).
ASSUME BandsGrow ==
  \A r \in 0..1001 : r < 1001 =>
    \E i, j \in 1..4 : BandOrder[i] = BandFor(Default, r) /\ BandOrder[j] = BandFor(Default, r + 1) /\ i <= j
=============================================================================
