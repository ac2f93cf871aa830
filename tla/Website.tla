------------------------------ MODULE Website ------------------------------
(***************************************************************************)
(* The website source (internal/source/website): what one page says, and a *)
(* visit, which reads the homepage and up to two contact pages and reports *)
(* the merged findings.  A page is a record of what its HTML holds that    *)
(* the extractor tells apart:                                              *)
(*   addresses  e-mail addresses, in links and in the text                 *)
(*   forms      records [fields, contactish, searchish]                    *)
(*   widgets, tags, marks   the fingerprints it matches                    *)
(*   promises   records [n, unit], one per pattern that matches            *)
(*   links      records [url, contactish, own], in document order          *)
(* What HTML is, the fingerprints and the evidence kept are left out.      *)
(***************************************************************************)
EXTENDS Naturals, SequencesExt, FiniteSetsExt

CONSTANTS
  Home,        (* the URL of the homepage: where the address on file leads   *)
  Fallback,    (* links to the conventional contact pages, as a sequence     *)
  PagesAt,     (* URL -> what may be found there, now or later               *)
  Noise,       (* addresses that are no way to reach the business            *)
  RankOf,      (* address -> its place in the alphabet                       *)
  MaxContactPages,
  MaxVisits    (* bound: visits the model makes                              *)

URLs == DOMAIN PagesAt
Pages == UNION {PagesAt[url] : url \in URLs}
Link == [url : URLs, contactish : BOOLEAN, own : BOOLEAN]

\* Whatever a page links to has pages, perhaps none; addresses are in
\* alphabetical order, no two in one place.
ASSUME PagesAreReadable ==
  /\ MaxContactPages \in Nat
  /\ Home \in URLs /\ Fallback \in Seq(Link)
  /\ \A page \in Pages :
       /\ page.links \in Seq(Link)
       /\ page.promises \in Seq([n : Nat, unit : {"hour", "day"}])
       /\ IsFiniteSet(page.tags) /\ IsFiniteSet(page.marks)
       /\ page.addresses \subseteq DOMAIN RankOf
  /\ RankOf \in [DOMAIN RankOf -> Nat] /\ IsInjective(RankOf)

VARIABLE visit (* how far the visit is                                       *)

NoVisit == [stage |-> "idle"]

----------------------------------------------------------------------------
(* extract.go: one page.                                                    *)

IsSearchForm(form) == "search" \in form.fields \/ form.searchish

\* handleForm: it takes a message, or an address and calls itself contact.
IsContactForm(form) ==
  /\ \/ "textarea" \in form.fields
     \/ "email" \in form.fields /\ form.contactish
  /\ ~IsSearchForm(form)

Hours(promise) == IF promise.unit = "day" THEN 24 * promise.n ELSE promise.n

Believable(promise) == promise.n > 0 /\ Hours(promise) <= 24 * 14

\* findResponsePromise: the first pattern that gives up to two weeks.
ResponseHours(promises) ==
  LET k == SelectInSeq(promises, Believable)
  IN  IF k = 0 THEN 0 ELSE Hours(promises[k])

Extract(page) ==
  [emails |-> page.addresses \ Noise,
   form |-> \E form \in page.forms : IsContactForm(form),
   widgets |-> page.widgets, tags |-> page.tags, marks |-> page.marks,
   hours |-> ResponseHours(page.promises),
   links |-> page.links]

\* Faulty variant: the homepage's promise is kept if it has one.
FaultyMerge(f, other) ==
  [emails |-> f.emails \cup other.emails, form |-> f.form \/ other.form,
   widgets |-> f.widgets \cup other.widgets, tags |-> f.tags \cup other.tags,
   marks |-> f.marks \cup other.marks,
   hours |-> IF f.hours > 0 THEN f.hours ELSE other.hours,
   links |-> f.links \o other.links]

\* Presence wins over absence, and the slowest promise over the others.
Merge(f, other) ==
  [emails |-> f.emails \cup other.emails, form |-> f.form \/ other.form,
   widgets |-> f.widgets \cup other.widgets, tags |-> f.tags \cup other.tags,
   marks |-> f.marks \cup other.marks,
   hours |-> Max({f.hours, other.hours}),
   links |-> f.links \o other.links]

Says(type, value) == [source |-> "website", type |-> type, value |-> value]
Truth(b) == IF b THEN "true" ELSE "false"
Each(type, values) == [k \in 1 .. Cardinality(values) |-> Says(type, SetToSeq(values)[k])]

First(emails) == CHOOSE e \in emails : \A d \in emails : RankOf[e] <= RankOf[d]

\* Findings.Signals: a form or a widget is reported present or absent, the
\* rest only when it is there.
Report(f) ==
  (IF f.emails = {} THEN <<>> ELSE <<Says("contact_email", First(f.emails))>>)
  \o <<Says("contact_form", Truth(f.form)), Says("chat_widget", Truth(f.widgets # {}))>>
  \o Each("automation_tag", f.tags) \o Each("enterprise_marker", f.marks)
  \o (IF f.hours = 0 THEN <<>> ELSE <<Says("response_time_hours", ToString(f.hours))>>)

----------------------------------------------------------------------------
(* website.go: a visit.                                                     *)

\* handleAnchor keeps the links that look like a contact page, and of those
\* contactCandidates each of the site once.
Once(urls, link) ==
  IF link.contactish /\ link.own /\ link.url \notin ToSet(urls) \cup {Home}
    THEN Append(urls, link.url) ELSE urls

Distinct(links) == FoldLeft(Once, <<>>, links)

\* Faulty variant: a page linked twice is a candidate twice.
FaultyCandidates(links) ==
  LET own == SelectSeq(links, LAMBDA l : l.contactish /\ l.own /\ l.url # Home)
  IN  IF own # <<>> THEN [k \in DOMAIN own |-> own[k].url] ELSE Distinct(Fallback)

\* contactCandidates: the site's own links, each once and the homepage not at
\* all, or else the guesses.  The homepage is where it was found, so the address
\* on file, if it redirects, is a candidate like any other.
Candidates(links) ==
  LET once == Distinct(links) IN IF once # <<>> THEN once ELSE Distinct(Fallback)

\* Collect gets the homepage: it is read, robots.txt disallows it, or the
\* visit fails (any other error, a status other than 200, not HTML).  asked is
\* the contact pages asked for.
ReadHome ==
  /\ visit.stage = "idle"
  /\ \E page \in PagesAt[Home] :
       visit' = [stage |-> "contact", found |-> Extract(page), asked |-> <<>>,
                 read |-> <<page>>, left |-> Candidates(Extract(page).links)]

HomeDisallowed ==
  /\ visit.stage = "idle"
  /\ visit' = [stage |-> "report", next |-> 1, asked |-> <<>>, read |-> <<>>,
               said |-> <<Says("robots_disallowed", "true")>>]

\* The cap is on the contact pages asked for.
MorePages == visit.left # <<>> /\ Len(visit.asked) < MaxContactPages

Asked == [visit EXCEPT !.asked = Append(@, Head(visit.left)), !.left = Tail(@)]

ReadContactPage ==
  /\ visit.stage = "contact" /\ MorePages
  /\ \E page \in PagesAt[Head(visit.left)] :
       visit' = [Asked EXCEPT !.found = Merge(@, Extract(page)), !.read = Append(@, page)]

\* Disallowed, unreachable, missing or not HTML: all the same.
SkipContactPage ==
  /\ visit.stage = "contact" /\ MorePages
  /\ visit' = Asked

FinishVisit ==
  /\ visit.stage = "contact" /\ ~MorePages
  /\ visit' = [stage |-> "report", next |-> 1, asked |-> visit.asked, read |-> visit.read,
               said |-> Report(visit.found)]

----------------------------------------------------------------------------
\* After the homepage a visit asks for at most two pages, all linked or guessed
\* on the site, none twice and not the homepage again (website.go: Collect,
\* contactCandidates).
VisitIsPolite ==
  visit.stage # "idle" =>
    /\ Len(visit.asked) <= MaxContactPages
    /\ IsInjective(visit.asked)
    /\ Home \notin ToSet(visit.asked)
    /\ \A url \in ToSet(visit.asked) :
         \E l \in ToSet(visit.read[1].links) \cup ToSet(Fallback) : l.own /\ l.url = url

SaidOf(type) == {visit.said[k].value : k \in {j \in DOMAIN visit.said : visit.said[j].type = type}}

\* What a visit reports is what the pages it read say together, whatever page
\* says it and in whatever order they were read (extract.go: Merge, Signals).
ReportIsTheSite ==
  visit.stage = "report" /\ visit.read # <<>> =>
    LET pages == ToSet(visit.read)
        emails == (UNION {p.addresses : p \in pages}) \ Noise
        promised == {ResponseHours(p.promises) : p \in pages} \ {0}
    IN  /\ SaidOf("contact_email") = {e \in emails : \A d \in emails : RankOf[e] <= RankOf[d]}
        /\ SaidOf("contact_form") = {Truth(\E p \in pages : \E f \in p.forms : IsContactForm(f))}
        /\ SaidOf("chat_widget") = {Truth(\E p \in pages : p.widgets # {})}
        /\ SaidOf("automation_tag") = UNION {p.tags : p \in pages}
        /\ SaidOf("enterprise_marker") = UNION {p.marks : p \in pages}
        /\ SaidOf("response_time_hours") =
             {ToString(v) : v \in {h \in promised : \A other \in promised : h >= other}}
=============================================================================
