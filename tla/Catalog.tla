------------------------------ MODULE Catalog ------------------------------
(***************************************************************************)
(* The part of the SQLite store that decides which businesses exist, which *)
(* of them a command may show, and where each one stands in the outreach   *)
(* pipeline (internal/store/businesses.go, outreach.go and the unique      *)
(* indexes and view of 0001_init.sql), with the two commands that use it   *)
(* in more than one transaction: seed/discover import records one          *)
(* transaction at a time, and status reads in one statement and writes in  *)
(* another.  Several prospect processes share the file; WithTx makes each  *)
(* transaction atomic, so one transaction is one step.                     *)
(***************************************************************************)
EXTENDS Naturals, Sequences, FiniteSets

CONSTANTS
  Ids,        (* rowids the businesses table can hand out                  *)
  Websites,   (* spellings of a website, usable or not                     *)
  Domains,    (* what a website normalizes to                              *)
  Labels,     (* spellings of "name and city"                              *)
  NameKeys,   (* what a name and city normalize to                         *)
  Emails,     (* stands for every field merged by `correct`                *)
  Places,     (* Google place ids                                          *)
  Sightings,  (* the records seed and discover can come across             *)
  DomainOf,   (* dedup.Domain                                              *)
  NameKeyOf,  (* dedup.NameKey                                             *)
  Statuses,   (* outreach statuses                                         *)
  Procs,      (* prospect processes sharing the database                   *)
  MaxEvents,  (* bound: outreach events recorded per business              *)
  None        (* the empty column, the empty key, the absent row           *)

Sighting == [website : Websites \cup {None}, label : Labels \cup {None},
             email : Emails \cup {None}, place : Places \cup {None}]

NotContacted == "not_contacted"
Dead == "dead"

ASSUME CatalogAssumption ==
  /\ Sightings \subseteq Sighting
  /\ DomainOf \in [Websites \cup {None} -> Domains \cup {None}]
  /\ NameKeyOf \in [Labels \cup {None} -> NameKeys \cup {None}]
  /\ DomainOf[None] = None
  /\ NameKeyOf[None] = None
  /\ {NotContacted, Dead} \subseteq Statuses
  /\ None \notin Websites \cup Domains \cup Labels \cup NameKeys
                  \cup Emails \cup Places \cup Statuses
  /\ MaxEvents \in Nat
  /\ IsFiniteSet(Procs)

Row == [website : Websites \cup {None}, domain : Domains \cup {None},
        nameKey : NameKeys \cup {None}, email : Emails \cup {None},
        place : Places \cup {None}]

\* A stored event keeps the status it came from; Suppress writes "" there.
NoFrom == "suppressed"
Event == [from : Statuses \cup {NoFrom}, to : Statuses]

ASSUME AbsentAssumption == None \notin Row /\ NoFrom \notin Statuses

\* The unique indexes a write can be rejected by.
Index == {"domain", "name_key", "place_id"}
Result == {"inserted", "merged", "unchanged", "suppressed", "no_identity", "rejected"}

VARIABLES
  business,           (* businesses: id -> row, or None                    *)
  suppression,        (* ids in the suppression table                      *)
  suppressionDomains, (* domains in the suppression_domains table          *)
  outreach,           (* outreach: id -> status, or None                   *)
  events,             (* outreach_events, per business, in id order        *)
  pending,            (* what a status process is about to write, or None  *)
  outcome             (* what the last UpsertBusiness returned             *)

vars == <<business, suppression, suppressionDomains, outreach, events,
          pending, outcome>>

----------------------------------------------------------------------------
(* Reading the tables.                                                     *)

Stored == {i \in Ids : business[i] # None}

\* v_active_businesses: what list, export, brief, score and enrich read.
Active == {i \in Stored : /\ i \notin suppression
                          /\ business[i].domain \notin suppressionDomains}

\* findBusinessTx: by domain first, then by name among the domainless rows.
FindByDomain(d) == {i \in Stored : d # None /\ business[i].domain = d}

\* Faulty variant: rows with a domain are matched by name too.
FaultyFindByAnyName(n) == {i \in Stored : n # None /\ business[i].nameKey = n}

FindByName(n) ==
  {i \in Stored : n # None /\ business[i].domain = None /\ business[i].nameKey = n}

\* Faulty variant: the domain lookup is forgotten.
FaultyFindByNameOnly(s) == FindByName(NameKeyOf[s.label])

Find(s) ==
  LET byDomain == FindByDomain(DomainOf[s.website])
  IN  IF byDomain # {} THEN byDomain ELSE FindByName(NameKeyOf[s.label])

----------------------------------------------------------------------------
(* Merging an incoming record into a stored one.                           *)

KeepFirst(old, new) == IF old # None THEN old ELSE new
Correct(old, new) == IF new # None THEN new ELSE old

MergeBusiness(row, s) ==
  [website |-> KeepFirst(row.website, s.website),
   domain  |-> Correct(row.domain, DomainOf[s.website]),
   nameKey |-> Correct(row.nameKey, NameKeyOf[s.label]),
   email   |-> Correct(row.email, s.email),
   place   |-> Correct(row.place, s.place)]

\* Faulty variant: the website is stored as the key without being normalized.
FaultyNewRowRawDomain(s) ==
  [website |-> s.website, domain |-> s.website, nameKey |-> NameKeyOf[s.label],
   email |-> s.email, place |-> s.place]

NewRow(s) == [website |-> s.website, domain |-> DomainOf[s.website],
              nameKey |-> NameKeyOf[s.label], email |-> s.email, place |-> s.place]

\* The unique indexes that reject row as the contents of id i.
Conflicts(i, row) ==
  LET others == Stored \ {i}
  IN  {x \in Index :
         \/ x = "domain" /\ row.domain # None
              /\ \E j \in others : business[j].domain = row.domain
         \/ x = "name_key" /\ row.domain = None /\ row.nameKey # None
              /\ \E j \in others : /\ business[j].domain = None
                                   /\ business[j].nameKey = row.nameKey
         \/ x = "place_id" /\ row.place # None
              /\ \E j \in others : business[j].place = row.place}

----------------------------------------------------------------------------
Init ==
  /\ business = [i \in Ids |-> None]
  /\ suppression = {}
  /\ suppressionDomains = {}
  /\ outreach = [i \in Ids |-> None]
  /\ events = [i \in Ids |-> <<>>]
  /\ pending = [p \in Procs |-> None]
  /\ outcome = [result |-> "unchanged", conflicts |-> {}]

Return(result, conflicts) == outcome' = [result |-> result, conflicts |-> conflicts]

NotWritten == UNCHANGED <<business, outreach>>

HasIdentity(s) == DomainOf[s.website] # None \/ NameKeyOf[s.label] # None

ListedDomain(s) == DomainOf[s.website] \in suppressionDomains

\* UpsertBusiness of a record with nothing to tell it apart by.
UpsertNoIdentity(s) ==
  /\ ~HasIdentity(s)
  /\ NotWritten
  /\ Return("no_identity", {})

\* UpsertBusiness of a record whose domain is on the suppression list.
UpsertSuppressed(s) ==
  /\ HasIdentity(s)
  /\ ListedDomain(s)
  /\ NotWritten
  /\ Return("suppressed", {})

\* Faulty variant: INSERT OR REPLACE, which deletes the rows it conflicts with.
FaultyUpsertReplace(s) ==
  /\ HasIdentity(s)
  /\ ~ListedDomain(s)
  /\ Find(s) = {}
  /\ \E i \in Ids \ Stored :
       /\ business' = [j \in Ids |->
                         IF j = i THEN NewRow(s)
                         ELSE IF j \in Stored /\ s.place # None /\ business[j].place = s.place
                              THEN None ELSE business[j]]
       /\ outreach' = [outreach EXCEPT ![i] = NotContacted]
       /\ Return("inserted", {})

\* UpsertBusiness of a record no stored row matches: insertBusinessTx, which
\* opens the outreach entry in the same transaction.
UpsertInsert(s) ==
  /\ HasIdentity(s)
  /\ ~ListedDomain(s)
  /\ Find(s) = {}
  /\ \E i \in Ids \ Stored :
       \/ /\ Conflicts(i, NewRow(s)) = {}
          /\ business' = [business EXCEPT ![i] = NewRow(s)]
          /\ outreach' = [outreach EXCEPT ![i] = NotContacted]
          /\ Return("inserted", {})
       \/ /\ Conflicts(i, NewRow(s)) # {}
          /\ NotWritten
          /\ Return("rejected", Conflicts(i, NewRow(s)))

\* UpsertBusiness of a record that matches row i.
UpsertMerge(s) ==
  /\ HasIdentity(s)
  /\ ~ListedDomain(s)
  /\ \E i \in Find(s) :
       LET merged == MergeBusiness(business[i], s)
       IN  \/ /\ merged = business[i]
              /\ NotWritten
              /\ Return("unchanged", {})
           \/ /\ merged # business[i]
              /\ Conflicts(i, merged) = {}
              /\ business' = [business EXCEPT ![i] = merged]
              /\ UNCHANGED outreach
              /\ Return("merged", {})
           \/ /\ merged # business[i]
              /\ Conflicts(i, merged) # {}
              /\ NotWritten
              /\ Return("rejected", Conflicts(i, merged))

UpsertBusiness(s) ==
  /\ \/ UpsertNoIdentity(s)
     \/ UpsertSuppressed(s)
     \/ UpsertInsert(s)
     \/ UpsertMerge(s)
  /\ UNCHANGED <<suppression, suppressionDomains, events, pending>>

----------------------------------------------------------------------------
(* Suppression and the outreach pipeline.                                  *)

AppendEvent(i, from, to) ==
  /\ Len(events[i]) < MaxEvents
  /\ events' = [events EXCEPT ![i] = Append(@, [from |-> from, to |-> to])]

\* Faulty variant: a business with a domain is suppressed by the domain alone.
FaultySuppressDomainOnly(i, idOnly) ==
  /\ i \in Stored
  /\ IF idOnly \/ business[i].domain = None
       THEN /\ suppression' = suppression \cup {i}
            /\ UNCHANGED suppressionDomains
       ELSE /\ suppressionDomains' = suppressionDomains \cup {business[i].domain}
            /\ UNCHANGED suppression
  /\ outreach' = [outreach EXCEPT ![i] = Dead]
  /\ AppendEvent(i, NoFrom, Dead)
  /\ UNCHANGED <<business, pending, outcome>>

\* Suppress: the id, its domain unless --id-only, and the outreach entry.
Suppress(i, idOnly) ==
  /\ i \in Stored
  /\ suppression' = suppression \cup {i}
  /\ suppressionDomains' =
       suppressionDomains \cup (IF idOnly THEN {} ELSE {business[i].domain} \ {None})
  /\ outreach' = [outreach EXCEPT ![i] = Dead]
  /\ AppendEvent(i, NoFrom, Dead)
  /\ UNCHANGED <<business, pending, outcome>>

\* Faulty variant: the suppression check is forgotten.
FaultyCheckStatusUnchecked(p, i, to) ==
  /\ pending[p] = None
  /\ i \in Stored
  /\ pending' = [pending EXCEPT ![p] = [id |-> i, to |-> to]]
  /\ UNCHANGED <<business, suppression, suppressionDomains, outreach, events, outcome>>

\* setStatus up to IsSuppressed, which looks the business up by id alone.
CheckStatus(p, i, to) ==
  /\ pending[p] = None
  /\ i \in Stored
  /\ i \notin suppression \/ to = Dead
  /\ pending' = [pending EXCEPT ![p] = [id |-> i, to |-> to]]
  /\ UNCHANGED <<business, suppression, suppressionDomains, outreach, events,
                 outcome>>

\* Faulty variant: the event is written, the upsert of the status is lost.
FaultySetOutreachStatusEventOnly(p) ==
  /\ pending[p] # None
  /\ AppendEvent(pending[p].id, outreach[pending[p].id], pending[p].to)
  /\ pending' = [pending EXCEPT ![p] = None]
  /\ UNCHANGED <<business, suppression, suppressionDomains, outreach, outcome>>

\* SetOutreachStatus, a transaction of its own.
SetOutreachStatus(p) ==
  /\ pending[p] # None
  /\ LET i == pending[p].id
         to == pending[p].to
     IN  /\ outreach' = [outreach EXCEPT ![i] = to]
         /\ AppendEvent(i, outreach[i], to)
  /\ pending' = [pending EXCEPT ![p] = None]
  /\ UNCHANGED <<business, suppression, suppressionDomains, outcome>>

\* The process dies, or its transaction fails and rolls back.
AbandonStatus(p) ==
  /\ pending[p] # None
  /\ pending' = [pending EXCEPT ![p] = None]
  /\ UNCHANGED <<business, suppression, suppressionDomains, outreach, events,
                 outcome>>

\* UpdateBusinessEmail: enrich promotes an address it found, if there is none.
UpdateBusinessEmail(i, e) ==
  /\ i \in Stored
  /\ business[i].email = None
  /\ business' = [business EXCEPT ![i].email = e]
  /\ UNCHANGED <<suppression, suppressionDomains, outreach, events, pending,
                 outcome>>

----------------------------------------------------------------------------
\* The steps of status, suppress and enrich, which import nothing.
Operate ==
  \/ \E i \in Ids, idOnly \in BOOLEAN : Suppress(i, idOnly)
  \/ \E p \in Procs, i \in Ids, to \in Statuses : CheckStatus(p, i, to)
  \/ \E p \in Procs : SetOutreachStatus(p)
  \/ \E p \in Procs : AbandonStatus(p)
  \/ \E i \in Ids, e \in Emails : UpdateBusinessEmail(i, e)

Next == Operate \/ \E s \in Sightings : UpsertBusiness(s)

Spec == Init /\ [][Next]_vars

----------------------------------------------------------------------------
(* Properties.                                                             *)

TypeOK ==
  /\ business \in [Ids -> Row \cup {None}]
  /\ suppression \subseteq Stored
  /\ suppressionDomains \subseteq Domains
  /\ outreach \in [Ids -> Statuses \cup {None}]
  /\ events \in [Ids -> Seq(Event)]
  /\ pending \in [Procs -> [id : Ids, to : Statuses] \cup {None}]
  /\ outcome \in [result : Result, conflicts : SUBSET Index]

\* "mirroring the unique indexes so the application and the database never
\* disagree": no write findBusinessTx and mergeBusiness lead to is rejected by
\* the domain or the name_key index; only place_id, which they do not look at,
\* can reject one.
MirroredIndexes == outcome.conflicts \subseteq {"place_id"}

\* Every row the view hides because of its domain is hidden by its id as well,
\* so IsSuppressed, which asks only about the id, and the view always agree;
\* and every listed domain is held by such a row, so an import of it has a row
\* to meet even where the list is not consulted.
DomainCoversId ==
  /\ \A i \in Stored : business[i].domain \in suppressionDomains => i \in suppression
  /\ \A d \in suppressionDomains : \E i \in suppression : business[i].domain = d

\* Imports only add knowledge: a row is never lost, its domain never changes
\* once known, and no known column goes back to empty.
KnowledgeKept ==
  [][\A i \in Stored :
       /\ i \in Stored'
       /\ \A f \in {"website", "domain"} :
            business[i][f] # None => business'[i][f] = business[i][f]
       /\ \A f \in {"nameKey", "email", "place"} :
            business[i][f] # None => business'[i][f] # None]_vars

\* The status a history leaves a business in after its first k entries.
StatusAfter(history, k) == IF k = 0 THEN NotContacted ELSE history[k].to

\* Each transition starts where the one before it ended, unless it is the
\* closing entry of a suppression, and the last one ends in the status.
Replays(history, status) ==
  /\ status = StatusAfter(history, Len(history))
  /\ \A k \in 1..Len(history) :
       \/ history[k].from = StatusAfter(history, k - 1)
       \/ history[k] = [from |-> NoFrom, to |-> Dead]

\* "a sequence of touches stays reconstructable": replaying a business's events
\* gives its stored status, whatever processes wrote them.
HistoryReplays == \A i \in Stored : Replays(events[i], outreach[i])

\* Moves of business i to a live status recorded after its suppression.
Revivals(i) ==
  {k \in 1..Len(events[i]) : /\ events[i][k].to # Dead
                             /\ \E j \in 1..(k - 1) : events[i][j].from = NoFrom}

\* The check and the write of `status` are separate, so a process that checked
\* before a suppression can still write after it; but only once, since its
\* next check refuses: a suppressed business is revived at most once a process.
RevivalsBounded == \A i \in Ids : Cardinality(Revivals(i)) <= Cardinality(Procs)

\* The rows behind v_active_businesses behave as the visible businesses of the
\* abstract specification: an excluded one never comes back into view.
Exclusion == INSTANCE DoNotContact WITH visible <- Active, excluded <- Stored \ Active
NeverShownAgain == Exclusion!Spec
=============================================================================
