--------------------------- MODULE CatalogProofs ---------------------------
(***************************************************************************)
(* Proofs about Catalog, for every set of ids, records and processes.      *)
(***************************************************************************)
EXTENDS Catalog, FiniteSetTheorems, TLAPS

\* At most one row per domain, and one domainless row per name key.  Neither
\* MirroredIndexes nor DomainCoversId is inductive without it: a merge by domain
\* must not meet a second row with that domain.
OneRowPerIdentity ==
  \A i, j \in Stored :
    i # j => /\ business[i].domain # None => business[i].domain # business[j].domain
             /\ business[i].domain = None /\ business[j].domain = None
                  /\ business[i].nameKey # None
                  => business[i].nameKey # business[j].nameKey

\* A stored business has an outreach entry, an absent one has no events, and a
\* process about to write a status does so for a stored business: rows are
\* never deleted between its check and its write.
EntriesOpen ==
  /\ \A i \in Stored : outreach[i] \in Statuses
  /\ \A i \in Ids \ Stored : events[i] = <<>>
  /\ \A p \in Procs : pending[p] # None => pending[p].id \in Stored

StoreInv == TypeOK /\ OneRowPerIdentity /\ EntriesOpen /\ MirroredIndexes /\ DomainCoversId

CatalogInv == StoreInv /\ HistoryReplays

(***************************************************************************)
(* Lemmas about the operators.                                             *)
(***************************************************************************)

LEMMA NewRowType ==
  ASSUME NEW s \in Sightings
  PROVE  NewRow(s) \in Row
BY CatalogAssumption DEF NewRow, Row, Sighting

LEMMA MergeType ==
  ASSUME NEW s \in Sightings, NEW row \in Row
  PROVE  MergeBusiness(row, s) \in Row
<1>1. s \in Sighting
  BY CatalogAssumption
<1>2. DomainOf[s.website] \in Domains \cup {None}
  BY <1>1, CatalogAssumption DEF Sighting
<1>3. NameKeyOf[s.label] \in NameKeys \cup {None}
  BY <1>1, CatalogAssumption DEF Sighting
<1> QED
  BY <1>1, <1>2, <1>3 DEF MergeBusiness, KeepFirst, Correct, Row, Sighting

\* A record never matches a row by name when the row or the record has a
\* domain of its own that the other row would clash with.
LEMMA FindSound ==
  ASSUME NEW s \in Sightings, NEW i \in Find(s)
  PROVE  /\ i \in Stored
         /\ \/ DomainOf[s.website] # None /\ business[i].domain = DomainOf[s.website]
            \/ /\ business[i].domain = None
               /\ NameKeyOf[s.label] # None
               /\ business[i].nameKey = NameKeyOf[s.label]
               /\ FindByDomain(DomainOf[s.website]) = {}
BY DEF Find, FindByDomain, FindByName, Stored

\* Inserting an unmatched record meets no domain and no name key.
LEMMA InsertMeetsNoIdentity ==
  ASSUME NEW s \in Sightings, Find(s) = {}, NEW i \in Ids
  PROVE  Conflicts(i, NewRow(s)) \subseteq {"place_id"}
<1>1. FindByDomain(DomainOf[s.website]) = {}
  BY DEF Find
<1>2. FindByName(NameKeyOf[s.label]) = {}
  BY <1>1 DEF Find
<1> QED
  BY <1>1, <1>2 DEF Conflicts, NewRow, FindByDomain, FindByName, Index

\* Merging a record into the row it matches meets no domain and no name key.
LEMMA MergeMeetsNoIdentity ==
  ASSUME TypeOK, OneRowPerIdentity, NEW s \in Sightings, NEW i \in Find(s)
  PROVE  Conflicts(i, MergeBusiness(business[i], s)) \subseteq {"place_id"}
<1> DEFINE d == DomainOf[s.website]
           row == MergeBusiness(business[i], s)
<1>1. i \in Stored /\ row.domain = Correct(business[i].domain, d)
                   /\ row.nameKey = Correct(business[i].nameKey, NameKeyOf[s.label])
  BY FindSound DEF MergeBusiness
<1>2. CASE d # None /\ business[i].domain = d
  BY <1>1, <1>2 DEF Conflicts, OneRowPerIdentity, Correct, Index
<1>3. CASE business[i].domain = None /\ FindByDomain(d) = {} /\ NameKeyOf[s.label] # None
            /\ business[i].nameKey = NameKeyOf[s.label]
  <2>1. CASE d = None
    BY <1>1, <1>3, <2>1 DEF Conflicts, OneRowPerIdentity, Correct, Index
  <2>2. CASE d # None
    BY <1>1, <1>3, <2>2 DEF Conflicts, FindByDomain, Correct, Index
  <2> QED BY <2>1, <2>2
<1> QED
  BY <1>2, <1>3, FindSound

\* A write no index rejects keeps every identity on one row.
LEMMA WriteKeepsIdentity ==
  ASSUME OneRowPerIdentity, NEW i \in Ids, NEW row, row # None,
         Conflicts(i, row) \subseteq {"place_id"},
         business \in [Ids -> Row \cup {None}],
         business' = [business EXCEPT ![i] = row]
  PROVE  OneRowPerIdentity'
<1>1. "domain" \notin Conflicts(i, row) /\ "name_key" \notin Conflicts(i, row)
  OBVIOUS
<1>2. ASSUME NEW j \in Stored \ {i}
      PROVE  /\ row.domain # None => business[j].domain # row.domain
             /\ row.domain = None /\ row.nameKey # None /\ business[j].domain = None
                  => business[j].nameKey # row.nameKey
  BY <1>1, <1>2 DEF Conflicts, Index
<1>3. Stored' = Stored \cup {i}
  BY DEF Stored
<1> QED
  BY <1>2, <1>3 DEF OneRowPerIdentity, Stored

(***************************************************************************)
(* The store invariant.                                                    *)
(***************************************************************************)

LEMMA StoreInvInit == Init => StoreInv
<1> SUFFICES ASSUME Init PROVE StoreInv
  OBVIOUS
<1>1. Stored = {}
  BY DEF Init, Stored
<1> QED
  BY <1>1, CatalogAssumption, AbsentAssumption
  DEF Init, StoreInv, TypeOK, OneRowPerIdentity, MirroredIndexes, DomainCoversId,
      Result, Index, Event, EntriesOpen

\* An import keeps the store invariant.  It is where rows and their keys change.
LEMMA UpsertKeepsStoreInv ==
  ASSUME StoreInv, NEW s \in Sightings, UpsertBusiness(s)
  PROVE  StoreInv'
<1> USE DEF StoreInv
<1>1. UNCHANGED <<suppression, suppressionDomains, events, pending>>
  BY DEF UpsertBusiness
<1>2. ASSUME NotWritten,
             \E r \in Result, c \in SUBSET Index : Return(r, c) /\ c \subseteq {"place_id"}
      PROVE  StoreInv'
  BY <1>1, <1>2 DEF NotWritten, Return, TypeOK, OneRowPerIdentity, MirroredIndexes,
                    DomainCoversId, EntriesOpen, Stored
<1>3. CASE UpsertNoIdentity(s)
  BY <1>2, <1>3 DEF UpsertNoIdentity, Result
<1>4. CASE UpsertSuppressed(s)
  BY <1>2, <1>4 DEF UpsertSuppressed, Result
<1>5. CASE UpsertInsert(s)
  <2>1. PICK i \in Ids \ Stored :
          \/ /\ Conflicts(i, NewRow(s)) = {}
             /\ business' = [business EXCEPT ![i] = NewRow(s)]
             /\ outreach' = [outreach EXCEPT ![i] = NotContacted]
             /\ Return("inserted", {})
          \/ /\ Conflicts(i, NewRow(s)) # {}
             /\ NotWritten
             /\ Return("rejected", Conflicts(i, NewRow(s)))
    BY <1>5 DEF UpsertInsert
  <2>2. Conflicts(i, NewRow(s)) \subseteq {"place_id"}
    BY <1>5, InsertMeetsNoIdentity DEF UpsertInsert
  <2>3. CASE NotWritten /\ Return("rejected", Conflicts(i, NewRow(s)))
    BY <1>2, <2>2, <2>3 DEF Result, Index
  <2>4. CASE /\ Conflicts(i, NewRow(s)) = {}
             /\ business' = [business EXCEPT ![i] = NewRow(s)]
             /\ outreach' = [outreach EXCEPT ![i] = NotContacted]
             /\ Return("inserted", {})
    <3>1. NewRow(s) \in Row /\ NewRow(s) # None
      BY NewRowType, AbsentAssumption
    <3>2. OneRowPerIdentity'
      BY <2>4, <3>1, WriteKeepsIdentity DEF TypeOK
    <3>3. Stored' = Stored \cup {i}
      BY <2>4, <3>1 DEF Stored, TypeOK
    <3>4. TypeOK'
      BY <1>1, <2>4, <3>1, <3>3, CatalogAssumption DEF TypeOK, Return, Result
    <3>5. MirroredIndexes'
      BY <2>4 DEF MirroredIndexes, Return
    <3>6. NewRow(s).domain \notin suppressionDomains
      BY <1>5 DEF UpsertInsert, ListedDomain, NewRow
    <3>7. DomainCoversId'
      BY <1>1, <2>4, <3>3, <3>6 DEF DomainCoversId, TypeOK, Stored
    <3>8. EntriesOpen'
      BY <1>1, <2>4, <3>3, CatalogAssumption DEF EntriesOpen, TypeOK
    <3> QED
      BY <3>2, <3>4, <3>5, <3>7, <3>8
  <2> QED
    BY <2>1, <2>3, <2>4
<1>6. CASE UpsertMerge(s)
  <2>1. PICK i \in Find(s) :
          LET merged == MergeBusiness(business[i], s)
          IN  \/ /\ merged = business[i]
                 /\ NotWritten
                 /\ Return("unchanged", {})
              \/ /\ merged # business[i]
                 /\ Conflicts(i, merged) = {}
                 /\ business' = [business EXCEPT ![i] = merged]
                 /\ UNCHANGED outreach
                 /\ Return("merged", {})
              \/ /\ merged # business[i]
                 /\ Conflicts(i, merged) # {}
                 /\ NotWritten
                 /\ Return("rejected", Conflicts(i, merged))
    BY <1>6 DEF UpsertMerge
  <2> DEFINE merged == MergeBusiness(business[i], s)
  <2>2. Conflicts(i, merged) \subseteq {"place_id"}
    BY MergeMeetsNoIdentity
  <2>3. CASE NotWritten /\ Return("unchanged", {})
    BY <1>2, <2>3 DEF Result
  <2>4. CASE NotWritten /\ Return("rejected", Conflicts(i, merged))
    BY <1>2, <2>2, <2>4 DEF Result, Index
  <2>5. CASE /\ Conflicts(i, merged) = {}
             /\ business' = [business EXCEPT ![i] = merged]
             /\ UNCHANGED outreach
             /\ Return("merged", {})
    <3>1. i \in Stored /\ business[i] \in Row
      BY FindSound DEF Stored, TypeOK
    <3>2. merged \in Row /\ merged # None
      BY <3>1, MergeType, AbsentAssumption
    <3>3. OneRowPerIdentity'
      BY <2>5, <3>1, <3>2, WriteKeepsIdentity DEF TypeOK, Stored
    <3>4. Stored' = Stored
      BY <2>5, <3>1, <3>2 DEF Stored, TypeOK
    <3>5. TypeOK'
      BY <1>1, <2>5, <3>1, <3>2, <3>4 DEF TypeOK, Return, Result
    <3>6. MirroredIndexes'
      BY <2>5 DEF MirroredIndexes, Return
    <3>7. DomainOf[s.website] \notin suppressionDomains
      BY <1>6 DEF UpsertMerge, ListedDomain
    <3>8. business[i].domain # None => merged.domain = business[i].domain
      BY FindSound, <3>1 DEF MergeBusiness, Correct
    <3>9. merged.domain \in suppressionDomains => merged.domain = business[i].domain
      BY <3>7, <3>8 DEF MergeBusiness, Correct
    <3>10. None \notin suppressionDomains
      BY CatalogAssumption DEF TypeOK
    <3>11. DomainCoversId'
      BY <1>1, <2>5, <3>1, <3>4, <3>8, <3>9, <3>10 DEF DomainCoversId, TypeOK, Stored
    <3>12. EntriesOpen'
      BY <1>1, <2>5, <3>4 DEF EntriesOpen
    <3> QED
      BY <3>3, <3>5, <3>6, <3>11, <3>12
  <2> QED
    BY <2>1, <2>3, <2>4, <2>5
<1> QED
  BY <1>3, <1>4, <1>5, <1>6 DEF UpsertBusiness

\* A transition is appended with the statuses it goes between.
LEMMA AppendType ==
  ASSUME TypeOK, NEW i \in Ids, NEW from \in Statuses \cup {NoFrom}, NEW to \in Statuses,
         AppendEvent(i, from, to)
  PROVE  events' \in [Ids -> Seq(Event)]
<1>1. [from |-> from, to |-> to] \in Event
  BY DEF Event
<1> QED
  BY <1>1 DEF AppendEvent, TypeOK

\* The steps of status write the outreach entry of a stored business, and
\* nothing else the store invariant looks at.
LEMMA StatusKeepsStoreInv ==
  ASSUME StoreInv, NEW p \in Procs,
         (\E i \in Ids, to \in Statuses : CheckStatus(p, i, to))
           \/ SetOutreachStatus(p) \/ AbandonStatus(p)
  PROVE  StoreInv'
<1> USE DEF StoreInv
<1>1. UNCHANGED <<business, suppression, suppressionDomains, outcome>>
  BY DEF CheckStatus, SetOutreachStatus, AbandonStatus
<1>2. (OneRowPerIdentity /\ MirroredIndexes /\ DomainCoversId)' /\ Stored' = Stored
  BY <1>1 DEF OneRowPerIdentity, MirroredIndexes, DomainCoversId, Stored
<1>3. (TypeOK /\ EntriesOpen)'
  <2>1. ASSUME NEW i \in Ids, NEW to \in Statuses, CheckStatus(p, i, to)
        PROVE  (TypeOK /\ EntriesOpen)'
    BY <1>1, <1>2, <2>1 DEF CheckStatus, TypeOK, EntriesOpen
  <2>2. CASE SetOutreachStatus(p)
    <3> DEFINE i == pending[p].id
               to == pending[p].to
    <3>1. pending[p] \in [id : Ids, to : Statuses] /\ i \in Stored /\ outreach[i] \in Statuses
      BY <2>2 DEF SetOutreachStatus, TypeOK, EntriesOpen
    <3>2. AppendEvent(i, outreach[i], to) /\ outreach' = [outreach EXCEPT ![i] = to]
      BY <2>2 DEF SetOutreachStatus
    <3>3. events' \in [Ids -> Seq(Event)]
      BY <3>1, <3>2, AppendType
    <3>4. pending' = [pending EXCEPT ![p] = None]
      BY <2>2 DEF SetOutreachStatus
    <3>5. TypeOK'
      BY <1>1, <1>2, <3>1, <3>2, <3>3, <3>4 DEF TypeOK
    <3>6. EntriesOpen'
      BY <1>2, <3>1, <3>2, <3>4 DEF EntriesOpen, AppendEvent, TypeOK
    <3> QED
      BY <3>5, <3>6
  <2>3. CASE AbandonStatus(p)
    BY <1>1, <1>2, <2>3 DEF AbandonStatus, TypeOK, EntriesOpen
  <2> QED
    BY <2>1, <2>2, <2>3
<1> QED
  BY <1>2, <1>3

\* Suppressing a business lists its domain, which no other row has.
LEMMA SuppressKeepsStoreInv ==
  ASSUME StoreInv, NEW i \in Ids, NEW idOnly \in BOOLEAN, Suppress(i, idOnly)
  PROVE  StoreInv'
<1> USE DEF StoreInv
<1>1. i \in Stored /\ business[i] \in Row /\ Dead \in Statuses
  BY CatalogAssumption DEF Suppress, Stored, TypeOK
<1>2. UNCHANGED <<business, pending, outcome>> /\ Stored' = Stored
  BY DEF Suppress, Stored
<1>3. (OneRowPerIdentity /\ MirroredIndexes)'
  BY <1>2 DEF OneRowPerIdentity, MirroredIndexes
<1>4. events' \in [Ids -> Seq(Event)]
  BY <1>1, AppendType DEF Suppress
<1>5. TypeOK'
  BY <1>1, <1>2, <1>4 DEF Suppress, TypeOK, Row
<1>6. EntriesOpen'
  BY <1>1, <1>2 DEF Suppress, EntriesOpen, AppendEvent, TypeOK
<1>7. DomainCoversId'
  BY <1>1, <1>2 DEF Suppress, DomainCoversId, OneRowPerIdentity
<1> QED
  BY <1>3, <1>5, <1>6, <1>7

\* UpdateBusinessEmail fills the empty email of one row and touches no other
\* column and no other row.
LEMMA EmailFillsOneColumn ==
  ASSUME TypeOK, NEW i \in Ids, NEW e \in Emails, UpdateBusinessEmail(i, e)
  PROVE  /\ i \in Stored /\ business[i] \in Row /\ business'[i] \in Row
         /\ business[i].email = None
         /\ \A f \in {"website", "domain", "nameKey", "place"} :
              business'[i][f] = business[i][f]
         /\ \A j \in Ids \ {i} : business'[j] = business[j]
         /\ business' \in [Ids -> Row \cup {None}]
         /\ Stored' = Stored
<1>1. i \in Stored /\ business[i] \in Row /\ business[i].email = None
  BY DEF UpdateBusinessEmail, Stored, TypeOK
<1>2. business' = [business EXCEPT ![i].email = e]
  BY DEF UpdateBusinessEmail
<1>3. /\ business'[i] \in Row
      /\ \A f \in {"website", "domain", "nameKey", "place"} :
           business'[i][f] = business[i][f]
  BY <1>1, <1>2 DEF Row, TypeOK
<1>4. /\ \A j \in Ids \ {i} : business'[j] = business[j]
      /\ business' \in [Ids -> Row \cup {None}]
      /\ Stored' = Stored
  BY <1>1, <1>2, <1>3, AbsentAssumption DEF TypeOK, Stored
<1> QED
  BY <1>1, <1>3, <1>4

\* Filling an empty email changes no identity.
LEMMA EmailKeepsStoreInv ==
  ASSUME StoreInv, NEW i \in Ids, NEW e \in Emails, UpdateBusinessEmail(i, e)
  PROVE  StoreInv'
<1> USE DEF StoreInv
<1>3. /\ business'[i].domain = business[i].domain
      /\ business'[i].nameKey = business[i].nameKey
  BY EmailFillsOneColumn DEF Row
<1>4. /\ \A j \in Ids \ {i} : business'[j] = business[j]
      /\ business' \in [Ids -> Row \cup {None}]
      /\ Stored' = Stored
  BY EmailFillsOneColumn
<1>5. UNCHANGED <<suppression, suppressionDomains, outreach, events, pending, outcome>>
  BY DEF UpdateBusinessEmail
<1>6. \A j \in Stored : /\ business'[j].domain = business[j].domain
                        /\ business'[j].nameKey = business[j].nameKey
  BY <1>3, <1>4 DEF Stored
<1>7. TypeOK'
  BY <1>4, <1>5 DEF TypeOK
<1>8. OneRowPerIdentity'
  BY <1>4, <1>6 DEF OneRowPerIdentity
<1>9. EntriesOpen' /\ MirroredIndexes'
  BY <1>4, <1>5 DEF EntriesOpen, MirroredIndexes
<1>10. DomainCoversId'
  BY <1>4, <1>5, <1>6 DEF DomainCoversId, TypeOK
<1> QED
  BY <1>7, <1>8, <1>9, <1>10

LEMMA StoreInvStep == StoreInv /\ [Next]_vars => StoreInv'
<1> SUFFICES ASSUME StoreInv, [Next]_vars PROVE StoreInv'
  OBVIOUS
<1>1. CASE Operate
  BY <1>1, StatusKeepsStoreInv, SuppressKeepsStoreInv, EmailKeepsStoreInv DEF Operate
<1>2. ASSUME NEW s \in Sightings, UpsertBusiness(s) PROVE StoreInv'
  BY <1>2, UpsertKeepsStoreInv
<1>3. CASE UNCHANGED vars
  BY <1>3 DEF vars, StoreInv, TypeOK, OneRowPerIdentity, EntriesOpen, MirroredIndexes,
              DomainCoversId, Stored
<1> QED
  BY <1>1, <1>2, <1>3 DEF Next

LEMMA StoreInvariant == Spec => []StoreInv
BY StoreInvInit, StoreInvStep, PTL DEF Spec

\* Every state the store can reach is well typed.
THEOREM TypeCorrect == Spec => []TypeOK
BY StoreInvariant, PTL DEF StoreInv

\* The lookups of UpsertBusiness never lead to a write the domain or the name
\* key index rejects: application and database agree on those two identities.
THEOREM IndexesAreMirrored == Spec => []MirroredIndexes
BY StoreInvariant, PTL DEF StoreInv

\* Suppression by domain is always also suppression by id.
THEOREM DomainsAreCovered == Spec => []DomainCoversId
BY StoreInvariant, PTL DEF StoreInv

(***************************************************************************)
(* The history.                                                            *)
(***************************************************************************)

\* Recording a transition out of the status a replay ends in extends it.
LEMMA AppendReplays ==
  ASSUME NEW h \in Seq(Event), NEW status, Replays(h, status), NEW from, NEW to,
         [from |-> from, to |-> to] \in Event,
         from = status \/ (from = NoFrom /\ to = Dead)
  PROVE  Replays(Append(h, [from |-> from, to |-> to]), to)
<1> DEFINE n == Len(h)
           g == Append(h, [from |-> from, to |-> to])
<1>1. /\ n \in Nat
      /\ Len(g) = n + 1
      /\ g[n + 1] = [from |-> from, to |-> to]
      /\ \A k \in 1..n : g[k] = h[k]
  OBVIOUS
<1> HIDE DEF n, g
<1>2. \A k \in 0..n : StatusAfter(g, k) = StatusAfter(h, k)
  BY <1>1 DEF StatusAfter
<1>3. StatusAfter(g, n + 1) = to
  BY <1>1 DEF StatusAfter
<1>4. status = StatusAfter(h, n)
  BY DEF Replays, n
<1>5. ASSUME NEW k \in 1..(n + 1)
      PROVE  \/ g[k].from = StatusAfter(g, k - 1)
             \/ g[k] = [from |-> NoFrom, to |-> Dead]
  <2>1. CASE k = n + 1
    BY <1>1, <1>2, <1>4, <2>1
  <2>2. CASE k \in 1..n
    <3>1. \/ h[k].from = StatusAfter(h, k - 1)
          \/ h[k] = [from |-> NoFrom, to |-> Dead]
      BY <2>2 DEF Replays, n
    <3> QED
      BY <1>1, <1>2, <2>2, <3>1
  <2> QED
    BY <1>1, <2>1, <2>2
<1>6. Replays(g, to)
  BY <1>1, <1>3, <1>5 DEF Replays
<1> QED
  BY <1>6 DEF g

\* A step that appends to the history of one business, and sets its status to
\* where the new transition ends, keeps every replay.
LEMMA AppendKeepsHistory ==
  ASSUME TypeOK, HistoryReplays, NEW i \in Stored,
         NEW from \in Statuses \cup {NoFrom}, NEW to \in Statuses,
         from = outreach[i] \/ (from = NoFrom /\ to = Dead),
         AppendEvent(i, from, to), outreach' = [outreach EXCEPT ![i] = to],
         business' = business
  PROVE  HistoryReplays'
<1>1. Stored' = Stored /\ i \in Ids /\ [from |-> from, to |-> to] \in Event
  BY DEF Stored, Event
<1>2. \A j \in Stored \ {i} : events'[j] = events[j] /\ outreach'[j] = outreach[j]
  BY <1>1 DEF AppendEvent, Stored, TypeOK
<1>3. /\ events'[i] = Append(events[i], [from |-> from, to |-> to])
      /\ outreach'[i] = to
      /\ events[i] \in Seq(Event)
  BY <1>1 DEF AppendEvent, TypeOK
<1>4. Replays(events[i], outreach[i])
  BY DEF HistoryReplays
<1>5. Replays(events'[i], outreach'[i])
  BY <1>1, <1>3, <1>4, AppendReplays
<1> QED
  BY <1>1, <1>2, <1>5 DEF HistoryReplays

LEMMA HistoryStep == CatalogInv /\ [Next]_vars => HistoryReplays'
<1> SUFFICES ASSUME CatalogInv, [Next]_vars PROVE HistoryReplays'
  OBVIOUS
<1> USE DEF CatalogInv
<1>1. ASSUME Stored' = Stored, UNCHANGED <<outreach, events>> PROVE HistoryReplays'
  BY <1>1 DEF HistoryReplays
<1>2. ASSUME NEW s \in Sightings, UpsertInsert(s), UNCHANGED events
      PROVE  HistoryReplays'
  <2>1. CASE NotWritten
    BY <1>1, <1>2, <2>1 DEF NotWritten, Stored
  <2>2. ASSUME NEW i \in Ids \ Stored, business' = [business EXCEPT ![i] = NewRow(s)],
               outreach' = [outreach EXCEPT ![i] = NotContacted]
        PROVE  HistoryReplays'
    <3>1. NewRow(s) # None
      BY NewRowType, AbsentAssumption
    <3>2. Stored' = Stored \cup {i} /\ events[i] = <<>> /\ outreach'[i] = NotContacted
      BY <2>2, <3>1 DEF Stored, StoreInv, EntriesOpen, TypeOK
    <3>3. \A j \in Stored : outreach'[j] = outreach[j]
      BY <2>2 DEF Stored, StoreInv, TypeOK
    <3>4. Replays(<<>>, NotContacted)
      BY DEF Replays, StatusAfter
    <3> QED
      BY <1>2, <3>2, <3>3, <3>4 DEF HistoryReplays
  <2> QED
    BY <1>2, <2>1, <2>2 DEF UpsertInsert
<1>3. ASSUME NEW s \in Sightings, UpsertBusiness(s) PROVE HistoryReplays'
  <2>1. UNCHANGED events
    BY <1>3 DEF UpsertBusiness
  <2>2. ASSUME UpsertMerge(s) PROVE Stored' = Stored /\ UNCHANGED outreach
    <3>1. ASSUME NEW i \in Find(s), business' = [business EXCEPT ![i] = MergeBusiness(business[i], s)]
          PROVE  Stored' = Stored
      BY <3>1, FindSound, MergeType, AbsentAssumption DEF Stored, StoreInv, TypeOK
    <3> QED
      BY <2>2, <3>1 DEF UpsertMerge, NotWritten, Stored
  <2> QED
    BY <1>1, <1>2, <1>3, <2>1, <2>2
    DEF UpsertBusiness, UpsertNoIdentity, UpsertSuppressed, NotWritten, Stored
<1>4. CASE Operate
  <2>1. ASSUME NEW p \in Procs, SetOutreachStatus(p) PROVE HistoryReplays'
    <3>1. /\ pending[p].id \in Stored
          /\ pending[p].to \in Statuses
          /\ outreach[pending[p].id] \in Statuses
      BY <2>1 DEF SetOutreachStatus, StoreInv, EntriesOpen, TypeOK
    <3> QED
      BY <2>1, <3>1, AppendKeepsHistory DEF SetOutreachStatus, StoreInv
  <2>2. ASSUME NEW i \in Ids, NEW idOnly \in BOOLEAN, Suppress(i, idOnly)
        PROVE  HistoryReplays'
    BY <2>2, AppendKeepsHistory, CatalogAssumption DEF Suppress, StoreInv
  <2>3. ASSUME NEW i \in Ids, NEW e \in Emails, UpdateBusinessEmail(i, e)
        PROVE  HistoryReplays'
    <3>1. UNCHANGED <<outreach, events>> /\ Stored' = Stored
      BY <2>3, EmailFillsOneColumn DEF UpdateBusinessEmail, StoreInv
    <3> QED
      BY <1>1, <3>1
  <2> QED
    BY <1>1, <1>4, <2>1, <2>2, <2>3 DEF Operate, CheckStatus, AbandonStatus, Stored
<1>5. CASE UNCHANGED vars
  BY <1>1, <1>5 DEF vars, Stored
<1> QED
  BY <1>3, <1>4, <1>5 DEF Next

\* "a sequence of touches stays reconstructable", whatever the processes do.
THEOREM HistoryIsReconstructable == Spec => []HistoryReplays
<1>1. Init => HistoryReplays
  BY DEF Init, HistoryReplays, Stored
<1>2. QED
  BY <1>1, HistoryStep, StoreInvariant, PTL DEF Spec, CatalogInv

(***************************************************************************)
(* What an import may do to a row, and exclusion as DoNotContact has it.   *)
(***************************************************************************)

\* The facts the action property asks of one row.
RowGrows(old, new) ==
  /\ \A f \in {"website", "domain"} : old[f] # None => new[f] = old[f]
  /\ \A f \in {"nameKey", "email", "place"} : old[f] # None => new[f] # None

\* Merging a record into the row it matches only adds to the row.
LEMMA MergeGrows ==
  ASSUME NEW s \in Sightings, NEW i \in Find(s), business[i] \in Row
  PROVE  RowGrows(business[i], MergeBusiness(business[i], s))
<1> DEFINE row == MergeBusiness(business[i], s)
<1>1. /\ row.website = KeepFirst(business[i].website, s.website)
      /\ row.domain = Correct(business[i].domain, DomainOf[s.website])
      /\ row.nameKey = Correct(business[i].nameKey, NameKeyOf[s.label])
      /\ row.email = Correct(business[i].email, s.email)
      /\ row.place = Correct(business[i].place, s.place)
  BY DEF MergeBusiness
<1>2. business[i].domain # None => row.domain = business[i].domain
  BY <1>1, FindSound DEF Correct
<1>3. business[i].website # None => row.website = business[i].website
  BY <1>1 DEF KeepFirst
<1>4. /\ business[i].nameKey # None => row.nameKey # None
      /\ business[i].email # None => row.email # None
      /\ business[i].place # None => row.place # None
  BY <1>1 DEF Correct
<1> QED
  BY <1>2, <1>3, <1>4 DEF RowGrows

\* Every step leaves the rows there are in place, and grows at most one.
LEMMA RowsGrow ==
  ASSUME StoreInv, [Next]_vars, NEW i \in Stored
  PROVE  i \in Stored' /\ RowGrows(business[i], business'[i])
<1> USE DEF StoreInv
<1>1. i \in Ids /\ business[i] \in Row
  BY DEF Stored, TypeOK
<1>2. ASSUME business' = business PROVE i \in Stored' /\ RowGrows(business[i], business'[i])
  BY <1>1, <1>2 DEF Stored, RowGrows
<1>3. ASSUME NEW s \in Sightings, UpsertInsert(s)
      PROVE  business'[i] = business[i]
  BY <1>3, <1>1 DEF UpsertInsert, NotWritten, TypeOK, Stored
<1>4. ASSUME NEW s \in Sightings, UpsertMerge(s)
      PROVE  i \in Stored' /\ RowGrows(business[i], business'[i])
  <2>1. ASSUME NEW j \in Find(s),
               business' = [business EXCEPT ![j] = MergeBusiness(business[j], s)]
        PROVE  i \in Stored' /\ RowGrows(business[i], business'[i])
    <3>1. j \in Stored /\ business[j] \in Row
      BY FindSound DEF Stored, TypeOK
    <3>2. CASE i = j
      <4>1. business'[i] = MergeBusiness(business[i], s)
        BY <2>1, <3>2, <1>1 DEF TypeOK
      <4> QED
        BY <4>1, <3>1, <3>2, <1>1, MergeGrows, MergeType, AbsentAssumption DEF Stored
    <3>3. CASE i # j
      BY <2>1, <3>3, <1>1 DEF Stored, RowGrows, TypeOK
    <3> QED
      BY <3>2, <3>3
  <2> QED
    BY <1>2, <1>4, <2>1 DEF UpsertMerge, NotWritten
<1>5. ASSUME NEW j \in Ids, NEW e \in Emails, UpdateBusinessEmail(j, e)
      PROVE  i \in Stored' /\ RowGrows(business[i], business'[i])
  <2>1. i \in Stored'
    BY <1>5, EmailFillsOneColumn
  <2>2. CASE i = j
    BY <1>5, <2>2, EmailFillsOneColumn DEF RowGrows
  <2>3. CASE i # j
    BY <1>1, <1>5, <2>3, EmailFillsOneColumn DEF RowGrows
  <2> QED
    BY <2>1, <2>2, <2>3
<1>6. ASSUME NEW s \in Sightings, UpsertBusiness(s)
      PROVE  i \in Stored' /\ RowGrows(business[i], business'[i])
  <2>1. CASE UpsertInsert(s)
    BY <1>1, <1>3, <2>1 DEF Stored, RowGrows
  <2>2. CASE UpsertNoIdentity(s) \/ UpsertSuppressed(s)
    BY <1>2, <2>2 DEF UpsertNoIdentity, UpsertSuppressed, NotWritten
  <2> QED
    BY <1>4, <1>6, <2>1, <2>2 DEF UpsertBusiness
<1>7. CASE Operate
  BY <1>2, <1>5, <1>7 DEF Operate, Suppress, CheckStatus, SetOutreachStatus, AbandonStatus
<1>8. CASE UNCHANGED vars
  BY <1>2, <1>8 DEF vars
<1> QED
  BY <1>6, <1>7, <1>8 DEF Next

\* Re-importing never loses a row, never changes a known domain or website,
\* and never blanks a known column.
THEOREM KnowledgeIsKept == Spec => KnowledgeKept
<1>1. StoreInv /\ [Next]_vars =>
        \A i \in Stored : i \in Stored' /\ RowGrows(business[i], business'[i])
  BY RowsGrow
<1>2. StoreInv /\ [Next]_vars =>
        [\A i \in Stored :
           /\ i \in Stored'
           /\ \A f \in {"website", "domain"} :
                business[i][f] # None => business'[i][f] = business[i][f]
           /\ \A f \in {"nameKey", "email", "place"} :
                business[i][f] # None => business'[i][f] # None]_vars
  BY <1>1 DEF RowGrows
<1> QED
  BY <1>2, StoreInvariant, PTL DEF Spec, KnowledgeKept

\* With every listed domain covered by an id, the view is decided by the ids.
LEMMA ViewIsById == ASSUME StoreInv PROVE Active = Stored \ suppression
BY DEF StoreInv, DomainCoversId, Active

\* A step of the store is a step of DoNotContact, or changes neither set.
LEMMA ExclusionStep ==
  ASSUME StoreInv, StoreInv', [Next]_vars
  PROVE  [Exclusion!Next]_(Exclusion!vars)
<1> USE DEF StoreInv
<1>1. Active = Stored \ suppression /\ Active' = Stored' \ suppression'
  <2>1. Active' = Stored' \ suppression'
    BY DEF DomainCoversId, Active
  <2> QED
    BY <2>1, ViewIsById
<1>2. suppression \subseteq Stored /\ Stored \subseteq Ids
  BY DEF TypeOK, Stored
<1>3. ASSUME Stored' = Stored, suppression' = suppression
      PROVE  [Exclusion!Next]_(Exclusion!vars)
  BY <1>1, <1>3 DEF Exclusion!vars
<1>4. ASSUME NEW s \in Sightings, UpsertBusiness(s)
      PROVE  [Exclusion!Next]_(Exclusion!vars)
  <2>1. suppression' = suppression
    BY <1>4 DEF UpsertBusiness
  <2>2. ASSUME business' = business PROVE [Exclusion!Next]_(Exclusion!vars)
    BY <1>3, <2>1, <2>2 DEF Stored
  <2>3. ASSUME NEW i \in Ids \ Stored, business' = [business EXCEPT ![i] = NewRow(s)]
        PROVE  [Exclusion!Next]_(Exclusion!vars)
    <3>1. Stored' = Stored \cup {i}
      BY <2>3, NewRowType, AbsentAssumption DEF Stored, TypeOK
    <3>2. Exclusion!Appear(i)
      BY <1>1, <1>2, <2>1, <3>1, <2>3 DEF Exclusion!Appear
    <3> QED
      BY <2>3, <3>2 DEF Exclusion!Next
  <2>4. ASSUME NEW i \in Find(s),
               business' = [business EXCEPT ![i] = MergeBusiness(business[i], s)]
        PROVE  [Exclusion!Next]_(Exclusion!vars)
    <3>1. i \in Stored /\ business[i] \in Row
      BY FindSound DEF Stored, TypeOK
    <3>2. Stored' = Stored
      BY <2>4, <3>1, MergeType, AbsentAssumption DEF Stored, TypeOK
    <3> QED
      BY <1>3, <2>1, <3>2
  <2> QED
    BY <1>4, <2>2, <2>3, <2>4
    DEF UpsertBusiness, UpsertNoIdentity, UpsertSuppressed, UpsertInsert, UpsertMerge,
        NotWritten
<1>5. ASSUME NEW i \in Ids, NEW idOnly \in BOOLEAN, Suppress(i, idOnly)
      PROVE  [Exclusion!Next]_(Exclusion!vars)
  <2>1. i \in Stored /\ Stored' = Stored /\ suppression' = suppression \cup {i}
    BY <1>5 DEF Suppress, Stored
  <2>2. CASE i \in suppression
    BY <1>3, <2>1, <2>2
  <2>3. CASE i \notin suppression
    BY <1>1, <1>2, <2>1, <2>3 DEF Exclusion!Exclude, Exclusion!Next
  <2> QED
    BY <2>2, <2>3
<1>6. ASSUME NEW i \in Ids, NEW e \in Emails, UpdateBusinessEmail(i, e)
      PROVE  [Exclusion!Next]_(Exclusion!vars)
  BY <1>3, <1>6, EmailFillsOneColumn DEF UpdateBusinessEmail
<1>7. CASE Operate
  BY <1>3, <1>5, <1>6, <1>7
  DEF Operate, CheckStatus, SetOutreachStatus, AbandonStatus, Stored
<1>8. CASE UNCHANGED vars
  BY <1>3, <1>8 DEF vars, Stored
<1> QED
  BY <1>4, <1>7, <1>8 DEF Next

\* "Suppression is permanent": the store implements DoNotContact.
THEOREM SuppressionIsPermanent == Spec => NeverShownAgain
<1>1. Init => Exclusion!Init
  BY DEF Init, Exclusion!Init, Active, Stored
<1>2. StoreInv /\ StoreInv' /\ [Next]_vars => [Exclusion!Next]_(Exclusion!vars)
  BY ExclusionStep
<1> QED
  BY <1>1, <1>2, StoreInvariant, PTL DEF Spec, NeverShownAgain, Exclusion!Spec

(***************************************************************************)
(* Revivals.  Each one spends a check made before the suppression, and a   *)
(* process holds one check at a time.                                      *)
(***************************************************************************)

\* The processes about to move business i to a live status.
Late(i) == {p \in Procs : pending[p] # None /\ pending[p].id = i /\ pending[p].to # Dead}

RevivalInv ==
  \A i \in Ids :
    IF i \in suppression
      THEN /\ IsFiniteSet(Revivals(i))
           /\ Cardinality(Revivals(i)) + Cardinality(Late(i)) <= Cardinality(Procs)
      ELSE \A k \in 1..Len(events[i]) : events[i][k].from # NoFrom

LEMMA LateCount ==
  ASSUME NEW i
  PROVE  /\ IsFiniteSet(Late(i)) /\ Late(i) \subseteq Procs
         /\ Cardinality(Late(i)) \in Nat /\ Cardinality(Procs) \in Nat
         /\ Cardinality(Late(i)) <= Cardinality(Procs)
<1>1. Late(i) \subseteq Procs /\ IsFiniteSet(Procs)
  BY CatalogAssumption DEF Late
<1> QED
  BY <1>1, FS_Subset, FS_CardinalityType

LEMMA FewerSum ==
  ASSUME NEW R, NEW L, IsFiniteSet(R), IsFiniteSet(L), NEW S \in SUBSET R, NEW M \in SUBSET L,
         NEW n \in Nat, Cardinality(R) + Cardinality(L) <= n
  PROVE  IsFiniteSet(S) /\ Cardinality(S) + Cardinality(M) <= n
<1>1. /\ IsFiniteSet(S) /\ IsFiniteSet(M)
      /\ Cardinality(S) <= Cardinality(R) /\ Cardinality(M) <= Cardinality(L)
  BY FS_Subset
<1>2. /\ Cardinality(S) \in Nat /\ Cardinality(M) \in Nat
      /\ Cardinality(R) \in Nat /\ Cardinality(L) \in Nat
  BY <1>1, FS_CardinalityType
<1> QED
  BY <1>1, <1>2

\* What one more entry can add to the revivals of a business.
LEMMA AppendRevivals ==
  ASSUME TypeOK, NEW i \in Ids, NEW from, NEW to, [from |-> from, to |-> to] \in Event,
         AppendEvent(i, from, to)
  PROVE  /\ Len(events[i]) \in Nat /\ Len(events'[i]) = Len(events[i]) + 1
         /\ \A k \in 1..Len(events[i]) : events'[i][k] = events[i][k]
         /\ events'[i][Len(events[i]) + 1].from = from
         /\ Revivals(i)' \subseteq Revivals(i) \cup {Len(events[i]) + 1}
         /\ to = Dead \/ (\A k \in 1..Len(events[i]) : events[i][k].from # NoFrom)
              => Revivals(i)' \subseteq Revivals(i)
         /\ \A j \in Ids \ {i} : events'[j] = events[j] /\ Revivals(j)' = Revivals(j)
<1> DEFINE e == [from |-> from, to |-> to]
           n == Len(events[i])
<1>1. events[i] \in Seq(Event) /\ events'[i] = Append(events[i], e) /\ e \in Event
      /\ \A j \in Ids \ {i} : events'[j] = events[j]
  BY DEF AppendEvent, TypeOK
<1>0. e.from = from /\ e.to = to
  OBVIOUS
<1> HIDE DEF e
<1>2. /\ n \in Nat /\ Len(events'[i]) = n + 1 /\ events'[i][n + 1] = e
      /\ \A k \in 1..n : events'[i][k] = events[i][k]
  BY <1>1
<1>3. ASSUME NEW k \in 1..n, k \in Revivals(i)' PROVE k \in Revivals(i)
  BY <1>2, <1>3 DEF Revivals
<1>4. Revivals(i)' \subseteq 1..(n + 1)
  BY <1>2 DEF Revivals
<1>5. ASSUME to = Dead \/ (\A k \in 1..n : events[i][k].from # NoFrom), n + 1 \in Revivals(i)'
      PROVE  FALSE
  <2>1. e.to # Dead /\ \E j \in 1..n : events[i][j].from = NoFrom
    BY <1>2, <1>5 DEF Revivals
  <2> QED
    BY <1>0, <1>5, <2>1
<1>6. \A j \in Ids \ {i} : Revivals(j)' = Revivals(j)
  BY <1>1 DEF Revivals
<1>7. Revivals(i)' \subseteq Revivals(i) \cup {n + 1}
  BY <1>2, <1>3, <1>4
<1> QED
  BY <1>0, <1>1, <1>2, <1>5, <1>6, <1>7

\* Before its suppression a business has none.
LEMMA FreshHasNone ==
  ASSUME TypeOK, NEW i \in Ids, \A k \in 1..Len(events[i]) : events[i][k].from # NoFrom
  PROVE  Revivals(i) = {}
<1>1. Len(events[i]) \in Nat
  BY DEF TypeOK
<1>2. ASSUME NEW k \in 1..Len(events[i]), NEW j \in 1..(k - 1) PROVE events[i][j].from # NoFrom
  <2>1. j \in 1..Len(events[i])
    BY <1>1, <1>2
  <2> QED
    BY <2>1
<1> QED
  BY <1>2 DEF Revivals

\* A step that writes no history and checks nothing for a live status.
LEMMA NoEntryKeepsRevivals ==
  ASSUME RevivalInv, UNCHANGED <<events, suppression>>,
         \A i \in suppression : Late(i)' \subseteq Late(i)
  PROVE  RevivalInv'
<1> SUFFICES ASSUME NEW i \in Ids, i \in suppression
             PROVE  /\ IsFiniteSet(Revivals(i)')
                    /\ Cardinality(Revivals(i)') + Cardinality(Late(i)') <= Cardinality(Procs)
  BY DEF RevivalInv
<1>1. /\ Revivals(i)' = Revivals(i) /\ IsFiniteSet(Revivals(i))
      /\ Cardinality(Revivals(i)) + Cardinality(Late(i)) <= Cardinality(Procs)
  BY DEF Revivals, RevivalInv
<1>2. IsFiniteSet(Late(i)) /\ Cardinality(Procs) \in Nat /\ Late(i)' \subseteq Late(i)
  BY LateCount
<1> QED
  BY <1>1, <1>2, FewerSum

LEMMA SetStatusKeepsRevivals ==
  ASSUME StoreInv, RevivalInv, NEW p \in Procs, SetOutreachStatus(p)
  PROVE  RevivalInv'
<1>0. PICK i \in Ids, to \in Statuses : i = pending[p].id /\ to = pending[p].to
  BY DEF SetOutreachStatus, StoreInv, TypeOK
<1> DEFINE n == Len(events[i])
<1>1. /\ TypeOK /\ i \in Ids /\ to \in Statuses /\ outreach[i] \in Statuses /\ outreach[i] # NoFrom
      /\ UNCHANGED suppression
  <2>1. i \in Stored
    BY <1>0 DEF SetOutreachStatus, StoreInv, EntriesOpen
  <2> QED
    BY <2>1, AbsentAssumption DEF SetOutreachStatus, StoreInv, EntriesOpen
<1>2. AppendEvent(i, outreach[i], to)
  BY <1>0 DEF SetOutreachStatus
<1>3. pending' = [pending EXCEPT ![p] = None] /\ pending[p] # None
  BY DEF SetOutreachStatus
<1>4. [from |-> outreach[i], to |-> to] \in Event
  BY <1>1 DEF Event
<1>5. \A j \in Ids : Late(j)' \subseteq Late(j)
  BY <1>0, <1>1, <1>3 DEF Late, TypeOK
<1>6. to # Dead => p \in Late(i) /\ p \notin Late(i)'
  BY <1>0, <1>1, <1>3 DEF Late, TypeOK
<1>7. /\ n \in Nat /\ Len(events'[i]) = n + 1
      /\ \A k \in 1..n : events'[i][k] = events[i][k]
      /\ events'[i][n + 1].from = outreach[i]
      /\ Revivals(i)' \subseteq Revivals(i) \cup {n + 1}
      /\ to = Dead => Revivals(i)' \subseteq Revivals(i)
      /\ \A j \in Ids \ {i} : events'[j] = events[j] /\ Revivals(j)' = Revivals(j)
  BY <1>1, <1>2, <1>4, AppendRevivals
<1> HIDE DEF n
<1>8. ASSUME NEW j \in Ids, j \in suppression
      PROVE  /\ IsFiniteSet(Revivals(j)')
             /\ Cardinality(Revivals(j)') + Cardinality(Late(j)') <= Cardinality(Procs)
  <2>1. /\ IsFiniteSet(Revivals(j)) /\ IsFiniteSet(Late(j))
        /\ Cardinality(Revivals(j)) + Cardinality(Late(j)) <= Cardinality(Procs)
        /\ Cardinality(Procs) \in Nat
        /\ Cardinality(Revivals(j)) \in Nat /\ Cardinality(Late(j)) \in Nat
    BY <1>8, LateCount, FS_CardinalityType DEF RevivalInv
  <2>2. CASE j # i \/ to = Dead
    <3>1. Revivals(j)' \subseteq Revivals(j)
      BY <1>7, <2>2
    <3> QED
      BY <1>5, <2>1, <3>1, FewerSum
  <2>3. CASE j = i /\ to # Dead
    <3>0. /\ IsFiniteSet(Revivals(j) \cup {n + 1})
          /\ Cardinality(Revivals(j) \cup {n + 1}) =
               IF n + 1 \in Revivals(j) THEN Cardinality(Revivals(j))
               ELSE Cardinality(Revivals(j)) + 1
      BY <2>1, FS_AddElement
    <3>1. /\ IsFiniteSet(Revivals(j) \cup {n + 1})
          /\ Cardinality(Revivals(j) \cup {n + 1}) <= Cardinality(Revivals(j)) + 1
          /\ Cardinality(Revivals(j) \cup {n + 1}) \in Nat
      BY <2>1, <3>0
    <3>2. /\ IsFiniteSet(Late(j) \ {p}) /\ Cardinality(Late(j) \ {p}) = Cardinality(Late(j)) - 1
      BY <1>6, <2>1, <2>3, FS_RemoveElement
    <3>3. Cardinality(Revivals(j) \cup {n + 1}) + Cardinality(Late(j) \ {p}) <= Cardinality(Procs)
      BY <2>1, <3>1, <3>2
    <3>4. Revivals(j)' \subseteq Revivals(j) \cup {n + 1} /\ Late(j)' \subseteq Late(j) \ {p}
      BY <1>5, <1>6, <1>7, <2>3
    <3> DEFINE R == Revivals(j) \cup {n + 1}
               L == Late(j) \ {p}
    <3>5. /\ IsFiniteSet(R) /\ IsFiniteSet(L) /\ Cardinality(R) + Cardinality(L) <= Cardinality(Procs)
          /\ Revivals(j)' \in SUBSET R /\ Late(j)' \in SUBSET L
      BY <3>1, <3>2, <3>3, <3>4
    <3> HIDE DEF R, L
    <3> QED
      BY <2>1, <3>5, FewerSum
  <2> QED
    BY <2>2, <2>3
<1>9. ASSUME NEW j \in Ids, j \notin suppression, NEW k \in 1..Len(events'[j])
      PROVE  events'[j][k].from # NoFrom
  <2>1. \A m \in 1..Len(events[j]) : events[j][m].from # NoFrom
    BY <1>9 DEF RevivalInv
  <2>2. CASE j # i
    BY <1>7, <1>9, <2>1, <2>2
  <2>3. CASE j = i
    <3>1. k \in 1..n \/ k = n + 1
      BY <1>7, <1>9, <2>3
    <3> QED
      BY <1>1, <1>7, <2>1, <2>3, <3>1 DEF n
  <2> QED
    BY <2>2, <2>3
<1> QED
  BY <1>1, <1>8, <1>9 DEF RevivalInv

LEMMA SuppressKeepsRevivals ==
  ASSUME StoreInv, RevivalInv, NEW i \in Ids, NEW idOnly \in BOOLEAN, Suppress(i, idOnly)
  PROVE  RevivalInv'
<1>1. TypeOK /\ AppendEvent(i, NoFrom, Dead) /\ [from |-> NoFrom, to |-> Dead] \in Event
  BY CatalogAssumption DEF StoreInv, Suppress, Event
<1>2. suppression' = suppression \cup {i} /\ \A j \in Ids : Late(j)' = Late(j)
  BY DEF Suppress, Late
<1>3. /\ Revivals(i)' \subseteq Revivals(i)
      /\ \A j \in Ids \ {i} : events'[j] = events[j] /\ Revivals(j)' = Revivals(j)
  BY <1>1, AppendRevivals
<1>4. ASSUME NEW j \in Ids, j \in suppression'
      PROVE  /\ IsFiniteSet(Revivals(j)')
             /\ Cardinality(Revivals(j)') + Cardinality(Late(j)') <= Cardinality(Procs)
  <2>1. /\ IsFiniteSet(Late(j)) /\ Cardinality(Procs) \in Nat /\ Cardinality(Late(j)) \in Nat
        /\ Cardinality(Late(j)) <= Cardinality(Procs)
    BY LateCount
  <2>2. /\ IsFiniteSet(Revivals(j))
        /\ Cardinality(Revivals(j)) + Cardinality(Late(j)) <= Cardinality(Procs)
    <3>1. CASE j \in suppression
      BY <3>1 DEF RevivalInv
    <3>2. CASE j \notin suppression
      <4>1. Revivals(j) = {}
        BY <1>1, <3>2, FreshHasNone DEF RevivalInv
      <4> QED
        BY <2>1, <4>1, FS_EmptySet
    <3> QED
      BY <3>1, <3>2
  <2>3. Revivals(j)' \subseteq Revivals(j) /\ Late(j)' \subseteq Late(j)
    BY <1>2, <1>3
  <2> QED
    BY <2>1, <2>2, <2>3, FewerSum
<1>5. \A j \in Ids : j \notin suppression' =>
         j \notin suppression /\ events'[j] = events[j]
  BY <1>2, <1>3
<1> QED
  BY <1>4, <1>5 DEF RevivalInv

LEMMA RevivalStep == StoreInv /\ RevivalInv /\ [Next]_vars => RevivalInv'
<1> SUFFICES ASSUME StoreInv, RevivalInv, [Next]_vars PROVE RevivalInv'
  OBVIOUS
<1>1. ASSUME UNCHANGED <<events, suppression, pending>> PROVE RevivalInv'
  <2>1. \A i \in suppression : Late(i)' \subseteq Late(i)
    BY <1>1 DEF Late
  <2> QED
    BY <1>1, <2>1, NoEntryKeepsRevivals
<1>2. ASSUME NEW p \in Procs, NEW i \in Ids, NEW to \in Statuses, CheckStatus(p, i, to)
      PROVE  RevivalInv'
  <2>1. \A j \in suppression : Late(j)' \subseteq Late(j)
    BY <1>2 DEF CheckStatus, Late, StoreInv, TypeOK
  <2> QED
    BY <1>2, <2>1, NoEntryKeepsRevivals DEF CheckStatus
<1>3. ASSUME NEW p \in Procs, AbandonStatus(p) PROVE RevivalInv'
  <2>1. \A j \in suppression : Late(j)' \subseteq Late(j)
    BY <1>3 DEF AbandonStatus, Late, StoreInv, TypeOK
  <2> QED
    BY <1>3, <2>1, NoEntryKeepsRevivals DEF AbandonStatus
<1>4. CASE Operate
  BY <1>1, <1>2, <1>3, <1>4, SetStatusKeepsRevivals, SuppressKeepsRevivals
  DEF Operate, UpdateBusinessEmail
<1>5. ASSUME NEW s \in Sightings, UpsertBusiness(s) PROVE RevivalInv'
  BY <1>1, <1>5 DEF UpsertBusiness
<1> QED
  BY <1>1, <1>4, <1>5 DEF Next, vars

\* A suppressed business comes back to a live status at most once per process:
\* only a check made before its suppression leads there, and it is spent by the
\* write (status.go: setStatus; outreach.go: SetOutreachStatus).
THEOREM RevivalsAreBounded == Spec => []RevivalsBounded
<1>1. Init => RevivalInv
  <2>1. Init => suppression = {} /\ \A i \in Ids : 1..Len(events[i]) = {}
    BY DEF Init
  <2> QED
    BY <2>1 DEF RevivalInv
<1>2. StoreInv /\ RevivalInv => RevivalsBounded
  <2> SUFFICES ASSUME StoreInv, RevivalInv, NEW i \in Ids
               PROVE  Cardinality(Revivals(i)) <= Cardinality(Procs)
    BY DEF RevivalsBounded
  <2>1. Cardinality(Late(i)) \in Nat /\ Cardinality(Procs) \in Nat
    BY LateCount
  <2>2. CASE i \in suppression
    <3>1. /\ IsFiniteSet(Revivals(i))
          /\ Cardinality(Revivals(i)) + Cardinality(Late(i)) <= Cardinality(Procs)
      BY <2>2 DEF RevivalInv
    <3>2. Cardinality(Revivals(i)) \in Nat
      BY <3>1, FS_CardinalityType
    <3> QED
      BY <2>1, <3>1, <3>2
  <2>3. CASE i \notin suppression
    <3>1. Revivals(i) = {}
      BY <2>3, FreshHasNone DEF RevivalInv, StoreInv
    <3> QED
      BY <2>1, <3>1, FS_EmptySet
  <2> QED
    BY <2>2, <2>3
<1> QED
  BY <1>1, <1>2, RevivalStep, StoreInvariant, PTL DEF Spec
=============================================================================
