--------------------------- MODULE CatalogHistory ---------------------------
(***************************************************************************)
(* Catalog with the history of which record landed on which row, for the   *)
(* question whether re-importing a spreadsheet can bring a removed         *)
(* business back.                                                          *)
(***************************************************************************)
EXTENDS Catalog

VARIABLE landed (* <<sighting, id>> pairs an UpsertBusiness stored *)

\* The rows the upsert of s has just returned as inserted, merged or unchanged.
LandedOn(s) ==
  CASE outcome'.result = "inserted" -> Stored' \ Stored
    [] outcome'.result \in {"merged", "unchanged"} -> Find(s)
    [] OTHER -> {}

HistoryInit == Init /\ landed = {}

HistoryNext ==
  \/ Operate /\ UNCHANGED landed
  \/ \E s \in Sightings : /\ UpsertBusiness(s)
                          /\ landed' = landed \cup {<<s, i>> : i \in LandedOn(s)}

HistorySpec == HistoryInit /\ [][HistoryNext]_<<vars, landed>>

\* README.md: "a business that asked to be removed stays gone even if it is
\* still sitting in your spreadsheet": a record that already landed on a row
\* whose domain is suppressed never lands on a row that is shown.
RemovedStaysGone ==
  [][\A s \in Sightings, i \in suppression :
       /\ <<s, i>> \in landed
       /\ business[i].domain \in suppressionDomains
       => \A j \in Ids : <<s, j>> \in landed' \ landed => j \notin Active'
    ]_<<vars, landed>>
=============================================================================
