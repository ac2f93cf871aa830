-------------------------- MODULE MCCatalogHistory --------------------------
(***************************************************************************)
(* The instance of MCCatalog with the history of CatalogHistory.           *)
(***************************************************************************)
EXTENDS MCCatalog, CatalogHistory
=============================================================================
