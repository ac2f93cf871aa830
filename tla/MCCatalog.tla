----------------------------- MODULE MCCatalog -----------------------------
(***************************************************************************)
(* A small instance of Catalog: two sites, one of them spelled two ways,   *)
(* a bare social link that identifies nothing, two names, one of them      *)
(* spelled two ways, and one Google listing seen at both sites.            *)
(***************************************************************************)
EXTENDS Catalog

MCWebsites == {"acme.com", "www.acme.com/contact", "globex.com", "facebook.com"}
MCDomains == {"acme", "globex"}
MCLabels == {"Acme", "The Acme Inc", "Globex"}
MCNameKeys == {"acme|", "globex|"}
MCEmails == {"info@"}
MCPlaces == {"place1"}

MCDomainOf ==
  [w \in MCWebsites \cup {None} |->
     CASE w \in {"acme.com", "www.acme.com/contact"} -> "acme"
       [] w = "globex.com" -> "globex"
       [] OTHER -> None]

MCNameKeyOf ==
  [n \in MCLabels \cup {None} |->
     CASE n \in {"Acme", "The Acme Inc"} -> "acme|"
       [] n = "Globex" -> "globex|"
       [] OTHER -> None]

Sees(website, label, email, place) ==
  [website |-> website, label |-> label, email |-> email, place |-> place]

MCSightings ==
  {Sees(None, "Acme", None, None),
   Sees("acme.com", "The Acme Inc", "info@", "place1"),
   Sees("www.acme.com/contact", "Globex", None, None),
   Sees("globex.com", "Globex", None, "place1"),
   Sees("facebook.com", "Globex", None, None),
   Sees(None, None, "info@", None)}

MCTwoSightings ==
  {Sees(None, "Acme", None, None), Sees("globex.com", "Globex", "info@", None)}

MCStatuses == {NotContacted, "emailed_1", Dead}
=============================================================================
