------------------------------ MODULE MCStartup ------------------------------
(***************************************************************************)
(* A small instance of Startup: three commands, two of them of a release   *)
(* with a second migration, and the settings that decide on spending.      *)
(***************************************************************************)
EXTENDS Startup

CONSTANTS p1, p2, p3

MCProcs == {p1, p2, p3}
MCEmbedded == (p1 :> {1}) @@ (p2 :> {1, 2}) @@ (p3 :> {1, 2})
MCNumberOf == ("0" :> 0) @@ ("-1" :> -1) @@ ("90" :> 90) @@ ("900" :> 900) @@ ("9000" :> 9000)
MCBoolOf == ("1" :> TRUE) @@ ("true" :> TRUE) @@ ("0" :> FALSE) @@ ("false" :> FALSE)
MCFreeMonthly == [free |-> 0, essentials |-> 10000, pro |-> 5000, enterprise |-> 1000]

Line(key, value) == [key |-> key, value |-> value]
Nothing == [k \in {} |-> ""]
MCGivens ==
  {[env |-> e, file |-> f] :
     e \in {Nothing, "ALLOW_PAID" :> ""},
     f \in {<<>>, <<Line("PLACES_MAX", "0"), Line("ALLOW_PAID", "true"), Line("PLACES_MAX", "9000")>>}}
  \cup {[env |-> "MARGIN" :> "junk", file |-> <<>>], [env |-> "ALLOW_PAID" :> "1", file |-> <<Line("", "")>>]}
MCFlags == {Nothing, "LOG_FORMAT" :> "yaml"}

----------------------------------------------------------------------------
Texts == DOMAIN NumberOf \cup DOMAIN BoolOf \cup {"", "junk"}
Configurations ==
  {Resolve(("PLACES_MAX" :> n) @@ ("MARGIN" :> m) @@ ("ALLOW_PAID" :> b)) :
     n \in {t \in Texts : Errors("PLACES_MAX" :> t) = {}},
     m \in {t \in Texts : Errors("MARGIN" :> t) = {}}, b \in {t \in Texts : Errors("ALLOW_PAID" :> t) = {}}}

\* Unless paying is allowed, whatever else is set, no ceiling exceeds the share
\* of the free allowance that the margin leaves, and a number that was reduced is
\* reported (ledger.go: Ceiling, Clamped).
ASSUME FreeStaysFree ==
  \A c \in Configurations : ~c.allowPaid => \A sku \in AllSKUs \ {AdsSKU} :
    LET limits == QuotaLimits(c)
    IN  /\ 100 * Ceiling(limits, sku) <= FreeMonthly[sku.tier] * c.margin
        /\ Clamped(limits, sku) <=> c.placesMax > 0 /\ Ceiling(limits, sku) # c.placesMax

Listed == [id |-> "essentials", displayName |-> "pro", websiteUri |-> "enterprise"]

\* Adding a field to a mask never makes the call look cheaper (sku.go).
ASSUME MasksOnlyGetDearer ==
  \A mask \in SUBSET (DOMAIN Listed \cup {"unlisted"}) : \A f \in mask :
    FreeMonthly[TextSearchSKU(mask, Listed).tier] <= FreeMonthly[TextSearchSKU(mask \ {f}, Listed).tier]
=============================================================================
