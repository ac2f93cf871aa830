------------------------------ MODULE MCEnrich ------------------------------
(***************************************************************************)
(* A small instance of Enrich: either two commands with one worker each   *)
(* or one command with two; a site that can be read in several ways, so    *)
(* that a reading supersedes or joins an older one, and one that           *)
(* robots.txt disallows.                                                   *)
(***************************************************************************)
EXTENDS Enrich

Says(type, value) == [source |-> "website", type |-> type, value |-> value]

MCSources == {"website"}
MCTypes == {"contact_email", "contact_form", "automation_tag", "robots_disallowed"}
MCMultiTypes == {"automation_tag"}
MCValues == {"true", "false", "info@", "hubspot", "calendly"}

\* What a signal list of the website source looks like: a form or none, and
\* what else was found.
WithForm == <<Says("contact_email", "info@"), Says("contact_form", "true")>>
WithTag(tag) == <<Says("contact_form", "false"), Says("automation_tag", tag)>>
NotAllowed == <<Says("robots_disallowed", "true")>>

MCSiteReads ==
  [b \in Businesses |-> IF b = 1 THEN {WithForm, WithTag("hubspot")} ELSE {NotAllowed}]

CONSTANTS p1, p2, w1, w2

MCProcs == {p1, p2}
MCOneProc == {p1}
MCWorkers == {w1, w2}
MCOneWorker == {w1}
MCPools == [p \in Procs |-> Workers]

\* One site seen in every way.
MCManyReads ==
  [b \in Businesses |-> {WithForm, WithTag("hubspot"), WithTag("calendly"), NotAllowed}]

MCNoAds == {<<>>}
MCAnyResume == BOOLEAN
MCDefaultResume == {TRUE}
=============================================================================
