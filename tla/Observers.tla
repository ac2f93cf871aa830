------------------------------ MODULE Observers ------------------------------
(***************************************************************************)
(* Who else observes a business: the Meta Ad Library, asked by name        *)
(* (internal/source/metaads), and the operator (cli/signal.go).  A name is *)
(* what dedup.NormalizeName leaves of it, as a sequence.                   *)
(***************************************************************************)
EXTENDS Integers, Sequences

CONSTANTS
  Figures,   (* the texts that are positive numbers                         *)
  Mailboxes  (* the texts with an @ in them                                 *)

Within(a, b) == \E i \in 0 .. Len(b) - Len(a) : SubSeq(b, i + 1, i + Len(a)) = a

\* matchAds: the advertisers whose name holds the business's, or is held by it.
MatchAds(name, ads) ==
  {page \in ads : <<>> \notin {page, name} /\ (Within(name, page) \/ Within(page, name))}

\* Collect: having looked and found nothing is an answer too.
AdSignal(name, ads) ==
  [source |-> "meta_ads", type |-> "running_ads",
   value |-> IF MatchAds(name, ads) = {} THEN "false" ELSE "true"]

\* validateSignalValue: what the engine could not read is refused.
ValidEntry(type, value) ==
  /\ value # ""
  /\ type \in {"running_ads", "hiring_lead_role", "contact_form", "chat_widget"}
       => value \in {"true", "false"}
  /\ type = "size_band" => value \in {"micro", "smb", "mid", "large"}
  /\ type = "response_time_hours" => value \in Figures
  /\ type = "contact_email" => value \in Mailboxes

ManualSignal(type, value) == [source |-> "manual", type |-> type, value |-> value]
=============================================================================
