------------------------------ MODULE Settings ------------------------------
(***************************************************************************)
(* What a command is told: flags, the environment and the .env file, the   *)
(* configuration they resolve to (internal/config, cli/root.go), and the   *)
(* ceiling it gives each billable call (quota/ledger.go, quota/sku.go).    *)
(* An environment is a function from names to texts; a blank text is "".   *)
(* Of several settings read the same way one is kept.  The margin is in    *)
(* percent, and the product with it is exact here and a float64 in the     *)
(* code.                                                                   *)
(***************************************************************************)
EXTENDS Integers, SequencesExt, FiniteSetsExt

CONSTANTS
  NumberOf,      (* the texts that are numbers, and which                   *)
  BoolOf,        (* the texts strconv.ParseBool takes, and what they mean   *)
  Addresses,     (* the texts with an @ in them                             *)
  DefaultMargin, (* quota.DefaultSafetyMargin, in percent                   *)
  UnmeteredCap,  (* quota.DefaultUnmeteredCap                               *)
  FreeMonthly    (* per tier: "essentials", "pro", "enterprise", and 0 for  *)
                 (* "free"                                                  *)

PaidTiers == {"essentials", "pro", "enterprise"}

ASSUME SettingsAssumption ==
  /\ NumberOf \in [DOMAIN NumberOf -> Int] /\ BoolOf \in [DOMAIN BoolOf -> BOOLEAN]
  /\ DefaultMargin \in 1..100 /\ UnmeteredCap \in Nat
  /\ FreeMonthly \in [PaidTiers \cup {"free"} -> Nat]
  /\ \A tier \in PaidTiers : FreeMonthly[tier] # 0

----------------------------------------------------------------------------
(* Where a setting comes from.                                              *)

Over(f, g) == [k \in DOMAIN f \cup DOMAIN g |-> IF k \in DOMAIN f THEN f[k] ELSE g[k]]

\* overrideEnv: a flag that was given is written over the environment.
OverrideEnv(env, flags) == Over([k \in {n \in DOMAIN flags : flags[n] # ""} |-> flags[k]], env)

\* A line is a [key, value]; the key is "" where there is no '=' or no key.
ParsesAsDotEnv(file) == \A line \in ToSet(file) : line.key # ""

Keys(file) == {line.key : line \in ToSet(file)}

\* Of several lines about one key the last wins.
ParseDotEnv(file) ==
  [k \in Keys(file) |-> file[Max({i \in DOMAIN file : file[i].key = k})].value]

\* Faulty variant: the file wins over the environment.
FaultyLoadDotEnv(env, file) == Over(ParseDotEnv(file), env)

\* A name the environment has, blank or not, is not taken from the file.
LoadDotEnv(env, file) == Over(env, ParseDotEnv(file))

Blank(env, name) == IF name \in DOMAIN env THEN env[name] = "" ELSE TRUE
Str(env, name, def) == IF Blank(env, name) THEN def ELSE env[name]

\* The value read, or the default if there is none or it cannot be read.
Read(env, name, def, values) ==
  IF Blank(env, name) \/ Str(env, name, "") \notin DOMAIN values THEN def ELSE values[env[name]]

Misread(env, name, values) == ~Blank(env, name) /\ env[name] \notin DOMAIN values

----------------------------------------------------------------------------
(* Load.                                                                    *)

Resolve(env) ==
  [format |-> Str(env, "LOG_FORMAT", "text"),
   email |-> Str(env, "EMAIL", ""),
   workers |-> Read(env, "WORKERS", 5, NumberOf),
   placesMax |-> Read(env, "PLACES_MAX", 0, NumberOf),
   margin |-> Read(env, "MARGIN", DefaultMargin, NumberOf),
   allowPaid |-> Read(env, "ALLOW_PAID", FALSE, BoolOf)]

\* The names reported, all of them at once.
Errors(env) ==
  LET c == Resolve(env)
  IN  {n \in {"WORKERS", "PLACES_MAX", "MARGIN"} : Misread(env, n, NumberOf)}
      \cup {n \in {"ALLOW_PAID"} : Misread(env, n, BoolOf)}
      \cup {n \in {"LOG_FORMAT"} : c.format \notin {"text", "json"}}
      \cup {n \in {"WORKERS"} : c.workers < 1}
      \cup {n \in {"PLACES_MAX"} : c.placesMax < 0}
      \cup {n \in {"MARGIN"} : c.margin <= 0 \/ c.margin > 100}
      \cup {n \in {"EMAIL"} : c.email # "" /\ c.email \notin Addresses}

Environment(given, flags) == LoadDotEnv(OverrideEnv(given.env, flags), given.file)

Loads(given, flags) == ParsesAsDotEnv(given.file) /\ Errors(Environment(given, flags)) = {}

----------------------------------------------------------------------------
(* What a call costs.  A SKU is a kind of call at a tier.                   *)

TierRank == [free |-> 0, essentials |-> 1, pro |-> 2, enterprise |-> 3]

SearchSKU == {[call |-> "text_search", tier |-> t] : t \in PaidTiers}
DetailsSKU == {[call |-> "place_details", tier |-> t] : t \in PaidTiers}
AdsSKU == [call |-> "ads_archive", tier |-> "free"]
AllSKUs == SearchSKU \cup DetailsSKU \cup {AdsSKU}

\* The tier of a field; one Google has not listed is taken for the dearest.
TierOf(field, listed) == IF field \in DOMAIN listed THEN listed[field] ELSE "enterprise"

\* The highest tier among the fields of a mask that is not empty.
TierForFields(mask, listed) ==
  LET tiers == {TierOf(f, listed) : f \in mask} \cup {"essentials"}
  IN  CHOOSE t \in tiers : \A u \in tiers : TierRank[u] <= TierRank[t]

TextSearchSKU(mask, listed) == [call |-> "text_search", tier |-> TierForFields(mask, listed)]

\* QuotaLimits: one number for every SKU of Places.
QuotaLimits(c) ==
  [allowPaid |-> c.allowPaid, margin |-> c.margin,
   overrides |-> [s \in (IF c.placesMax > 0 THEN AllSKUs \ {AdsSKU} ELSE {}) |-> c.placesMax]]

Overridden(limits, sku) == sku \in DOMAIN limits.overrides /\ limits.overrides[sku] > 0

Free(limits, sku) ==
  (FreeMonthly[sku.tier] * (IF limits.margin \in 1..100 THEN limits.margin ELSE DefaultMargin)) \div 100

Ceiling(limits, sku) ==
  IF FreeMonthly[sku.tier] = 0
    THEN IF Overridden(limits, sku) THEN limits.overrides[sku] ELSE UnmeteredCap
  ELSE IF ~Overridden(limits, sku) THEN Free(limits, sku)
  ELSE IF limits.allowPaid THEN limits.overrides[sku]
  ELSE Min({limits.overrides[sku], Free(limits, sku)})

Clamped(limits, sku) ==
  /\ Overridden(limits, sku) /\ ~limits.allowPaid /\ FreeMonthly[sku.tier] # 0
  /\ limits.overrides[sku] > Ceiling(limits, sku)
=============================================================================
