---------------------------- MODULE StartupProofs ----------------------------
(***************************************************************************)
(* Proofs about Startup for any number of commands and releases, any set   *)
(* of migrations and statements, any settings and any number of crashes:   *)
(* the file is never between two versions, a command that has started has  *)
(* its schema, and no command can spend without being told to.             *)
(***************************************************************************)
EXTENDS Startup, AggregateProofs

USE StartupAssumption

----------------------------------------------------------------------------
(* Types.                                                                  *)

Proc == [stage : Stages, flags : Flags, applied : SUBSET Versions]
Tx == [by : Procs \cup {Nobody}, version : Versions \cup {0},
       done : 0..Statements, recorded : BOOLEAN]

LEMMA NextVersionIsUnapplied ==
  ASSUME NEW p \in Procs, Unapplied(p) # {}
  PROVE  NextVersion(p) \in Unapplied(p) /\ NextVersion(p) \in Versions
<1>1. Unapplied(p) \subseteq Versions
  BY DEF Unapplied
<1> QED
  BY <1>1, MinIsMember DEF NextVersion

----------------------------------------------------------------------------
(* The invariant: who writes is applying, in a table that exists, a version *)
(* that it has not applied; what a command has read is on record; and the  *)
(* schema is that of the record.                                           *)

OpenTx ==
  tx.by # Nobody =>
    /\ At(tx.by, "apply") /\ table
    /\ tx.version \in Unapplied(tx.by)
    /\ tx.recorded => tx.done = Statements

OnRecord ==
  \A p \in Procs :
    /\ proc[p].applied \subseteq recorded
    /\ proc[p].stage \in {"read", "apply", "ready"} => table
    /\ At(p, "ready") => Unapplied(p) = {}

StartInv == TypeOK /\ OpenTx /\ OnRecord /\ NeverHalfMigrated

LEMMA InvInit == Init => StartInv
<1> SUFFICES ASSUME Init PROVE StartInv
  OBVIOUS
<1>1. tx = NoTx /\ NoTx \in Tx /\ tx.by = Nobody
  BY DEF Init, NoTx, Tx
<1>2. \A f \in Flags : Fresh("idle", f) \in Proc
  BY DEF Fresh, Stages, Proc
<1>3. \A p \in Procs : \E f \in Flags : proc[p] = Fresh("idle", f)
  BY DEF Init
<1>4. proc \in [Procs -> Proc]
  BY <1>2 DEF Init
<1>5. schema \in [Versions -> 0..Statements] /\ recorded \subseteq Versions
  <2>1. 0 \in 0..Statements
    OBVIOUS
  <2> QED
    BY <2>1 DEF Init
<1>6. faults \in 0..MaxFaults /\ table \in BOOLEAN
  <2>1. 0 \in 0..MaxFaults
    OBVIOUS
  <2>2. faults = 0 /\ table = FALSE
    BY DEF Init
  <2> QED
    BY <2>1, <2>2
<1>7. TypeOK
  BY <1>1, <1>4, <1>5, <1>6 DEF TypeOK, Tx, Proc
<1>8. OnRecord
  <2>1. \A p \in Procs : proc[p].stage = "idle" /\ proc[p].applied = {}
    <3> SUFFICES ASSUME NEW p \in Procs PROVE proc[p].stage = "idle" /\ proc[p].applied = {}
      OBVIOUS
    <3>1. PICK f \in Flags : proc[p] = Fresh("idle", f)
      BY <1>3
    <3> QED
      BY <3>1 DEF Fresh
  <2> QED
    BY <2>1 DEF OnRecord, At
<1>9. NeverHalfMigrated
  BY DEF Init, NeverHalfMigrated
<1> QED
  BY <1>1, <1>7, <1>8, <1>9 DEF StartInv, OpenTx

\* A step of a command that leaves the record and the schema alone, and at the
\* end of which it does not write.
LEMMA QuietStep ==
  ASSUME StartInv, NEW p \in Procs, NEW r \in Proc, proc' = [proc EXCEPT ![p] = r],
         UNCHANGED <<recorded, schema>>, table' \in BOOLEAN, table => table',
         faults' \in 0..MaxFaults, tx' = NoTx \/ (tx' = tx /\ tx.by # p),
         r.applied \subseteq recorded, r.stage \in {"read", "apply", "ready"} => table',
         r.stage = "ready" => Embedded[p] \ r.applied = {}
  PROVE  StartInv'
<1>1. proc \in [Procs -> Proc] /\ tx \in Tx /\ NoTx \in Tx
  BY DEF StartInv, TypeOK, Proc, Tx, NoTx
<1>2. proc' \in [Procs -> Proc] /\ proc'[p] = r /\ \A q \in Procs \ {p} : proc'[q] = proc[q]
  BY <1>1
<1>3. TypeOK'
  BY <1>1, <1>2 DEF StartInv, TypeOK, Proc, Tx
<1>4. OpenTx'
  <2>1. CASE tx' = NoTx
    BY <2>1 DEF OpenTx, NoTx
  <2>2. CASE tx' = tx /\ tx.by # p /\ tx.by # Nobody
    <3>1. tx.by \in Procs /\ proc'[tx.by] = proc[tx.by]
      BY <1>1, <1>2, <2>2 DEF Tx
    <3> QED
      BY <2>2, <3>1 DEF StartInv, OpenTx, At, Unapplied
  <2> QED
    BY <2>1, <2>2 DEF OpenTx
<1>5. OnRecord'
  BY <1>2 DEF StartInv, OnRecord, At, Unapplied
<1>6. NeverHalfMigrated'
  BY DEF StartInv, NeverHalfMigrated
<1> QED
  BY <1>3, <1>4, <1>5, <1>6 DEF StartInv

\* A step within a transaction.
LEMMA TxStep ==
  ASSUME StartInv, NEW p \in Procs, tx' \in Tx, tx'.by = p,
         UNCHANGED <<table, recorded, schema, proc, faults>>,
         At(p, "apply"), tx'.version \in Unapplied(p), tx'.recorded => tx'.done = Statements
  PROVE  StartInv'
<1>1. TypeOK'
  BY DEF StartInv, TypeOK, Tx
<1>2. OpenTx'
  BY DEF StartInv, OpenTx, OnRecord, At, Unapplied
<1>3. OnRecord' /\ NeverHalfMigrated'
  BY DEF StartInv, OnRecord, NeverHalfMigrated, At, Unapplied
<1> QED
  BY <1>1, <1>2, <1>3 DEF StartInv

LEMMA CommitStep ==
  ASSUME StartInv, NEW p \in Procs, Commit(p)
  PROVE  StartInv'
<1>1. proc \in [Procs -> Proc] /\ recorded \subseteq Versions
        /\ schema \in [Versions -> 0..Statements] /\ p # Nobody
  BY DEF StartInv, TypeOK, Proc
<1>2. /\ At(p, "apply") /\ table
      /\ tx.version \in Unapplied(p) /\ tx.done = Statements
  BY <1>1 DEF StartInv, OpenTx, Commit
<1>3. tx.version \in Versions
  BY <1>2 DEF Unapplied
<1> DEFINE r == [proc[p] EXCEPT !.applied = proc[p].applied \cup {tx.version}]
<1>4. r \in Proc /\ r.stage = "apply" /\ r.applied = proc[p].applied \cup {tx.version}
  BY <1>1, <1>2, <1>3 DEF Proc, At
<1>5. proc' = [proc EXCEPT ![p] = r]
  BY DEF Commit
<1> HIDE DEF r
<1>6. /\ proc' \in [Procs -> Proc] /\ proc'[p] = r
      /\ \A q \in Procs \ {p} : proc'[q] = proc[q]
  BY <1>1, <1>4, <1>5
<1>7. /\ recorded' = recorded \cup {tx.version} /\ tx' = NoTx
      /\ schema' = [schema EXCEPT ![tx.version] = Statements]
      /\ UNCHANGED <<table, faults>>
  BY <1>2 DEF Commit
<1>8. TypeOK'
  <2>1. NoTx \in Tx
    BY DEF NoTx, Tx
  <2>2. schema' \in [Versions -> 0..Statements]
    <3>1. Statements \in 0..Statements
      OBVIOUS
    <3> QED
      BY <1>1, <1>7, <3>1
  <2>3. recorded' \subseteq Versions
    BY <1>1, <1>3, <1>7
  <2> QED
    BY <1>6, <1>7, <2>1, <2>2, <2>3 DEF StartInv, TypeOK, Tx, Proc
<1>9. OpenTx'
  BY <1>7 DEF OpenTx, NoTx
<1>10. OnRecord'
  <2>1. \A q \in Procs : proc[q].applied \subseteq recorded
    BY DEF StartInv, OnRecord
  <2>2. r.applied \subseteq recorded'
    BY <1>4, <1>7, <2>1
  <2> QED
    BY <1>2, <1>4, <1>6, <1>7, <2>1, <2>2 DEF StartInv, OnRecord, At, Unapplied
<1>11. NeverHalfMigrated'
  BY <1>1, <1>2, <1>3, <1>7 DEF StartInv, NeverHalfMigrated
<1> QED
  BY <1>8, <1>9, <1>10, <1>11 DEF StartInv

LEMMA InvStep == StartInv /\ [Next]_vars => StartInv'
<1> SUFFICES ASSUME StartInv, [Next]_vars PROVE StartInv'
  OBVIOUS
<1>1. /\ proc \in [Procs -> Proc] /\ tx \in Tx /\ NoTx \in Tx
      /\ faults \in 0..MaxFaults /\ table \in BOOLEAN /\ recorded \subseteq Versions
  BY DEF StartInv, TypeOK, Proc, Tx, NoTx
<1>2. \A p \in Procs : /\ proc[p].applied \subseteq recorded
                       /\ proc[p].stage \in {"read", "apply", "ready"} => table
  BY DEF StartInv, OnRecord
<1>3. \A p \in Procs : tx.by = p => /\ At(p, "apply") /\ tx.version \in Unapplied(p)
                                    /\ tx.recorded => tx.done = Statements
  BY DEF StartInv, OpenTx
<1>4. \A p \in Procs : \A stage \in Stages :
        /\ [proc[p] EXCEPT !.stage = stage] \in Proc
        /\ [proc[p] EXCEPT !.stage = stage].stage = stage
        /\ [proc[p] EXCEPT !.stage = stage].applied = proc[p].applied
  <2> SUFFICES ASSUME NEW p \in Procs, NEW stage \in Stages
               PROVE  /\ [proc[p] EXCEPT !.stage = stage] \in Proc
                      /\ [proc[p] EXCEPT !.stage = stage].stage = stage
                      /\ [proc[p] EXCEPT !.stage = stage].applied = proc[p].applied
    OBVIOUS
  <2>1. proc[p] \in Proc
    BY <1>1
  <2> QED
    BY <2>1 DEF Proc
<1>5. ASSUME NEW p \in Procs, LoadConfig(p) PROVE StartInv'
  <2>1. PICK stage \in {"open", "refused"} : Goto(p, stage)
    BY <1>5 DEF LoadConfig
  <2> DEFINE r == [proc[p] EXCEPT !.stage = stage]
  <2>2. r \in Proc /\ r.stage = stage /\ r.applied = proc[p].applied
    BY <1>4 DEF Stages
  <2>3. proc' = [proc EXCEPT ![p] = r]
    BY <2>1 DEF Goto
  <2> HIDE DEF r
  <2>4. UNCHANGED <<table, recorded, schema, tx, faults>> /\ tx.by # p
    BY <1>3, <1>5 DEF LoadConfig, At, file
  <2> QED
    BY <1>1, <1>2, <2>2, <2>3, <2>4, QuietStep
<1>6. ASSUME NEW p \in Procs, CreateTable(p) PROVE StartInv'
  <2> DEFINE r == [proc[p] EXCEPT !.stage = "read"]
  <2>1. r \in Proc /\ r.stage = "read" /\ r.applied = proc[p].applied
    BY <1>4 DEF Stages
  <2>2. proc' = [proc EXCEPT ![p] = r]
    BY <1>6 DEF CreateTable, Goto
  <2> HIDE DEF r
  <2>3. UNCHANGED <<recorded, schema, tx, faults>> /\ tx.by # p /\ table' = TRUE
    BY <1>3, <1>6 DEF CreateTable, At
  <2> QED
    BY <1>1, <1>2, <2>1, <2>2, <2>3, QuietStep
<1>7. ASSUME NEW p \in Procs, ReadApplied(p) PROVE StartInv'
  <2> DEFINE r == [proc[p] EXCEPT !.stage = "apply", !.applied = recorded]
  <2>1. r \in Proc /\ r.stage = "apply" /\ r.applied = recorded
    BY <1>1 DEF Proc, Stages
  <2>2. proc' = [proc EXCEPT ![p] = r]
    BY <1>7 DEF ReadApplied, AppliedVersions
  <2> HIDE DEF r
  <2>3. UNCHANGED <<table, recorded, schema, tx, faults>> /\ tx.by # p /\ table
    BY <1>2, <1>3, <1>7 DEF ReadApplied, At, file
  <2> QED
    BY <1>1, <2>1, <2>2, <2>3, QuietStep
<1>8. ASSUME NEW p \in Procs, BeginApply(p) PROVE StartInv'
  <2>1. NextVersion(p) \in Unapplied(p) /\ NextVersion(p) \in Versions
    BY <1>8, NextVersionIsUnapplied DEF BeginApply
  <2>2. tx' \in Tx /\ tx'.by = p /\ tx'.version = NextVersion(p) /\ tx'.recorded = FALSE
    <3>1. tx' = [by |-> p, version |-> NextVersion(p), done |-> 0, recorded |-> FALSE]
      BY <1>8 DEF BeginApply, NoTx
    <3> QED
      BY <2>1, <3>1 DEF Tx
  <2>3. UNCHANGED <<table, recorded, schema, proc, faults>> /\ At(p, "apply")
    BY <1>8 DEF BeginApply, file
  <2> QED
    BY <2>1, <2>2, <2>3, TxStep
<1>9. ASSUME NEW p \in Procs, Exec(p) PROVE StartInv'
  <2>1. tx.by = p /\ tx.done < Statements /\ tx.done \in 0..Statements
    BY <1>1, <1>9 DEF Exec, Tx
  <2>2. ~tx.recorded
    BY <1>3, <2>1
  <2>3. tx.done + 1 \in 0..Statements
    BY <2>1
  <2>4. /\ tx' \in Tx /\ tx'.by = p
        /\ tx'.version = tx.version /\ tx'.recorded = tx.recorded
    BY <1>1, <1>9, <2>1, <2>3 DEF Exec, Tx
  <2>5. UNCHANGED <<table, recorded, schema, proc, faults>>
    BY <1>9 DEF Exec, file
  <2> QED
    BY <1>3, <2>1, <2>2, <2>4, <2>5, TxStep
<1>10. ASSUME NEW p \in Procs, RecordVersion(p) PROVE StartInv'
  <2>1. tx.by = p /\ tx.done = Statements
    BY <1>10 DEF RecordVersion
  <2>2. /\ tx' \in Tx /\ tx'.by = p
        /\ tx'.version = tx.version /\ tx'.done = Statements
    BY <1>1, <1>10, <2>1 DEF RecordVersion, Tx
  <2>3. UNCHANGED <<table, recorded, schema, proc, faults>>
    BY <1>10 DEF RecordVersion, file
  <2> QED
    BY <1>3, <2>1, <2>2, <2>3, TxStep
<1>11. ASSUME NEW p \in Procs, Started(p) PROVE StartInv'
  <2> DEFINE r == [proc[p] EXCEPT !.stage = "ready"]
  <2>1. r \in Proc /\ r.stage = "ready" /\ r.applied = proc[p].applied
    BY <1>4 DEF Stages
  <2>2. proc' = [proc EXCEPT ![p] = r]
    BY <1>11 DEF Started, Goto
  <2> HIDE DEF r
  <2>3. Embedded[p] \ r.applied = {}
    BY <1>11, <2>1 DEF Started, Unapplied
  <2>4. UNCHANGED <<table, recorded, schema, tx, faults>> /\ tx.by # p /\ table
    BY <1>2, <1>3, <1>11 DEF Started, At, file
  <2> QED
    BY <1>1, <1>2, <2>1, <2>2, <2>3, <2>4, QuietStep
<1>12. ASSUME NEW p \in Procs, ExecFails(p) \/ Busy(p) \/ Fault(p) PROVE StartInv'
  <2> DEFINE r == [proc[p] EXCEPT !.stage = "failed"]
  <2>1. r \in Proc /\ r.stage = "failed" /\ r.applied = proc[p].applied
    BY <1>4 DEF Stages
  <2>2. proc' = [proc EXCEPT ![p] = r]
    BY <1>12 DEF ExecFails, Busy, Fault, Goto
  <2> HIDE DEF r
  <2>3. UNCHANGED <<table, recorded, schema>>
    BY <1>12 DEF ExecFails, Busy, Fault, file
  <2>4. faults' \in 0..MaxFaults
    BY <1>1, <1>12 DEF ExecFails, Busy, Fault
  <2>5. tx' = NoTx \/ (tx' = tx /\ tx.by # p)
    BY <1>12 DEF ExecFails, Busy, Fault
  <2> QED
    BY <1>1, <1>2, <2>1, <2>2, <2>3, <2>4, <2>5, QuietStep
<1>13. ASSUME NEW p \in Procs, Retry(p) PROVE StartInv'
  <2> DEFINE r == Fresh("idle", proc[p].flags)
  <2>1. r \in Proc /\ r.stage = "idle" /\ r.applied = {}
    BY <1>1 DEF Proc, Stages, Fresh
  <2>2. proc' = [proc EXCEPT ![p] = r]
    BY <1>13 DEF Retry
  <2> HIDE DEF r
  <2>3. UNCHANGED <<table, recorded, schema, tx, faults>> /\ tx.by # p
    BY <1>3, <1>13 DEF Retry, At, file
  <2> QED
    BY <1>1, <2>1, <2>2, <2>3, QuietStep
<1>14. CASE UNCHANGED vars
  BY <1>14 DEF vars, StartInv, TypeOK, OpenTx, OnRecord, NeverHalfMigrated, At, Unapplied
<1> QED
  BY <1>5, <1>6, <1>7, <1>8, <1>9, <1>10, <1>11, <1>12, <1>13, <1>14, CommitStep DEF Next, Step

LEMMA StartInvariant == Spec => []StartInv
BY InvInit, InvStep, PTL DEF Spec

\* Every variable of the start-up model keeps its type, whatever the releases
\* and their migrations (store/migrate.go, cli/root.go).
THEOREM StartTypeCorrect == Spec => []TypeOK
<1>1. StartInv => TypeOK
  BY DEF StartInv
<1> QED
  BY <1>1, StartInvariant, PTL

\* Wherever any number of commands fail or are killed, a version is on record
\* exactly if all of its statements are in the schema (migrate.go: apply).
THEOREM MigrationsAreWhole == Spec => []NeverHalfMigrated
<1>1. StartInv => NeverHalfMigrated
  BY DEF StartInv
<1> QED
  BY <1>1, StartInvariant, PTL

\* A command that has started has every statement of its own release in the
\* file, even if others applied them (migrate.go: Migrate).
THEOREM StartedHasItsSchema == Spec => []ReadySeesSchema
<1>1. StartInv => ReadySeesSchema
  <2> SUFFICES ASSUME StartInv, NEW p \in Procs, At(p, "ready"), NEW v \in Embedded[p]
               PROVE  schema[v] = Statements
    BY DEF ReadySeesSchema
  <2>1. Unapplied(p) = {} /\ proc[p].applied \subseteq recorded
    BY DEF StartInv, OnRecord
  <2>2. v \in recorded /\ v \in Versions
    BY <2>1 DEF Unapplied
  <2> QED
    BY <2>2 DEF StartInv, NeverHalfMigrated
<1> QED
  BY <1>1, StartInvariant, PTL

----------------------------------------------------------------------------
(* Spending.                                                               *)

LEMMA MinOfTwo ==
  ASSUME NEW a \in Int, NEW b \in Int
  PROVE  Min({a, b}) \in Int /\ Min({a, b}) <= b
<1>1. \E x \in {a, b} : \A y \in {a, b} : x <= y
  <2>1. CASE a <= b
    BY <2>1
  <2>2. CASE ~(a <= b)
    BY <2>2
  <2> QED
    BY <2>1, <2>2
<1>2. {a, b} \subseteq Int
  OBVIOUS
<1>3. Min({a, b}) \in {a, b} /\ \A y \in {a, b} : Min({a, b}) <= y
  BY <1>1, <1>2, MinIsLeast, Zenon
<1> QED
  BY <1>3

\* What the margin leaves of the free calls is no more than they are.
LEMMA MarginLeavesFree ==
  ASSUME NEW limits, NEW sku \in AllSKUs \ {AdsSKU}, limits.margin \in Int
  PROVE  /\ FreeMonthly[sku.tier] \in Nat \ {0}
         /\ Free(limits, sku) \in Int /\ Free(limits, sku) <= FreeMonthly[sku.tier]
<1>1. sku.tier \in PaidTiers
  BY DEF AllSKUs, SearchSKU, DetailsSKU
<1>2. FreeMonthly[sku.tier] \in Nat \ {0}
  BY <1>1, SettingsAssumption
<1> DEFINE m == IF limits.margin \in 1..100 THEN limits.margin ELSE DefaultMargin
<1>3. m \in 1..100
  BY SettingsAssumption
<1> HIDE DEF m
<1>4. \A n \in Nat : (n * m) \div 100 \in Int /\ (n * m) \div 100 <= n
  <2> SUFFICES ASSUME NEW n \in Nat PROVE (n * m) \div 100 \in Int /\ (n * m) \div 100 <= n
    OBVIOUS
  <2>1. n * m \in Nat /\ n * m <= n * 100
    BY <1>3
  <2> QED
    BY <2>1
<1>5. Free(limits, sku) = (FreeMonthly[sku.tier] * m) \div 100
  BY DEF Free, m
<1> QED
  BY <1>2, <1>4, <1>5

LEMMA ReadIsInt ==
  ASSUME NEW env, NEW name, NEW def \in Int
  PROVE  Read(env, name, def, NumberOf) \in Int
<1>1. CASE Blank(env, name) \/ Str(env, name, "") \notin DOMAIN NumberOf
  BY <1>1, Zenon DEF Read
<1>2. CASE ~Blank(env, name) /\ Str(env, name, "") \in DOMAIN NumberOf
  <2>1. env[name] \in DOMAIN NumberOf
    BY <1>2, Zenon DEF Str
  <2>2. NumberOf[env[name]] \in Int
    BY <2>1, SettingsAssumption, Zenon
  <2> QED
    BY <1>2, <2>2, Zenon DEF Read
<1> QED
  BY <1>1, <1>2, Zenon

LEMMA ResolvedTypes ==
  ASSUME NEW env
  PROVE  /\ Resolve(env).placesMax \in Int /\ Resolve(env).margin \in Int
         /\ Resolve(env).allowPaid =>
              /\ "ALLOW_PAID" \in DOMAIN env /\ env["ALLOW_PAID"] \in DOMAIN BoolOf
              /\ BoolOf[env["ALLOW_PAID"]]
<1>1. /\ Read(env, "PLACES_MAX", 0, NumberOf) \in Int
      /\ Read(env, "MARGIN", DefaultMargin, NumberOf) \in Int
  <2>1. 0 \in Int /\ DefaultMargin \in Int
    BY SettingsAssumption
  <2> QED
    BY <2>1, ReadIsInt
<1>2. Read(env, "ALLOW_PAID", FALSE, BoolOf) =>
        /\ "ALLOW_PAID" \in DOMAIN env /\ env["ALLOW_PAID"] \in DOMAIN BoolOf
        /\ BoolOf[env["ALLOW_PAID"]]
  BY Zenon DEF Read, Str, Blank
<1> QED
  BY <1>1, <1>2 DEF Resolve

\* More than is free is a number that was asked for with the switch on.
LEMMA CeilingIsFree ==
  ASSUME NEW env, NEW sku \in AllSKUs \ {AdsSKU}, ~Resolve(env).allowPaid
  PROVE  /\ Ceiling(QuotaLimits(Resolve(env)), sku) \in Int /\ FreeMonthly[sku.tier] \in Int
         /\ Ceiling(QuotaLimits(Resolve(env)), sku) <= FreeMonthly[sku.tier]
<1> DEFINE c == Resolve(env)
           limits == QuotaLimits(c)
<1>1. c.placesMax \in Int /\ c.margin \in Int
  BY ResolvedTypes
<1>2. ~c.allowPaid
  OBVIOUS
<1> HIDE DEF c
<1>3. /\ limits.allowPaid = c.allowPaid /\ limits.margin = c.margin
      /\ Overridden(limits, sku) => limits.overrides[sku] = c.placesMax
  BY DEF QuotaLimits, Overridden
<1> HIDE DEF limits
<1>4. /\ FreeMonthly[sku.tier] \in Nat \ {0}
      /\ Free(limits, sku) \in Int /\ Free(limits, sku) <= FreeMonthly[sku.tier]
  BY <1>1, <1>3, MarginLeavesFree
<1>5. CASE ~Overridden(limits, sku)
  BY <1>4, <1>5 DEF Ceiling, limits, c
<1>6. CASE Overridden(limits, sku)
  <2>1. Ceiling(limits, sku) = Min({c.placesMax, Free(limits, sku)})
    BY <1>2, <1>3, <1>4, <1>6 DEF Ceiling
  <2>2. /\ Min({c.placesMax, Free(limits, sku)}) \in Int
        /\ Min({c.placesMax, Free(limits, sku)}) <= Free(limits, sku)
    BY <1>1, <1>4, MinOfTwo
  <2> QED
    BY <1>4, <2>1, <2>2 DEF limits, c
<1> QED
  BY <1>5, <1>6

\* The switch is read from the environment if that names it, and else from the
\* file: no flag is written over it.
LEMMA SwitchIsSaid ==
  ASSUME NEW where, NEW flags \in Flags,
         "ALLOW_PAID" \in DOMAIN Environment(where, flags)
  PROVE  LET said == IF "ALLOW_PAID" \in DOMAIN where.env THEN where.env
                     ELSE ParseDotEnv(where.file)
         IN  /\ "ALLOW_PAID" \in DOMAIN said
             /\ Environment(where, flags)["ALLOW_PAID"] = said["ALLOW_PAID"]
<1>1. "ALLOW_PAID" \notin DOMAIN flags
  OBVIOUS
<1>2. /\ "ALLOW_PAID" \in DOMAIN OverrideEnv(where.env, flags) <=> "ALLOW_PAID" \in DOMAIN where.env
      /\ "ALLOW_PAID" \in DOMAIN where.env =>
           OverrideEnv(where.env, flags)["ALLOW_PAID"] = where.env["ALLOW_PAID"]
  BY <1>1 DEF OverrideEnv, Over
<1> QED
  BY <1>2 DEF Environment, LoadDotEnv, Over

\* Whatever else is set, wherever, no ceiling of a billable call exceeds what is
\* free unless the environment, or the .env file where the environment does not
\* name the switch, says so (config.go: AllowPaidAPIs; ledger.go: Ceiling).
THEOREM NoBillUnasked == Spec => []BillsOnlyOnRequest
<1>1. TypeOK => BillsOnlyOnRequest
  <2> SUFFICES ASSUME TypeOK, NEW p \in Procs, NEW sku \in AllSKUs \ {AdsSKU},
                      Ceiling(QuotaLimits(Settings(p)), sku) > FreeMonthly[sku.tier]
               PROVE  LET said == IF "ALLOW_PAID" \in DOMAIN given.env THEN given.env
                                  ELSE ParseDotEnv(given.file)
                      IN  /\ "ALLOW_PAID" \in DOMAIN said
                          /\ said["ALLOW_PAID"] \in DOMAIN BoolOf /\ BoolOf[said["ALLOW_PAID"]]
    BY DEF BillsOnlyOnRequest
  <2> DEFINE env == Environment(given, proc[p].flags)
  <2>1. proc[p].flags \in Flags
    BY DEF TypeOK
  <2>2. Settings(p) = Resolve(env)
    BY DEF Settings
  <2>3. Resolve(env).allowPaid
    <3>1. SUFFICES ASSUME ~Resolve(env).allowPaid PROVE FALSE
      OBVIOUS
    <3>2. /\ Ceiling(QuotaLimits(Resolve(env)), sku) \in Int /\ FreeMonthly[sku.tier] \in Int
          /\ Ceiling(QuotaLimits(Resolve(env)), sku) <= FreeMonthly[sku.tier]
      BY <3>1, CeilingIsFree
    <3> QED
      BY <2>2, <3>2
  <2>4. /\ "ALLOW_PAID" \in DOMAIN env /\ env["ALLOW_PAID"] \in DOMAIN BoolOf
        /\ BoolOf[env["ALLOW_PAID"]]
    BY <2>3, ResolvedTypes
  <2> QED
    BY <2>1, <2>4, SwitchIsSaid
<1> QED
  BY <1>1, StartTypeCorrect, PTL
=============================================================================
