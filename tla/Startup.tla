------------------------------- MODULE Startup -------------------------------
(***************************************************************************)
(* Every command starts by loading its configuration, opening the database *)
(* and migrating it (cli/root.go, store/store.go, store/migrate.go).       *)
(* Several start at once on one file, possibly of different releases.  A  *)
(* migration is a number of statements that run once and fail where they  *)
(* have run before, with the row that records it, in one transaction; the *)
(* writer's lock is SQLite's.  What fails is tried again by the operator.  *)
(***************************************************************************)
EXTENDS Settings

CONSTANTS
  Procs,         (* commands                                                *)
  Versions,      (* of the embedded migrations                              *)
  Embedded,      (* per command, the versions its release brings            *)
  Statements,    (* statements of a migration                               *)
  Givens,        (* the environments and .env files a machine may have      *)
  Flags,         (* the flags a command may be given                        *)
  MaxFaults,     (* bound: crashes and failing statements                   *)
  Nobody

ASSUME StartupAssumption ==
  /\ Versions \subseteq Nat \ {0} /\ IsFiniteSet(Versions)
  /\ Embedded \in [Procs -> SUBSET Versions]
  /\ Statements \in Nat \ {0}
  /\ MaxFaults \in Nat
  /\ Nobody \notin Procs
  /\ \A f \in Flags : "ALLOW_PAID" \notin DOMAIN f

VARIABLES
  given,      (* the environment and the .env file                          *)
  table,      (* schema_migrations exists                                   *)
  recorded,   (* its versions                                               *)
  schema,     (* per version, how many of its statements are in the schema  *)
  tx,         (* the open write transaction: what it adds if it commits     *)
  proc,       (* how far each command is                                    *)
  faults      (* crashes and failing statements so far                      *)

vars == <<given, table, recorded, schema, tx, proc, faults>>
file == <<table, recorded, schema>>

Stages == {"idle", "open", "read", "apply", "ready", "refused", "failed"}
Fresh(stage, flags) == [stage |-> stage, flags |-> flags, applied |-> {}]
NoTx == [by |-> Nobody, version |-> 0, done |-> 0, recorded |-> FALSE]

Init ==
  /\ given \in Givens
  /\ table = FALSE
  /\ recorded = {}
  /\ schema = [v \in Versions |-> 0]
  /\ tx = NoTx
  /\ proc \in [Procs -> {Fresh("idle", f) : f \in Flags}]
  /\ faults = 0

At(p, stage) == proc[p].stage = stage
Goto(p, stage) == proc' = [proc EXCEPT ![p].stage = stage]

Settings(p) == Resolve(Environment(given, proc[p].flags))

\* PersistentPreRunE: config.Load, then store.Open, which keeps no lock.
LoadConfig(p) ==
  /\ At(p, "idle")
  /\ Goto(p, IF Loads(given, proc[p].flags) THEN "open" ELSE "refused")
  /\ UNCHANGED <<given, file, tx, faults>>

\* CREATE TABLE IF NOT EXISTS, which waits for a writer only if it must write.
CreateTable(p) ==
  /\ At(p, "open")
  /\ table \/ tx = NoTx
  /\ table' = TRUE
  /\ Goto(p, "read")
  /\ UNCHANGED <<given, recorded, schema, tx, faults>>

\* Faulty variant: a query that fails is taken for an empty table.
FaultyAppliedVersions == {}

AppliedVersions == recorded

ReadApplied(p) ==
  /\ At(p, "read")
  /\ proc' = [proc EXCEPT ![p].stage = "apply", ![p].applied = AppliedVersions]
  /\ UNCHANGED <<given, file, tx, faults>>

\* Faulty variant: the loop ends at the first version that is applied.
FaultyUnapplied(p) == IF proc[p].applied = {} THEN Embedded[p] ELSE {}

\* What the loop has not come to yet; what it applied itself is counted there.
Unapplied(p) == Embedded[p] \ proc[p].applied

NextVersion(p) == Min(Unapplied(p))

\* BEGIN and the first statement, which takes the lock or waits for it.
BeginApply(p) ==
  /\ At(p, "apply")
  /\ Unapplied(p) # {}
  /\ tx = NoTx
  /\ tx' = [NoTx EXCEPT !.by = p, !.version = NextVersion(p)]
  /\ UNCHANGED <<given, file, proc, faults>>

\* Faulty variant: the statements of a migration are not run in the transaction.
FaultyExec(p) ==
  /\ tx.by = p
  /\ tx.done < Statements /\ schema[tx.version] + tx.done < Statements
  /\ tx' = [tx EXCEPT !.done = @ + 1]
  /\ schema' = [schema EXCEPT ![tx.version] = @ + 1]
  /\ UNCHANGED <<given, table, recorded, proc, faults>>

Exec(p) ==
  /\ tx.by = p
  /\ tx.done < Statements /\ schema[tx.version] = 0
  /\ tx' = [tx EXCEPT !.done = @ + 1]
  /\ UNCHANGED <<given, file, proc, faults>>

\* "table businesses already exists": rolled back, and the command is over.
ExecFails(p) ==
  /\ tx.by = p
  /\ tx.done = 0 /\ schema[tx.version] # 0
  /\ tx' = NoTx
  /\ Goto(p, "failed")
  /\ UNCHANGED <<given, file, faults>>

RecordVersion(p) ==
  /\ tx.by = p
  /\ tx.done = Statements /\ ~tx.recorded
  /\ tx' = [tx EXCEPT !.recorded = TRUE]
  /\ UNCHANGED <<given, file, proc, faults>>

Commit(p) ==
  /\ tx.by = p
  /\ tx.recorded
  /\ schema' = [schema EXCEPT ![tx.version] = tx.done]
  /\ recorded' = recorded \cup {tx.version}
  /\ proc' = [proc EXCEPT ![p].applied = @ \cup {tx.version}]
  /\ tx' = NoTx
  /\ UNCHANGED <<given, table, faults>>

\* The loop is through: the command has its database.
Started(p) ==
  /\ At(p, "apply")
  /\ Unapplied(p) = {}
  /\ Goto(p, "ready")
  /\ UNCHANGED <<given, file, tx, faults>>

\* busy_timeout runs out on a command that waits for the writer.
Busy(p) ==
  /\ tx.by \notin {p, Nobody}
  /\ \/ At(p, "open") /\ ~table
     \/ At(p, "apply") /\ Unapplied(p) # {}
  /\ Goto(p, "failed")
  /\ UNCHANGED <<given, file, tx, faults>>

\* A statement fails, Ctrl-C included, or the process is killed: whatever its
\* transaction did is gone.
Fault(p) ==
  /\ faults < MaxFaults
  /\ proc[p].stage \in {"open", "read", "apply"}
  /\ tx' = IF tx.by = p THEN NoTx ELSE tx
  /\ Goto(p, "failed")
  /\ faults' = faults + 1
  /\ UNCHANGED <<given, file>>

\* The operator runs the command again.
Retry(p) ==
  /\ At(p, "failed")
  /\ proc' = [proc EXCEPT ![p] = Fresh("idle", @.flags)]
  /\ UNCHANGED <<given, file, tx, faults>>

Step(p) ==
  \/ LoadConfig(p) \/ CreateTable(p) \/ ReadApplied(p) \/ BeginApply(p) \/ Exec(p)
  \/ ExecFails(p) \/ RecordVersion(p) \/ Commit(p) \/ Started(p)

Next == \E p \in Procs : Step(p) \/ Busy(p) \/ Fault(p) \/ Retry(p)

Spec == Init /\ [][Next]_vars

\* A running command is scheduled, and one that failed is run again.
FairSpec == Spec /\ \A p \in Procs : WF_vars(Step(p)) /\ WF_vars(Retry(p))

----------------------------------------------------------------------------
(* Properties.                                                             *)

TypeOK ==
  /\ table \in BOOLEAN
  /\ recorded \subseteq Versions
  /\ schema \in [Versions -> 0..Statements]
  /\ tx \in [by : Procs \cup {Nobody}, version : Versions \cup {0},
             done : 0..Statements, recorded : BOOLEAN]
  /\ proc \in [Procs -> [stage : Stages, flags : Flags, applied : SUBSET Versions]]
  /\ faults \in 0..MaxFaults

\* "A crash mid-way leaves the database at the previous version, never
\* half-migrated": whoever starts, fails or is killed when, a version is on
\* record exactly if all its statements are in the schema, and else none is.
NeverHalfMigrated ==
  \A v \in Versions :
    /\ schema[v] = IF v \in recorded THEN Statements ELSE 0
    /\ v \in recorded => table

\* A command that has started finds every migration of its own release in the
\* file, whichever command applied it (migrate.go: Migrate).
ReadySeesSchema ==
  \A p \in Procs : At(p, "ready") => \A v \in Embedded[p] : schema[v] = Statements

\* "No combination of other settings can produce a bill": a ceiling above what is
\* free needs a flag-less "yes" in the environment or, where that does not name
\* the switch at all, in the .env file (config.go: AllowPaidAPIs, QuotaLimits;
\* ledger.go: Ceiling; dotenv.go: LoadDotEnv).
BillsOnlyOnRequest ==
  \A p \in Procs : At(p, "ready") =>
    \A sku \in AllSKUs \ {AdsSKU} :
      Ceiling(QuotaLimits(Settings(p)), sku) > FreeMonthly[sku.tier] =>
        LET said == IF "ALLOW_PAID" \in DOMAIN given.env THEN given.env
                    ELSE ParseDotEnv(given.file)
        IN  /\ "ALLOW_PAID" \in DOMAIN said
            /\ said["ALLOW_PAID"] \in DOMAIN BoolOf /\ BoolOf[said["ALLOW_PAID"]]

\* Losing the race for a migration, waiting too long for the writer or a crash
\* costs a command one attempt: run again, it starts (migrate.go: Migrate).
StartsInTheEnd ==
  <>[](\A p \in Procs : Loads(given, proc[p].flags) => At(p, "ready"))
=============================================================================
