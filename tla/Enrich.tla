------------------------------- MODULE Enrich -------------------------------
(***************************************************************************)
(* `prospect enrich` (internal/cli/enrich.go over store/signals.go and     *)
(* store/runs.go): a command lists the businesses to read, opens a run,    *)
(* and feeds the list to a bounded pool of workers over an unbuffered      *)
(* channel.  Each worker reads a site, records what it read one            *)
(* transaction per signal, promotes an address and checkpoints the         *)
(* business.  Several commands may run at once on the same database; each  *)
(* can be interrupted by Ctrl-C, which cancels the context every statement *)
(* and request is made with, or killed.  Which businesses are visible is   *)
(* the catalog's business, of which only DoNotContact is used here.        *)
(***************************************************************************)
EXTENDS Signals, FiniteSets, FiniteSetsExt

CONSTANTS
  Procs,      (* enrich commands                                            *)
  Workers,    (* worker slots                                               *)
  PoolOf,     (* the slots each command was started with                    *)
  SiteReads,  (* business -> the signal lists website.Collect may return    *)
  AdReads,    (* what the Ad Library may add: none or one running_ads signal *)
  Resumes,    (* the values --resume is given                               *)
  Faults,     (* "crash": commands are killed; "statement": statements fail *)
              (* on a live context too (disk full, database busy)           *)
  None

Said == [source : Sources, type : Types, value : Values]

ASSUME EnrichAssumption ==
  /\ Businesses \subseteq Nat \ {0}
  /\ IsFiniteSet(Businesses)
  /\ PoolOf \in [Procs -> (SUBSET Workers) \ {{}}]
  /\ SiteReads \in [Businesses -> SUBSET Seq(Said)]
  /\ AdReads \subseteq Seq(Said)
  /\ \A read \in AdReads : \A k \in DOMAIN read : read[k].type # "contact_email"
  /\ Resumes \subseteq BOOLEAN
  /\ Faults \subseteq {"crash", "statement"}
  /\ None \notin Values \cup Seq(Said)

ItemStatus == {"done", "failed"}
Run == [status : {"running", "completed"}, items : [Businesses -> ItemStatus \cup {None}]]
Job == [business : Businesses, read : Seq(Said) \cup {None}, next : Nat \ {0}]
Tally == [considered : Nat, enriched : Nat, disallowed : Nat, failed : Nat, skipped : Nat]

ASSUME JobAssumption == None \notin Job \cup ItemStatus

VARIABLES
  visible,    (* businesses the view shows                                  *)
  excluded,   (* businesses suppressed                                      *)
  email,      (* businesses.email, or None                                  *)
  runs,       (* the runs table with its run_items, in id order             *)
  pc,         (* how far each command is                                    *)
  queue,      (* targets the feeder has not handed out yet                  *)
  prev,       (* the run each command is about to resume, or 0              *)
  done,       (* targets the resumed run had completed                      *)
  run,        (* the run id of each command, 0 before it has one            *)
  cancelled,  (* commands whose context is cancelled                        *)
  job,        (* what each worker of each command is at, or None            *)
  stats       (* the counters of each command                               *)

command == <<pc, queue, prev, done, run, cancelled, job, stats>>
vars == <<signals, visible, excluded, email, runs, command>>

Exclusion == INSTANCE DoNotContact WITH Ids <- Businesses

Live(p) == pc[p] \in {"listed", "started", "resuming", "feeding", "draining"}

\* A statement of p is refused: always after Ctrl-C.
StatementFails(p) == p \in cancelled \/ "statement" \in Faults

HasWebsiteSignals(b) ==
  \E k \in DOMAIN signals : /\ signals[k].fact.business = b
                            /\ signals[k].fact.source = "website"
                            /\ ~signals[k].superseded

NoStats == [considered |-> 0, enriched |-> 0, disallowed |-> 0, failed |-> 0, skipped |-> 0]

Init ==
  /\ SignalsInit
  /\ visible = Businesses
  /\ excluded = {}
  /\ email = [b \in Businesses |-> None]
  /\ runs = <<>>
  /\ pc = [p \in Procs |-> "idle"]
  /\ queue = [p \in Procs |-> {}]
  /\ prev = [p \in Procs |-> 0]
  /\ done = [p \in Procs |-> {}]
  /\ run = [p \in Procs |-> 0]
  /\ cancelled = {}
  /\ job = [p \in Procs |-> [w \in Workers |-> None]]
  /\ stats = [p \in Procs |-> NoStats]

\* The process ends, and its resume list and its context with it.
Exit(p, how) ==
  /\ pc' = [pc EXCEPT ![p] = how]
  /\ prev' = [prev EXCEPT ![p] = 0]
  /\ done' = [done EXCEPT ![p] = {}]
  /\ cancelled' = cancelled \ {p}

----------------------------------------------------------------------------
(* Choosing the work.                                                      *)

\* LIMIT n of a list ordered by id.
FirstOf(bs) == {{b \in bs : b <= m} : m \in bs}

\* Faulty variant: --all-pending lists the businesses table, not the view.
FaultyTargetLists(force) ==
  FirstOf({b \in Businesses : force \/ ~HasWebsiteSignals(b)}) \cup {{b} : b \in visible}

\* BusinessesToEnrich, or the one business of --business-id.
TargetLists(force) ==
  FirstOf({b \in visible : force \/ ~HasWebsiteSignals(b)}) \cup {{b} : b \in visible}

List(p) ==
  /\ pc[p] = "idle"
  /\ \E force \in BOOLEAN :
       \E targets \in TargetLists(force) :
         /\ queue' = [queue EXCEPT ![p] = targets]
         /\ stats' = [stats EXCEPT ![p].considered = Cardinality(targets)]
  /\ pc' = [pc EXCEPT ![p] = "listed"]
  /\ UNCHANGED <<signals, visible, excluded, email, runs, prev, done, run, cancelled, job>>

StartRun(p) ==
  /\ pc[p] = "listed"
  /\ p \notin cancelled
  /\ runs' = Append(runs, [status |-> "running", items |-> [b \in Businesses |-> None]])
  /\ run' = [run EXCEPT ![p] = Len(runs) + 1]
  /\ pc' = [pc EXCEPT ![p] = "started"]
  /\ UNCHANGED <<signals, visible, excluded, email, queue, prev, done, cancelled, job, stats>>

\* LastIncompleteRun: the highest id that is not completed, 0 if there is none.
LastIncompleteRun == Max({0} \cup {r \in DOMAIN runs : runs[r].status = "running"})

CompletedItems(r) == {b \in Businesses : runs[r].items[b] = "done"}

\* The lookup comes after the run was opened, so the last incomplete run is p's
\* own unless another command opened one since.  It is not for --no-resume, and
\* an error in it is only logged.
StartFresh(p) ==
  /\ pc[p] = "started"
  /\ FALSE \in Resumes \/ StatementFails(p) \/ LastIncompleteRun \in {0, run[p]}
  /\ pc' = [pc EXCEPT ![p] = "feeding"]
  /\ UNCHANGED <<signals, visible, excluded, email, runs, queue, prev, done, run,
                 cancelled, job,
                 stats>>

FindPrevious(p) ==
  /\ pc[p] = "started"
  /\ TRUE \in Resumes /\ p \notin cancelled
  /\ LastIncompleteRun \notin {0, run[p]}
  /\ prev' = [prev EXCEPT ![p] = LastIncompleteRun]
  /\ pc' = [pc EXCEPT ![p] = "resuming"]
  /\ UNCHANGED <<signals, visible, excluded, email, runs, queue, done, run, cancelled,
                 job, stats>>

\* A statement of its own: what that run has completed by now.
ReadCompleted(p) ==
  /\ pc[p] = "resuming"
  /\ p \notin cancelled
  /\ done' = [done EXCEPT ![p] = CompletedItems(prev[p])]
  /\ prev' = [prev EXCEPT ![p] = 0]
  /\ pc' = [pc EXCEPT ![p] = "feeding"]
  /\ UNCHANGED <<signals, visible, excluded, email, runs, queue, run, cancelled, job, stats>>

----------------------------------------------------------------------------
(* The feeder.                                                             *)

NextTarget(p) == Min(queue[p])

Skip(p) ==
  /\ pc[p] = "feeding"
  /\ queue[p] # {}
  /\ NextTarget(p) \in done[p]
  /\ queue' = [queue EXCEPT ![p] = @ \ {NextTarget(p)}]
  /\ stats' = [stats EXCEPT ![p].skipped = @ + 1]
  /\ UNCHANGED <<signals, visible, excluded, email, runs, pc, prev, done, run, cancelled,
                 job>>

\* jobs <- b: a free worker receives the next business.
Hand(p, w) ==
  /\ pc[p] = "feeding"
  /\ queue[p] # {}
  /\ NextTarget(p) \notin done[p]
  /\ w \in PoolOf[p]
  /\ job[p][w] = None
  /\ job' = [job EXCEPT ![p][w] = [business |-> NextTarget(p), read |-> None, next |-> 1]]
  /\ queue' = [queue EXCEPT ![p] = @ \ {NextTarget(p)}]
  /\ UNCHANGED <<signals, visible, excluded, email, runs, pc, prev, done, run, cancelled,
                 stats>>

\* Faulty variant: jobs is closed on Ctrl-C, and not at the end of the list.
FaultyStopFeeding(p) ==
  /\ pc[p] = "feeding"
  /\ queue[p] # {}
  /\ p \in cancelled /\ NextTarget(p) \notin done[p]
  /\ pc' = [pc EXCEPT ![p] = "draining"]
  /\ UNCHANGED <<signals, visible, excluded, email, runs, queue, prev, done, run,
                 cancelled, job, stats>>

\* close(jobs): the list is done, or ctx.Done was picked over a free worker.
StopFeeding(p) ==
  /\ pc[p] = "feeding"
  /\ \/ queue[p] = {}
     \/ queue[p] # {} /\ p \in cancelled /\ NextTarget(p) \notin done[p]
  /\ pc' = [pc EXCEPT ![p] = "draining"]
  /\ UNCHANGED <<signals, visible, excluded, email, runs, queue, prev, done, run,
                 cancelled, job, stats>>

\* Faulty variant: the run is closed as soon as the list is handed out.
FaultyFinishRun(p) ==
  /\ pc[p] = "draining"
  /\ \/ /\ p \notin cancelled
        /\ runs' = [runs EXCEPT ![run[p]].status = "completed"]
     \/ StatementFails(p) /\ UNCHANGED runs
  /\ Exit(p, "closed")
  /\ UNCHANGED <<signals, visible, excluded, email, queue, run, job, stats>>

\* wg.Wait, then FinishRun, a statement on the same context: after Ctrl-C it is
\* refused, and the run stays running; it may also fail for other reasons.
FinishRun(p) ==
  /\ pc[p] = "draining"
  /\ \A w \in PoolOf[p] : job[p][w] = None
  /\ \/ /\ p \notin cancelled
        /\ runs' = [runs EXCEPT ![run[p]].status = "completed"]
     \/ StatementFails(p) /\ UNCHANGED runs
  /\ Exit(p, "closed")
  /\ UNCHANGED <<signals, visible, excluded, email, queue, run, job, stats>>

----------------------------------------------------------------------------
(* A worker: enrichOne.                                                    *)

Busy(p, w) == Live(p) /\ job[p][w] # None

\* MarkRunItem, refused after Ctrl-C; a failure is only logged.
MarkRunItem(p, b, status) ==
  \/ /\ p \notin cancelled
     /\ runs' = [runs EXCEPT ![run[p]].items[b] = status]
  \/ StatementFails(p) /\ UNCHANGED runs

\* The worker returns its result, counted under the mutex.
Return(p, w, counter) ==
  /\ job' = [job EXCEPT ![p][w] = None]
  /\ stats' = [stats EXCEPT ![p][counter] = @ + 1]

Fail(p, w) ==
  /\ MarkRunItem(p, job[p][w].business, "failed")
  /\ Return(p, w, "failed")
  /\ UNCHANGED <<signals, visible, excluded, email, pc, queue, prev, done, run, cancelled>>

\* src.Collect and ads.Collect.  A site read before Ctrl-C still counts.
Collect(p, w) ==
  /\ Busy(p, w)
  /\ job[p][w].read = None
  /\ \E site \in SiteReads[job[p][w].business], ads \in AdReads :
       job' = [job EXCEPT ![p][w].read = site \o ads]
  /\ UNCHANGED <<signals, visible, excluded, email, runs, pc, queue, prev, done, run,
                 cancelled, stats>>

CollectFails(p, w) ==
  /\ Busy(p, w)
  /\ job[p][w].read = None
  /\ Fail(p, w)

\* Faulty variant: source and type are bound in the wrong order.
FaultyObservationOf(b, said) ==
  [fact |-> [business |-> b, source |-> said.type, type |-> said.source],
   value |-> said.value]

ObservationOf(b, said) ==
  [fact |-> [business |-> b, source |-> said.source, type |-> said.type],
   value |-> said.value]

Recording(p, w) ==
  /\ Busy(p, w)
  /\ job[p][w].read # None
  /\ job[p][w].next <= Len(job[p][w].read)

\* RecordSignals: one transaction per signal.
RecordNext(p, w) ==
  /\ Recording(p, w)
  /\ p \notin cancelled
  /\ RecordSignal(ObservationOf(job[p][w].business, job[p][w].read[job[p][w].next]))
  /\ job' = [job EXCEPT ![p][w].next = @ + 1]
  /\ UNCHANGED <<visible, excluded, email, runs, pc, queue, prev, done, run, cancelled,
                 stats>>

\* Faulty variant: a signal that could not be recorded is skipped.
FaultyRecordFails(p, w) ==
  /\ Recording(p, w)
  /\ StatementFails(p)
  /\ job' = [job EXCEPT ![p][w].next = @ + 1]
  /\ UNCHANGED <<signals, visible, excluded, email, runs, pc, queue, prev, done, run,
                 cancelled,
                 stats>>

\* A transaction fails, as every one does after Ctrl-C: the rest is dropped.
RecordFails(p, w) ==
  /\ Recording(p, w)
  /\ StatementFails(p)
  /\ Fail(p, w)

Recorded(p, w) ==
  /\ Busy(p, w)
  /\ job[p][w].read # None
  /\ job[p][w].next > Len(job[p][w].read)

\* The address of a reading, which reports one contact_email at most; of more, the
\* first would be stored, since an address on file is never overwritten.
Emails(read) ==
  {read[k].value : k \in {n \in DOMAIN read :
     /\ read[n].type = "contact_email"
     /\ \A m \in 1 .. n - 1 : read[m].type # "contact_email"}}

\* UpdateBusinessEmail of the address read, unless the business has one.
PromoteEmail(p, w) ==
  LET b == job[p][w].business
  IN  /\ Recorded(p, w)
      /\ job[p][w].next = Len(job[p][w].read) + 1
      /\ p \notin cancelled
      /\ email[b] = None
      /\ \E e \in Emails(job[p][w].read) : email' = [email EXCEPT ![b] = e]
      /\ job' = [job EXCEPT ![p][w].next = @ + 1]
      /\ UNCHANGED <<signals, visible, excluded, runs, pc, queue, prev, done, run,
                     cancelled, stats>>

Disallowed(read) == \E k \in DOMAIN read : read[k].type = "robots_disallowed"

\* The promotion is over: there was nothing to promote, or it failed, which is
\* only logged.
Promoted(p, w) ==
  \/ StatementFails(p)
  \/ job[p][w].next > Len(job[p][w].read) + 1
  \/ Emails(job[p][w].read) = {}
  \/ email[job[p][w].business] # None

\* Faulty variant: a disallowed site is counted as enriched as well.
FaultyMarkDone(p, w) ==
  /\ Recorded(p, w)
  /\ Promoted(p, w)
  /\ MarkRunItem(p, job[p][w].business, "done")
  /\ job' = [job EXCEPT ![p][w] = None]
  /\ stats' = [stats EXCEPT ![p].enriched = @ + 1,
                            ![p].disallowed = IF Disallowed(job[p][w].read) THEN @ + 1 ELSE @]
  /\ UNCHANGED <<signals, visible, excluded, email, pc, queue, prev, done, run, cancelled>>

\* MarkRunItem done, the last thing a worker does with a business.
MarkDone(p, w) ==
  /\ Recorded(p, w)
  /\ Promoted(p, w)
  /\ MarkRunItem(p, job[p][w].business, "done")
  /\ Return(p, w, IF Disallowed(job[p][w].read) THEN "disallowed" ELSE "enriched")
  /\ UNCHANGED <<signals, visible, excluded, email, pc, queue, prev, done, run, cancelled>>

----------------------------------------------------------------------------
(* What happens to a command from outside.                                 *)

\* Ctrl-C.
Interrupt(p) ==
  /\ Live(p)
  /\ p \notin cancelled
  /\ cancelled' = cancelled \cup {p}
  /\ UNCHANGED <<signals, visible, excluded, email, runs, pc, queue, prev, done, run,
                 job, stats>>

\* StartRun or CompletedItems refused, on a cancelled context or otherwise.
GiveUp(p) ==
  /\ pc[p] \in {"listed", "resuming"}
  /\ StatementFails(p)
  /\ Exit(p, "closed")
  /\ UNCHANGED <<signals, visible, excluded, email, runs, queue, run, job, stats>>

\* The process is killed; what it committed stays.
Crash(p) ==
  /\ "crash" \in Faults
  /\ Live(p)
  /\ Exit(p, "dead")
  /\ queue' = [queue EXCEPT ![p] = {}]
  /\ job' = [job EXCEPT ![p] = [w \in Workers |-> None]]
  /\ stats' = [stats EXCEPT ![p] = NoStats]
  /\ UNCHANGED <<signals, visible, excluded, email, runs, run>>

\* `prospect suppress` in another process.
Suppress(b) ==
  /\ Exclusion!Exclude(b)
  /\ UNCHANGED <<signals, email, runs, command>>

Work(p, w) ==
  \/ Collect(p, w)
  \/ CollectFails(p, w)
  \/ RecordNext(p, w)
  \/ RecordFails(p, w)
  \/ PromoteEmail(p, w)
  \/ MarkDone(p, w)

Feed(p) ==
  \/ StartRun(p)
  \/ StartFresh(p)
  \/ FindPrevious(p)
  \/ ReadCompleted(p)
  \/ Skip(p)
  \/ \E w \in Workers : Hand(p, w)
  \/ StopFeeding(p)
  \/ FinishRun(p)
  \/ GiveUp(p)

Next ==
  \/ \E p \in Procs : List(p) \/ Feed(p) \/ Interrupt(p) \/ Crash(p)
  \/ \E p \in Procs, w \in Workers : Work(p, w)
  \/ \E b \in Businesses : Suppress(b)

Spec == Init /\ [][Next]_vars

\* Goroutines are scheduled; requests and statements time out.
FairSpec ==
  /\ Spec
  /\ \A p \in Procs : WF_vars(Feed(p))
  /\ \A p \in Procs, w \in Workers : WF_vars(Work(p, w))

----------------------------------------------------------------------------
(* Properties.                                                             *)

TypeOK ==
  /\ SignalsTypeOK
  /\ visible \subseteq Businesses /\ excluded \subseteq Businesses
  /\ email \in [Businesses -> Values \cup {None}]
  /\ runs \in Seq(Run)
  /\ pc \in [Procs -> {"idle", "listed", "started", "resuming", "feeding", "draining",
                       "closed", "dead"}]
  /\ queue \in [Procs -> SUBSET Businesses]
  /\ prev \in [Procs -> Nat]
  /\ done \in [Procs -> SUBSET Businesses]
  /\ run \in [Procs -> Nat]
  /\ cancelled \subseteq Procs
  /\ job \in [Procs -> [Workers -> Job \cup {None}]]
  /\ stats \in [Procs -> Tally]

\* The table holds a row, current or superseded, that says said about b.
OnRecord(b, said) ==
  \E k \in DOMAIN signals :
    signals[k].fact = ObservationOf(b, said).fact /\ signals[k].value = said.value

\* A checkpoint is written after everything it stands for: a business marked
\* done in some run has a whole reading of its site on record, although every
\* signal of it was a transaction of its own and any of them could fail.
CheckpointIsHonest ==
  \A r \in DOMAIN runs, b \in Businesses :
    runs[r].items[b] = "done" =>
      \E read \in SiteReads[b] : \A k \in DOMAIN read : OnRecord(b, read[k])

\* The address list and export show without joining signals is one some reading
\* put on record: nothing is promoted that was not recorded first.
EmailIsOnRecord ==
  \A b \in Businesses : email[b] # None =>
    \E read \in SiteReads[b] : \E k \in DOMAIN read :
      read[k].type = "contact_email" /\ read[k].value = email[b] /\ OnRecord(b, read[k])

Counted(p) == stats[p].enriched + stats[p].disallowed + stats[p].failed + stats[p].skipped

BusyWorkers(p) == {w \in Workers : job[p][w] # None}

\* The summary adds up: whatever the workers do, each business considered is
\* counted once, or still waiting, or with exactly one worker.
EveryTargetAccounted ==
  \A p \in Procs : pc[p] # "dead" =>
    stats[p].considered = Counted(p) + Cardinality(queue[p]) + Cardinality(BusyWorkers(p))

\* "a partial run is distinguishable from a clean one": a run marked completed
\* belongs to a command that has counted every business it considered.
CompletedMeansHandled ==
  \A p \in Procs :
    run[p] # 0 /\ runs[run[p]].status = "completed"
      => pc[p] = "closed" /\ stats[p].considered = Counted(p)

\* No command has business b to read or is reading it.
AtRest(b) ==
  \A p \in Procs : Live(p) =>
    /\ b \notin queue[p]
    /\ \A w \in Workers : job[p][w] # None => job[p][w].business # b

\* "excludes a business from every future run": once the commands that listed a
\* suppressed business before its suppression are through with it, no command
\* takes it up again and nothing is recorded about it.
QuietOnceExcluded ==
  [][\A b \in excluded : AtRest(b) =>
       /\ AtRest(b)'
       /\ email'[b] = email[b]
       /\ {k \in DOMAIN signals' : signals'[k].fact.business = b}
            \subseteq DOMAIN signals]_vars

\* Interrupted or not, the pool never hangs: every command that listed its
\* targets closes, unless it is killed.
PoolDrains == \A p \in Procs : pc[p] = "listed" ~> pc[p] \in {"closed", "dead"}

----------------------------------------------------------------------------
(* What the documentation says, and the code does not do.                  *)

\* The last run before that of p whose command ended without completing it, 0 if
\* there is none.
IncompleteBefore(p) ==
  Max({0} \cup {r \in DOMAIN runs : /\ r < run[p]
                                    /\ runs[r].status = "running"
                                    /\ \A q \in Procs : run[q] = r => ~Live(q)})

\* "a run that dies at business 34 of 50 picks up at 34": a command started with
\* --resume has in its done list what the run before it completed.
ResumePicksUp ==
  [][\A p \in Procs :
       /\ pc[p] \in {"started", "resuming"} /\ pc'[p] = "feeding"
       /\ p \notin cancelled /\ IncompleteBefore(p) # 0
       => CompletedItems(IncompleteBefore(p)) \subseteq done'[p]]_vars

\* main.go: Ctrl-C "stops between businesses with its checkpoints intact rather
\* than being killed mid-write": once an interrupted command has closed, a
\* business that has website signals, and so is not pending any more, was
\* checkpointed by some run.
InterruptIsClean ==
  \A b \in visible :
    (\A p \in Procs : ~Live(p)) /\ HasWebsiteSignals(b)
    => \E r \in DOMAIN runs : runs[r].items[b] # None
=============================================================================
