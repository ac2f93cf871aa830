---------------------------- MODULE EnrichProofs ----------------------------
(***************************************************************************)
(* Proofs about Enrich for any number of commands, workers and businesses, *)
(* any readings and any faults: its types, that it writes the signals      *)
(* table only as Signals says, that its checkpoints are honest, that its   *)
(* summary adds up, that a completed run left nothing behind, and that a   *)
(* suppressed business is left alone.                                      *)
(***************************************************************************)
EXTENDS Enrich, SignalsProofs, AggregateProofs

USE EnrichAssumption, JobAssumption

(***************************************************************************)
(* Lemmas about the operators.                                             *)
(***************************************************************************)

\* Feeding takes the least id of a set of ids.
LEMMA NextTargetInQueue ==
  ASSUME TypeOK, NEW p \in Procs, queue[p] # {}
  PROVE  NextTarget(p) \in queue[p] /\ NextTarget(p) \in Businesses
<1>1. queue[p] \subseteq Businesses
  BY DEF TypeOK
<1>2. queue[p] \subseteq Nat
  BY <1>1
<1> QED
  BY <1>1, <1>2, MinIsMember DEF NextTarget

LEMMA ExceptKeepsSeq ==
  ASSUME NEW S, NEW seq \in Seq(S), NEW r, NEW e, r \in DOMAIN seq => e \in S
  PROVE  [seq EXCEPT ![r] = e] \in Seq(S) /\ Len([seq EXCEPT ![r] = e]) = Len(seq)
<1>1. CASE r \in DOMAIN seq
  BY <1>1, LenProperties, ExceptSeq
<1>2. CASE r \notin DOMAIN seq
  <2>1. [seq EXCEPT ![r] = e] = seq
    BY <1>2
  <2> QED
    BY <2>1
<1> QED
  BY <1>1, <1>2

LEMMA ObservationOfType ==
  ASSUME NEW b \in Businesses, NEW said \in Said
  PROVE  ObservationOf(b, said) \in Observation
BY DEF ObservationOf, Said, Observation, Fact

LEMMA JobType ==
  ASSUME TypeOK, NEW p \in Procs, NEW w \in Workers, job[p][w] # None
  PROVE  job[p][w] \in Job
BY DEF TypeOK

LEMMA JobExcept ==
  ASSUME TypeOK, NEW p \in Procs, NEW w \in Workers, NEW j \in Job \cup {None}
  PROVE  [job EXCEPT ![p][w] = j] \in [Procs -> [Workers -> Job \cup {None}]]
BY DEF TypeOK

(***************************************************************************)
(* Types.                                                                  *)
(***************************************************************************)

LEMMA InitType == Init => TypeOK
<1> SUFFICES ASSUME Init PROVE TypeOK
  OBVIOUS
<1>1. SignalsTypeOK
  BY DEF Init, SignalsInit, SignalsTypeOK
<1>2. stats \in [Procs -> Tally]
  BY DEF Init, NoStats, Tally
<1>3. runs \in Seq(Run)
  BY DEF Init
<1> QED
  BY <1>1, <1>2, <1>3 DEF Init, TypeOK

LEMMA TargetListType ==
  ASSUME TypeOK, NEW force \in BOOLEAN, NEW targets \in TargetLists(force)
  PROVE  targets \subseteq Businesses /\ Cardinality(targets) \in Nat
<1>1. targets \subseteq visible
  BY DEF TargetLists, FirstOf
<1>2. targets \subseteq Businesses
  BY <1>1 DEF TypeOK
<1>3. IsFiniteSet(targets)
  BY <1>2, FS_Subset
<1> QED
  BY <1>2, <1>3, FS_CardinalityType

LEMMA ListType ==
  ASSUME TypeOK, NEW p \in Procs, List(p)
  PROVE  TypeOK'
<1>1. PICK force \in BOOLEAN : \E targets \in TargetLists(force) :
         /\ queue' = [queue EXCEPT ![p] = targets]
         /\ stats' = [stats EXCEPT ![p].considered = Cardinality(targets)]
  BY DEF List
<1>2. PICK targets \in TargetLists(force) :
         /\ queue' = [queue EXCEPT ![p] = targets]
         /\ stats' = [stats EXCEPT ![p].considered = Cardinality(targets)]
  BY <1>1
<1>3. targets \subseteq Businesses /\ Cardinality(targets) \in Nat
  BY TargetListType
<1>4. stats' \in [Procs -> Tally]
  <2>1. [stats[p] EXCEPT !.considered = Cardinality(targets)] \in Tally
    <3>1. stats[p] \in Tally
      BY DEF TypeOK
    <3> QED
      BY <1>3, <3>1 DEF Tally
  <2>2. stats' = [stats EXCEPT ![p] = [stats[p] EXCEPT !.considered = Cardinality(targets)]]
    BY <1>2
  <2> QED
    BY <2>1, <2>2 DEF TypeOK
<1>5. queue' \in [Procs -> SUBSET Businesses]
  BY <1>2, <1>3 DEF TypeOK
<1> QED
  BY <1>4, <1>5 DEF TypeOK, SignalsTypeOK, List

LEMMA StartRunType ==
  ASSUME TypeOK, NEW p \in Procs, StartRun(p)
  PROVE  TypeOK'
<1> DEFINE new == [status |-> "running", items |-> [b \in Businesses |-> None]]
<1>1. new \in Run
  BY DEF Run
<1>2. runs' = Append(runs, new) /\ runs \in Seq(Run) /\ Len(runs) \in Nat
  BY DEF StartRun, TypeOK
<1> HIDE DEF new
<1>3. runs' \in Seq(Run)
  BY <1>1, <1>2, AppendProperties
<1>4. run' \in [Procs -> Nat]
  BY <1>2 DEF StartRun, TypeOK
<1> QED
  BY <1>3, <1>4 DEF TypeOK, SignalsTypeOK, StartRun

LEMMA LastRunType == ASSUME TypeOK PROVE LastIncompleteRun \in Nat
<1> DEFINE open == {r \in DOMAIN runs : runs[r].status = "running"}
<1>1. DOMAIN runs = 1 .. Len(runs) /\ Len(runs) \in Nat
  BY LenProperties DEF TypeOK
<1>2. {0} \cup open \subseteq 0 .. Len(runs) /\ {0} \cup open # {}
  BY <1>1
<1> HIDE DEF open
<1>3. Max({0} \cup open) \in {0} \cup open
  BY <1>1, <1>2, MaxIsGreatest
<1> QED
  BY <1>1, <1>2, <1>3 DEF LastIncompleteRun, open

LEMMA ResumeType ==
  ASSUME TypeOK, NEW p \in Procs, StartFresh(p) \/ FindPrevious(p) \/ ReadCompleted(p)
  PROVE  TypeOK'
<1>1. CASE StartFresh(p)
  BY <1>1 DEF TypeOK, SignalsTypeOK, StartFresh
<1>2. CASE FindPrevious(p)
  <2>1. prev' \in [Procs -> Nat]
    BY <1>2, LastRunType DEF TypeOK, FindPrevious
  <2> QED
    BY <1>2, <2>1 DEF TypeOK, SignalsTypeOK, FindPrevious
<1>3. CASE ReadCompleted(p)
  <2>1. done' \in [Procs -> SUBSET Businesses]
    BY <1>3 DEF TypeOK, ReadCompleted, CompletedItems
  <2> QED
    BY <1>3, <2>1 DEF TypeOK, SignalsTypeOK, ReadCompleted
<1> QED
  BY <1>1, <1>2, <1>3

LEMMA SkipType ==
  ASSUME TypeOK, NEW p \in Procs, Skip(p)
  PROVE  TypeOK'
<1>1. stats' \in [Procs -> Tally]
  <2>1. [stats[p] EXCEPT !.skipped = @ + 1] \in Tally
    <3>1. stats[p] \in Tally
      BY DEF TypeOK
    <3> QED
      BY <3>1 DEF Tally
  <2>2. stats' = [stats EXCEPT ![p] = [stats[p] EXCEPT !.skipped = @ + 1]]
    BY DEF Skip
  <2> QED
    BY <2>1, <2>2 DEF TypeOK
<1>2. queue' \in [Procs -> SUBSET Businesses]
  BY DEF TypeOK, Skip
<1> QED
  BY <1>1, <1>2 DEF TypeOK, SignalsTypeOK, Skip

LEMMA HandType ==
  ASSUME TypeOK, NEW p \in Procs, NEW w \in Workers, Hand(p, w)
  PROVE  TypeOK'
<1>1. [business |-> NextTarget(p), read |-> None, next |-> 1] \in Job
  BY NextTargetInQueue DEF Hand, Job
<1>2. job' \in [Procs -> [Workers -> Job \cup {None}]]
  BY <1>1, JobExcept DEF Hand
<1>3. queue' \in [Procs -> SUBSET Businesses]
  BY DEF TypeOK, Hand
<1> QED
  BY <1>2, <1>3 DEF TypeOK, SignalsTypeOK, Hand

LEMMA ExitType ==
  ASSUME TypeOK, NEW p \in Procs, NEW how \in {"closed", "dead"}, Exit(p, how)
  PROVE  /\ pc' \in [Procs -> {"idle", "listed", "started", "resuming", "feeding",
                               "draining", "closed", "dead"}]
         /\ prev' \in [Procs -> Nat]
         /\ done' \in [Procs -> SUBSET Businesses]
         /\ cancelled' \subseteq Procs
BY DEF TypeOK, Exit

LEMMA FinishRunType ==
  ASSUME TypeOK, NEW p \in Procs, FinishRun(p)
  PROVE  TypeOK'
<1>1. runs' \in Seq(Run)
  <2>1. CASE runs' = [runs EXCEPT ![run[p]].status = "completed"]
    <3>1. run[p] \in DOMAIN runs => [runs[run[p]] EXCEPT !.status = "completed"] \in Run
      <4>1. run[p] \in DOMAIN runs => runs[run[p]] \in Run
        BY LenProperties, ElementOfSeq DEF TypeOK
      <4> QED
        BY <4>1 DEF Run
    <3>2. runs' = [runs EXCEPT ![run[p]] = [runs[run[p]] EXCEPT !.status = "completed"]]
      BY <2>1
    <3> QED
      BY <3>1, <3>2, ExceptKeepsSeq DEF TypeOK
  <2>2. CASE UNCHANGED runs
    BY <2>2 DEF TypeOK
  <2> QED
    BY <2>1, <2>2 DEF FinishRun
<1> QED
  BY <1>1, ExitType DEF TypeOK, SignalsTypeOK, FinishRun

LEMMA MarkRunItemType ==
  ASSUME TypeOK, NEW p \in Procs, NEW b \in Businesses, NEW status \in ItemStatus,
         MarkRunItem(p, b, status)
  PROVE  runs' \in Seq(Run) /\ Len(runs') = Len(runs)
<1>1. CASE runs' = [runs EXCEPT ![run[p]].items[b] = status]
  <2>1. run[p] \in DOMAIN runs => [runs[run[p]] EXCEPT !.items[b] = status] \in Run
    <3>1. run[p] \in DOMAIN runs => runs[run[p]] \in Run
      BY LenProperties, ElementOfSeq DEF TypeOK
    <3> QED
      BY <3>1 DEF Run
  <2>2. runs' = [runs EXCEPT ![run[p]] = [runs[run[p]] EXCEPT !.items[b] = status]]
    BY <1>1
  <2> QED
    BY <2>1, <2>2, ExceptKeepsSeq DEF TypeOK
<1>2. CASE UNCHANGED runs
  BY <1>2 DEF TypeOK
<1> QED
  BY <1>1, <1>2 DEF MarkRunItem

LEMMA ReturnType ==
  ASSUME TypeOK, NEW p \in Procs, NEW w \in Workers,
         NEW counter \in {"enriched", "disallowed", "failed", "skipped"},
         Return(p, w, counter)
  PROVE  /\ job' \in [Procs -> [Workers -> Job \cup {None}]]
         /\ stats' \in [Procs -> Tally]
<1>1. job' \in [Procs -> [Workers -> Job \cup {None}]]
  BY JobExcept DEF Return
<1>2. stats' \in [Procs -> Tally]
  <2>1. stats[p] \in Tally
    BY DEF TypeOK
  <2>2. [stats[p] EXCEPT ![counter] = @ + 1] \in Tally
    BY <2>1 DEF Tally
  <2>3. stats' = [stats EXCEPT ![p] = [stats[p] EXCEPT ![counter] = @ + 1]]
    BY DEF Return
  <2> QED
    BY <2>2, <2>3 DEF TypeOK
<1> QED
  BY <1>1, <1>2

LEMMA FailType ==
  ASSUME TypeOK, NEW p \in Procs, NEW w \in Workers, job[p][w] # None, Fail(p, w)
  PROVE  TypeOK'
<1>1. job[p][w].business \in Businesses
  BY JobType DEF Job
<1>2. runs' \in Seq(Run)
  BY <1>1, MarkRunItemType DEF Fail, ItemStatus
<1>3. job' \in [Procs -> [Workers -> Job \cup {None}]] /\ stats' \in [Procs -> Tally]
  BY ReturnType DEF Fail
<1> QED
  BY <1>2, <1>3 DEF TypeOK, SignalsTypeOK, Fail

\* Whatever is read is a list of what a source can say.
LEMMA ReadingType ==
  ASSUME NEW b \in Businesses, NEW site \in SiteReads[b], NEW ads \in AdReads
  PROVE  /\ site \in Seq(Said) /\ ads \in Seq(Said)
         /\ site \o ads \in Seq(Said)
<1>1. site \in Seq(Said) /\ ads \in Seq(Said)
  OBVIOUS
<1> QED
  BY <1>1, ConcatProperties

LEMMA CollectType ==
  ASSUME TypeOK, NEW p \in Procs, NEW w \in Workers, Collect(p, w)
  PROVE  TypeOK'
<1>1. job[p][w] \in Job
  BY JobType DEF Collect, Busy
<1>2. PICK site \in SiteReads[job[p][w].business], ads \in AdReads :
         job' = [job EXCEPT ![p][w].read = site \o ads]
  BY DEF Collect
<1>3. site \o ads \in Seq(Said)
  BY <1>1, ReadingType DEF Job
<1>4. [job[p][w] EXCEPT !.read = site \o ads] \in Job
  BY <1>1, <1>3 DEF Job
<1>5. job' = [job EXCEPT ![p][w] = [job[p][w] EXCEPT !.read = site \o ads]]
  BY <1>2
<1>6. job' \in [Procs -> [Workers -> Job \cup {None}]]
  BY <1>4, <1>5, JobExcept
<1> QED
  BY <1>6 DEF TypeOK, SignalsTypeOK, Collect

\* The worker's place in the reading moves on by one.
LEMMA NextType ==
  ASSUME TypeOK, NEW p \in Procs, NEW w \in Workers, job[p][w] # None,
         job' = [job EXCEPT ![p][w].next = @ + 1]
  PROVE  job' \in [Procs -> [Workers -> Job \cup {None}]]
<1>1. [job[p][w] EXCEPT !.next = @ + 1] \in Job
  <2>1. job[p][w] \in Job
    BY JobType
  <2>2. job[p][w].next + 1 \in Nat \ {0}
    BY <2>1 DEF Job
  <2> QED
    BY <2>1, <2>2 DEF Job
<1>2. job' = [job EXCEPT ![p][w] = [job[p][w] EXCEPT !.next = @ + 1]]
  OBVIOUS
<1> QED
  BY <1>1, <1>2, JobExcept

\* What a worker is about to record is an observation.
LEMMA NextObservation ==
  ASSUME TypeOK, NEW p \in Procs, NEW w \in Workers, Recording(p, w)
  PROVE  /\ job[p][w].read[job[p][w].next] \in Said
         /\ ObservationOf(job[p][w].business, job[p][w].read[job[p][w].next]) \in Observation
<1>1. /\ job[p][w].business \in Businesses
      /\ job[p][w].read \in Seq(Said)
      /\ job[p][w].next \in 1..Len(job[p][w].read)
  <2>1. job[p][w] \in Job /\ job[p][w].read # None /\ job[p][w].next <= Len(job[p][w].read)
    BY JobType DEF Recording, Busy
  <2>2. job[p][w].read \in Seq(Said) /\ job[p][w].next \in Nat \ {0}
    BY <2>1 DEF Job
  <2>3. Len(job[p][w].read) \in Nat
    BY <2>2
  <2> QED
    BY <2>1, <2>2, <2>3 DEF Job
<1>2. job[p][w].read[job[p][w].next] \in Said
  BY <1>1, ElementOfSeq
<1> QED
  BY <1>1, <1>2, ObservationOfType

\* A transaction of a worker writes what Signals says.
LEMMA RecordNextWrites ==
  ASSUME TypeOK, NEW p \in Procs, NEW w \in Workers, RecordNext(p, w)
  PROVE  SignalsNext
<1>1. ObservationOf(job[p][w].business, job[p][w].read[job[p][w].next]) \in Observation
  BY NextObservation DEF RecordNext
<1> QED
  BY <1>1 DEF RecordNext, SignalsNext

LEMMA RecordNextType ==
  ASSUME TypeOK, NEW p \in Procs, NEW w \in Workers, RecordNext(p, w)
  PROVE  TypeOK'
<1>1. SignalsTypeOK'
  BY RecordNextWrites, SignalsTypeStep DEF TypeOK
<1>2. job' \in [Procs -> [Workers -> Job \cup {None}]]
  BY NextType DEF RecordNext, Recording, Busy
<1> QED
  BY <1>1, <1>2 DEF TypeOK, RecordNext

LEMMA PromoteEmailType ==
  ASSUME TypeOK, NEW p \in Procs, NEW w \in Workers, PromoteEmail(p, w)
  PROVE  TypeOK'
<1> DEFINE b == job[p][w].business
           read == job[p][w].read
<1>1. b \in Businesses /\ read \in Seq(Said)
  BY JobType DEF PromoteEmail, Recorded, Busy, Job
<1>2. PICK e \in Emails(read) : email' = [email EXCEPT ![b] = e]
  BY DEF PromoteEmail
<1>3. e \in Values
  <2>1. PICK k \in DOMAIN read : e = read[k].value
    BY DEF Emails
  <2>2. read[k] \in Said
    BY <1>1, LenProperties, ElementOfSeq
  <2> QED
    BY <2>1, <2>2 DEF Said
<1>4. email' \in [Businesses -> Values \cup {None}]
  BY <1>1, <1>2, <1>3 DEF TypeOK
<1>5. job' \in [Procs -> [Workers -> Job \cup {None}]]
  BY NextType DEF PromoteEmail, Recorded, Busy
<1> QED
  BY <1>4, <1>5 DEF TypeOK, SignalsTypeOK, PromoteEmail

LEMMA MarkDoneType ==
  ASSUME TypeOK, NEW p \in Procs, NEW w \in Workers, MarkDone(p, w)
  PROVE  TypeOK'
<1>1. job[p][w].business \in Businesses
  BY JobType DEF MarkDone, Recorded, Busy, Job
<1>2. runs' \in Seq(Run)
  BY <1>1, MarkRunItemType DEF MarkDone, ItemStatus
<1>3. job' \in [Procs -> [Workers -> Job \cup {None}]] /\ stats' \in [Procs -> Tally]
  <2>1. CASE Disallowed(job[p][w].read)
    BY <2>1, ReturnType DEF MarkDone
  <2>2. CASE ~Disallowed(job[p][w].read)
    BY <2>2, ReturnType DEF MarkDone
  <2> QED
    BY <2>1, <2>2
<1> QED
  BY <1>2, <1>3 DEF TypeOK, SignalsTypeOK, MarkDone

LEMMA CrashType ==
  ASSUME TypeOK, NEW p \in Procs, Crash(p)
  PROVE  TypeOK'
<1>1. stats' \in [Procs -> Tally]
  <2>1. NoStats \in Tally
    BY DEF NoStats, Tally
  <2> QED
    BY <2>1 DEF TypeOK, Crash
<1>2. job' \in [Procs -> [Workers -> Job \cup {None}]] /\ queue' \in [Procs -> SUBSET Businesses]
  BY DEF TypeOK, Crash
<1> QED
  BY <1>1, <1>2, ExitType DEF TypeOK, SignalsTypeOK, Crash

LEMMA SuppressType ==
  ASSUME TypeOK, NEW b \in Businesses, Suppress(b)
  PROVE  TypeOK'
BY DEF TypeOK, SignalsTypeOK, Suppress, Exclusion!Exclude, command

LEMMA TypeStep == TypeOK /\ [Next]_vars => TypeOK'
<1> SUFFICES ASSUME TypeOK, [Next]_vars PROVE TypeOK'
  OBVIOUS
<1>1. CASE UNCHANGED vars
  BY <1>1 DEF TypeOK, SignalsTypeOK, vars, command
<1>2. ASSUME NEW p \in Procs, List(p) PROVE TypeOK'
  BY <1>2, ListType
<1>3. ASSUME NEW p \in Procs, Feed(p) PROVE TypeOK'
  <2>1. CASE StartRun(p)
    BY <2>1, StartRunType
  <2>2. CASE StartFresh(p) \/ FindPrevious(p) \/ ReadCompleted(p)
    BY <2>2, ResumeType
  <2>3. CASE Skip(p)
    BY <2>3, SkipType
  <2>4. ASSUME NEW w \in Workers, Hand(p, w) PROVE TypeOK'
    BY <2>4, HandType
  <2>5. CASE StopFeeding(p)
    BY <2>5 DEF TypeOK, SignalsTypeOK, StopFeeding
  <2>6. CASE FinishRun(p)
    BY <2>6, FinishRunType
  <2>7. CASE GiveUp(p)
    BY <2>7, ExitType DEF TypeOK, SignalsTypeOK, GiveUp
  <2> QED
    BY <1>3, <2>1, <2>2, <2>3, <2>4, <2>5, <2>6, <2>7 DEF Feed
<1>4. ASSUME NEW p \in Procs, Interrupt(p) PROVE TypeOK'
  BY <1>4 DEF TypeOK, SignalsTypeOK, Interrupt
<1>5. ASSUME NEW p \in Procs, Crash(p) PROVE TypeOK'
  BY <1>5, CrashType
<1>6. ASSUME NEW p \in Procs, NEW w \in Workers, Work(p, w) PROVE TypeOK'
  <2>1. CASE Collect(p, w)
    BY <2>1, CollectType
  <2>2. CASE CollectFails(p, w)
    BY <2>2, FailType DEF CollectFails, Busy
  <2>3. CASE RecordNext(p, w)
    BY <2>3, RecordNextType
  <2>4. CASE RecordFails(p, w)
    BY <2>4, FailType DEF RecordFails, Recording, Busy
  <2>5. CASE PromoteEmail(p, w)
    BY <2>5, PromoteEmailType
  <2>6. CASE MarkDone(p, w)
    BY <2>6, MarkDoneType
  <2> QED
    BY <1>6, <2>1, <2>2, <2>3, <2>4, <2>5, <2>6 DEF Work
<1>7. ASSUME NEW b \in Businesses, Suppress(b) PROVE TypeOK'
  BY <1>7, SuppressType
<1> QED
  BY <1>1, <1>2, <1>3, <1>4, <1>5, <1>6, <1>7 DEF Next

\* Every variable keeps its type, whatever the number of commands and workers.
THEOREM EnrichTypeCorrect == Spec => []TypeOK
BY InitType, TypeStep, PTL DEF Spec

(***************************************************************************)
(* The signals table.                                                      *)
(***************************************************************************)

\* No step but a worker's transaction touches the table.
LEMMA WritesStep == TypeOK /\ [Next]_vars => [SignalsNext]_signals
<1> SUFFICES ASSUME TypeOK, [Next]_vars PROVE [SignalsNext]_signals
  OBVIOUS
<1>1. CASE UNCHANGED vars
  BY <1>1 DEF vars
<1>2. ASSUME NEW p \in Procs, List(p) \/ Feed(p) \/ Interrupt(p) \/ Crash(p)
      PROVE  UNCHANGED signals
  BY <1>2 DEF List, Feed, StartRun, StartFresh, FindPrevious, ReadCompleted, Skip, Hand,
              StopFeeding, FinishRun, GiveUp, Interrupt, Crash
<1>3. ASSUME NEW p \in Procs, NEW w \in Workers, Work(p, w) PROVE [SignalsNext]_signals
  <2>1. CASE RecordNext(p, w)
    BY <2>1, RecordNextWrites
  <2>2. CASE ~RecordNext(p, w)
    BY <1>3, <2>2 DEF Work, Collect, CollectFails, RecordFails, PromoteEmail, MarkDone, Fail
  <2> QED
    BY <2>1, <2>2
<1>4. ASSUME NEW b \in Businesses, Suppress(b) PROVE UNCHANGED signals
  BY <1>4 DEF Suppress
<1> QED
  BY <1>1, <1>2, <1>3, <1>4 DEF Next

\* Enrich is one of the writers Signals allows, whatever its workers,
\* interruptions and crashes: what is proved of Signals holds of it.
THEOREM EnrichWritesSignals == Spec => SignalsSpec
<1>1. Init => SignalsInit
  BY DEF Init
<1> QED
  BY <1>1, WritesStep, EnrichTypeCorrect, PTL DEF Spec, SignalsSpec

\* No fact is believed twice, however many workers and commands record it.
THEOREM EnrichOneBelief == Spec => []OneCurrent
BY EnrichWritesSignals, OneBelief, PTL

\* No row is lost, rewritten or revived.
THEOREM EnrichHistoryIsFinal == Spec => HistoryIsFinal
BY EnrichWritesSignals, HistoryIsAppendOnly, PTL

\* What enrich makes of the table implements Belief.
THEOREM EnrichBeliefIsLatest == Spec => BeliefIsLatest
BY EnrichWritesSignals, BeliefIsImplemented, PTL

(***************************************************************************)
(* What checkpoints and addresses claim.  Neither is inductive: what a     *)
(* worker has recorded so far is only known from its place in the reading. *)
(***************************************************************************)

\* A worker holds a reading of its site, has not begun recording before it has
\* it, and everything before its place in it is on record.
Behind(j) ==
  \E site \in SiteReads[j.business], ads \in AdReads :
    /\ j.read = site \o ads
    /\ \A k \in DOMAIN j.read : k < j.next => OnRecord(j.business, j.read[k])

Progress ==
  \A p \in Procs, w \in Workers : job[p][w] # None =>
    IF job[p][w].read = None THEN job[p][w].next = 1 ELSE Behind(job[p][w])

HonestInv == TypeOK /\ Progress /\ CheckpointIsHonest /\ EmailIsOnRecord

\* What is on record stays on record.
LEMMA OnRecordKept ==
  ASSUME SignalsTypeOK, [SignalsNext]_signals, NEW b, NEW said, OnRecord(b, said)
  PROVE  OnRecord(b, said)'
<1>1. PICK k \in DOMAIN signals : /\ signals[k].fact = ObservationOf(b, said).fact
                                  /\ signals[k].value = said.value
  BY DEF OnRecord
<1>2. /\ k \in DOMAIN signals'
      /\ signals'[k].fact = signals[k].fact
      /\ signals'[k].value = signals[k].value
  <2>1. CASE UNCHANGED signals
    BY <2>1
  <2>2. ASSUME NEW o \in Observation, AppendSignal(o)
        PROVE  /\ k \in DOMAIN signals'
               /\ signals'[k].fact = signals[k].fact
               /\ signals'[k].value = signals[k].value
    BY <2>2, KeptRows
  <2> QED
    BY <2>1, <2>2 DEF SignalsNext, RecordSignal, ConfirmSignal
<1> QED
  BY <1>1, <1>2 DEF OnRecord, ObservationOf

\* What was just recorded is on record, confirmed or appended.
LEMMA RecordedIsOnRecord ==
  ASSUME SignalsTypeOK, NEW b \in Businesses, NEW said \in Said,
         RecordSignal(ObservationOf(b, said))
  PROVE  OnRecord(b, said)'
<1> DEFINE o == ObservationOf(b, said)
<1>1. o \in Observation /\ o.value = said.value
  BY ObservationOfType DEF ObservationOf
<1>2. CASE ConfirmSignal(o)
  <2>1. PICK k \in Matching(o) : TRUE
    BY <1>2 DEF ConfirmSignal
  <2>2. k \in DOMAIN signals /\ signals[k].fact = o.fact /\ signals[k].value = o.value
    BY <2>1 DEF Matching, Current
  <2> QED
    BY <1>1, <1>2, <2>2 DEF ConfirmSignal, OnRecord, ObservationOf
<1>3. CASE AppendSignal(o)
  <2>1. /\ Len(signals) + 1 \in DOMAIN signals'
        /\ signals'[Len(signals) + 1].fact = o.fact
        /\ signals'[Len(signals) + 1].value = o.value
    <3>1. /\ DOMAIN signals' = 1..(Len(signals) + 1)
          /\ signals'[Len(signals) + 1] =
               [fact |-> o.fact, value |-> o.value, superseded |-> FALSE]
      BY <1>1, <1>3, AppendedRows
    <3>2. Len(signals) \in Nat
      BY DEF SignalsTypeOK
    <3> QED
      BY <3>1, <3>2
  <2> QED
    BY <1>1, <2>1 DEF OnRecord, ObservationOf
<1> QED
  BY <1>2, <1>3 DEF RecordSignal

LEMMA BehindKept ==
  ASSUME SignalsTypeOK, [SignalsNext]_signals, NEW j, Behind(j)
  PROVE  Behind(j)'
<1>1. PICK site \in SiteReads[j.business], ads \in AdReads :
         /\ j.read = site \o ads
         /\ \A k \in DOMAIN j.read : k < j.next => OnRecord(j.business, j.read[k])
  BY DEF Behind
<1>2. \A k \in DOMAIN j.read : k < j.next => OnRecord(j.business, j.read[k])'
  BY <1>1, OnRecordKept
<1> QED
  BY <1>1, <1>2 DEF Behind

Holds(j) == j # None => IF j.read = None THEN j.next = 1 ELSE Behind(j)

LEMMA HoldsKept ==
  ASSUME SignalsTypeOK, [SignalsNext]_signals, NEW j, Holds(j)
  PROVE  Holds(j)'
BY BehindKept DEF Holds

LEMMA SameJobHolds ==
  ASSUME TypeOK, Progress, [SignalsNext]_signals, NEW p \in Procs, NEW w \in Workers,
         job'[p][w] = job[p][w]
  PROVE  Holds(job[p][w])'
<1>1. PICK i \in Job \cup {None} : i = job[p][w]
  BY DEF TypeOK
<1>2. Holds(i)
  BY <1>1 DEF Progress, Holds
<1>3. Holds(i)'
  BY <1>2, HoldsKept DEF TypeOK
<1>4. job'[p][w] = i
  BY <1>1
<1> QED
  BY <1>3, <1>4 DEF Holds, Behind, OnRecord

\* A step that gives one worker another job, or the same at another place.
LEMMA ProgressOfOne ==
  ASSUME TypeOK, Progress, [SignalsNext]_signals, NEW q \in Procs, NEW v \in Workers,
         NEW j \in Job \cup {None}, job' = [job EXCEPT ![q][v] = j], Holds(j)'
  PROVE  Progress'
<1> SUFFICES ASSUME NEW p \in Procs, NEW w \in Workers
             PROVE  Holds(job[p][w])'
  BY DEF Progress, Holds
<1>1. CASE p = q /\ w = v
  <2>1. job'[p][w] = j
    BY <1>1 DEF TypeOK
  <2> QED
    BY <2>1 DEF Holds, Behind, OnRecord
<1>2. CASE ~(p = q /\ w = v)
  <2>1. job'[p][w] = job[p][w]
    BY <1>2 DEF TypeOK
  <2> QED
    BY <2>1, SameJobHolds
<1> QED
  BY <1>1, <1>2

\* A step that leaves every worker with the job it had, or none.
LEMMA ProgressOfNone ==
  ASSUME TypeOK, Progress, [SignalsNext]_signals,
         \A p \in Procs, w \in Workers : job'[p][w] = job[p][w] \/ job'[p][w] = None
  PROVE  Progress'
<1> SUFFICES ASSUME NEW p \in Procs, NEW w \in Workers
             PROVE  Holds(job[p][w])'
  BY DEF Progress, Holds
<1>1. CASE job'[p][w] = None
  BY <1>1 DEF Holds
<1>2. CASE job'[p][w] = job[p][w]
  BY <1>2, SameJobHolds
<1> QED
  BY <1>1, <1>2

LEMMA CollectProgress ==
  ASSUME TypeOK, Progress, NEW p \in Procs, NEW w \in Workers, Collect(p, w)
  PROVE  Progress'
<1>1. PICK old \in Job : old = job[p][w]
  BY JobType DEF Collect, Busy
<1>2. PICK site \in SiteReads[old.business], ads \in AdReads :
         job' = [job EXCEPT ![p][w].read = site \o ads]
  BY <1>1 DEF Collect
<1>3. site \o ads \in Seq(Said)
  BY <1>1, ReadingType DEF Job
<1>4. PICK j \in Job : j = [old EXCEPT !.read = site \o ads]
  BY <1>1, <1>3 DEF Job
<1>5. /\ j.read = site \o ads /\ j.business = old.business /\ j.next = old.next
      /\ j.read # None
  BY <1>3, <1>4 DEF Job
<1>6. j.next = 1
  BY <1>1, <1>5 DEF Progress, Collect, Busy
<1>7. \A k \in DOMAIN j.read : ~(k < j.next)
  BY <1>3, <1>5, <1>6, LenProperties
<1>8. Behind(j)'
  BY <1>2, <1>5, <1>7 DEF Behind
<1>9. job' = [job EXCEPT ![p][w] = j]
  BY <1>1, <1>2, <1>4
<1> QED
  BY <1>5, <1>8, <1>9, ProgressOfOne DEF Collect, Holds

\* A worker moves on in its reading, having recorded what it moves past.
LEMMA MovedOn ==
  ASSUME TypeOK, Progress, [SignalsNext]_signals, NEW p \in Procs, NEW w \in Workers,
         job[p][w] # None, job[p][w].read # None,
         job' = [job EXCEPT ![p][w].next = @ + 1],
         NEW old \in Job, old = job[p][w],
         old.next \in DOMAIN old.read => OnRecord(old.business, old.read[old.next])'
  PROVE  Progress'
<1>1. Behind(old)
  BY DEF Progress
<1>2. Behind(old)'
  BY <1>1, BehindKept DEF TypeOK
<1>3. PICK j \in Job : j = [old EXCEPT !.next = @ + 1]
  <2>1. old.next + 1 \in Nat \ {0}
    BY DEF Job
  <2> QED
    BY <2>1 DEF Job
<1>4. /\ j.read = old.read /\ j.business = old.business /\ j.next = old.next + 1
      /\ old.next \in Nat /\ old.read \in Seq(Said)
  BY <1>3 DEF Job
<1>5. PICK site \in SiteReads[j.business], ads \in AdReads :
         /\ j.read = site \o ads
         /\ \A k \in DOMAIN j.read : k < old.next => OnRecord(j.business, j.read[k])'
  BY <1>2, <1>4 DEF Behind
<1>6. ASSUME NEW k \in DOMAIN j.read, k < j.next
      PROVE  OnRecord(j.business, j.read[k])'
  <2>1. k \in Nat
    BY <1>4, LenProperties
  <2>2. k < old.next \/ k = old.next
    BY <1>4, <1>6, <2>1
  <2>3. CASE k < old.next
    BY <1>5, <2>3
  <2>4. CASE k = old.next
    BY <1>4, <2>4
  <2> QED
    BY <2>2, <2>3, <2>4
<1>7. Behind(j)'
  BY <1>5, <1>6 DEF Behind
<1>8. j.read # None
  BY <1>4
<1>9. job' = [job EXCEPT ![p][w] = j]
  BY <1>3
<1> QED
  BY <1>7, <1>8, <1>9, ProgressOfOne DEF Holds

LEMMA RecordNextProgress ==
  ASSUME TypeOK, Progress, NEW p \in Procs, NEW w \in Workers, RecordNext(p, w)
  PROVE  Progress'
<1>1. PICK old \in Job : old = job[p][w]
  BY JobType DEF RecordNext, Recording, Busy
<1>2. PICK said \in Said : said = old.read[old.next]
  BY <1>1, NextObservation DEF RecordNext
<1>3. old.business \in Businesses /\ RecordSignal(ObservationOf(old.business, said))
  BY <1>1, <1>2 DEF RecordNext, Job
<1>4. OnRecord(old.business, said)'
  BY <1>3, RecordedIsOnRecord DEF TypeOK
<1>5. OnRecord(old.business, old.read[old.next])'
  BY <1>2, <1>4
<1> QED
  BY <1>1, <1>5, MovedOn, RecordNextWrites DEF RecordNext, Recording, Busy

LEMMA PromoteEmailProgress ==
  ASSUME TypeOK, Progress, NEW p \in Procs, NEW w \in Workers, PromoteEmail(p, w)
  PROVE  Progress'
<1>1. PICK old \in Job : old = job[p][w]
  BY JobType DEF PromoteEmail, Recorded, Busy
<1>2. old.next \notin DOMAIN old.read
  <2>1. old.read \in Seq(Said) /\ old.next \in Nat /\ old.next > Len(old.read)
    BY <1>1 DEF PromoteEmail, Recorded, Busy, Job
  <2> QED
    BY <2>1, LenProperties
<1> QED
  BY <1>1, <1>2, MovedOn DEF PromoteEmail, Recorded, Busy

LEMMA HandProgress ==
  ASSUME TypeOK, Progress, NEW p \in Procs, NEW w \in Workers, Hand(p, w)
  PROVE  Progress'
<1>1. PICK j \in Job : j = [business |-> NextTarget(p), read |-> None, next |-> 1]
  <2>1. NextTarget(p) \in Businesses
    BY NextTargetInQueue DEF Hand
  <2>2. [business |-> NextTarget(p), read |-> None, next |-> 1] \in Job
    BY <2>1 DEF Job
  <2> QED
    BY <2>2, Zenon
<1>2. job' = [job EXCEPT ![p][w] = j]
  BY <1>1 DEF Hand
<1>3. j.read = None /\ j.next = 1
  BY <1>1
<1> QED
  BY <1>2, <1>3, ProgressOfOne DEF Hand, Holds

LEMMA ReturnProgress ==
  ASSUME TypeOK, Progress, UNCHANGED signals, NEW p \in Procs, NEW w \in Workers,
         job' = [job EXCEPT ![p][w] = None]
  PROVE  Progress'
BY ProgressOfNone DEF TypeOK

\* A whole reading of the site is on record, and no address comes from elsewhere.
ReadInFull(j) ==
  \E site \in SiteReads[j.business] :
    /\ \A k \in DOMAIN site : j.read[k] = site[k] /\ OnRecord(j.business, site[k])
    /\ \A k \in DOMAIN j.read : k \notin DOMAIN site => j.read[k].type # "contact_email"

\* What a worker that is through with its reading may claim of it.
LEMMA WholeReading ==
  ASSUME TypeOK, Progress, NEW p \in Procs, NEW w \in Workers, Recorded(p, w)
  PROVE  ReadInFull(job[p][w])
<1>1. PICK old \in Job : old = job[p][w]
  BY JobType DEF Recorded, Busy
<1>2. Behind(old) /\ old.business \in Businesses
  BY <1>1 DEF Progress, Recorded, Busy, Job
<1>3. PICK site \in SiteReads[old.business], ads \in AdReads :
         /\ old.read = site \o ads
         /\ \A k \in DOMAIN old.read : k < old.next => OnRecord(old.business, old.read[k])
  BY <1>2 DEF Behind
<1>4. site \in Seq(Said) /\ ads \in Seq(Said) /\ old.read \in Seq(Said)
  <2>1. /\ site \in Seq(Said) /\ ads \in Seq(Said)
        /\ site \o ads \in Seq(Said)
    BY <1>2, ReadingType, Zenon
  <2> QED
    BY <1>3, <2>1
<1>5. /\ Len(old.read) = Len(site) + Len(ads)
      /\ \A k \in 1..(Len(site) + Len(ads)) :
           old.read[k] = IF k <= Len(site) THEN site[k] ELSE ads[k - Len(site)]
      /\ Len(site) \in Nat /\ Len(ads) \in Nat
      /\ DOMAIN site = 1..Len(site) /\ DOMAIN ads = 1..Len(ads)
      /\ DOMAIN old.read = 1..Len(old.read)
  BY <1>3, <1>4, ConcatProperties, LenProperties
<1>6. old.next > Len(old.read) /\ old.next \in Nat
  BY <1>1 DEF Recorded, Job
<1>7. ASSUME NEW k \in DOMAIN site
      PROVE  old.read[k] = site[k] /\ OnRecord(old.business, site[k])
  <2>1. k \in DOMAIN old.read /\ k < old.next /\ old.read[k] = site[k]
    BY <1>5, <1>6
  <2> QED
    BY <1>3, <2>1
<1>8. ASSUME NEW k \in DOMAIN old.read, k \notin DOMAIN site
      PROVE  old.read[k].type # "contact_email"
  <2>1. k - Len(site) \in DOMAIN ads /\ old.read[k] = ads[k - Len(site)]
    BY <1>5, <1>8
  <2> QED
    BY <2>1
<1>9. ReadInFull(old)
  BY <1>7, <1>8 DEF ReadInFull
<1> QED
  BY <1>1, <1>9

\* A checkpoint that is in the table already, or that a whole reading on record
\* stands behind, stays honest.
LEMMA CheckpointStep ==
  ASSUME TypeOK, CheckpointIsHonest, [SignalsNext]_signals,
         \A r \in DOMAIN runs', b \in Businesses : runs'[r].items[b] = "done" =>
           \/ r \in DOMAIN runs /\ runs[r].items[b] = "done"
           \/ \E read \in SiteReads[b] : \A k \in DOMAIN read : OnRecord(b, read[k])
  PROVE  CheckpointIsHonest'
<1> SUFFICES ASSUME NEW r \in DOMAIN runs', NEW b \in Businesses, runs'[r].items[b] = "done"
             PROVE  (\E read \in SiteReads[b] : \A k \in DOMAIN read : OnRecord(b, read[k]))'
  BY DEF CheckpointIsHonest
<1>1. PICK read \in SiteReads[b] : \A k \in DOMAIN read : OnRecord(b, read[k])
  BY DEF CheckpointIsHonest
<1>2. \A k \in DOMAIN read : OnRecord(b, read[k])'
  BY <1>1, OnRecordKept DEF TypeOK
<1> QED
  BY <1>2

LEMMA SameRunsHonest ==
  ASSUME TypeOK, CheckpointIsHonest, [SignalsNext]_signals, UNCHANGED runs
  PROVE  CheckpointIsHonest'
BY CheckpointStep

\* Marking an item done needs a whole reading on record; failed needs nothing.
LEMMA MarkHonest ==
  ASSUME TypeOK, CheckpointIsHonest, UNCHANGED signals, NEW p \in Procs,
         NEW b \in Businesses, NEW status \in ItemStatus, MarkRunItem(p, b, status),
         status = "done" =>
           \E read \in SiteReads[b] : \A k \in DOMAIN read : OnRecord(b, read[k])
  PROVE  CheckpointIsHonest'
<1>1. CASE UNCHANGED runs
  BY <1>1, SameRunsHonest
<1>2. CASE runs' = [runs EXCEPT ![run[p]].items[b] = status]
  <2>1. ASSUME NEW r \in DOMAIN runs', NEW c \in Businesses, runs'[r].items[c] = "done"
        PROVE  \/ r \in DOMAIN runs /\ runs[r].items[c] = "done"
               \/ \E read \in SiteReads[c] : \A k \in DOMAIN read : OnRecord(c, read[k])
    <3>1. r \in DOMAIN runs
      BY <1>2
    <3>2. runs[r] \in Run
      BY <3>1, LenProperties, ElementOfSeq DEF TypeOK
    <3>3. CASE r = run[p] /\ c = b
      <4>1. runs'[r].items[c] = status
        BY <1>2, <3>1, <3>2, <3>3 DEF Run
      <4> QED
        BY <2>1, <3>3, <4>1
    <3>4. CASE ~(r = run[p] /\ c = b)
      <4>1. runs'[r].items[c] = runs[r].items[c]
        BY <1>2, <3>1, <3>2, <3>4 DEF Run
      <4> QED
        BY <2>1, <3>1, <4>1
    <3> QED
      BY <3>3, <3>4
  <2> QED
    BY <2>1, CheckpointStep
<1> QED
  BY <1>1, <1>2 DEF MarkRunItem

LEMMA FailHonest ==
  ASSUME HonestInv, NEW p \in Procs, NEW w \in Workers, job[p][w] # None, Fail(p, w)
  PROVE  Progress' /\ CheckpointIsHonest'
<1>1. Progress'
  BY ReturnProgress DEF HonestInv, Fail, Return
<1>2. job[p][w].business \in Businesses
  BY JobType DEF HonestInv, Job
<1>3. CheckpointIsHonest'
  BY <1>2, MarkHonest DEF HonestInv, Fail, ItemStatus
<1> QED
  BY <1>1, <1>3

LEMMA MarkDoneHonest ==
  ASSUME HonestInv, NEW p \in Procs, NEW w \in Workers, MarkDone(p, w)
  PROVE  Progress' /\ CheckpointIsHonest'
<1>1. Progress'
  BY ReturnProgress DEF HonestInv, MarkDone, Return
<1>2. PICK b \in Businesses : b = job[p][w].business
  BY JobType DEF HonestInv, MarkDone, Recorded, Busy, Job
<1>3. \E read \in SiteReads[b] : \A k \in DOMAIN read : OnRecord(b, read[k])
  BY <1>2, WholeReading DEF HonestInv, MarkDone, ReadInFull
<1>4. CheckpointIsHonest'
  BY <1>2, <1>3, MarkHonest DEF HonestInv, MarkDone, ItemStatus
<1> QED
  BY <1>1, <1>4

\* An address a business has already is still on record.
LEMMA SameEmailHonest ==
  ASSUME SignalsTypeOK, [SignalsNext]_signals, EmailIsOnRecord, UNCHANGED email
  PROVE  EmailIsOnRecord'
<1> SUFFICES ASSUME NEW b \in Businesses, email[b] # None
             PROVE  (\E read \in SiteReads[b] : \E k \in DOMAIN read :
                       /\ read[k].type = "contact_email" /\ read[k].value = email[b]
                       /\ OnRecord(b, read[k]))'
  BY DEF EmailIsOnRecord
<1>1. PICK read \in SiteReads[b] : \E k \in DOMAIN read :
        /\ read[k].type = "contact_email" /\ read[k].value = email[b]
        /\ OnRecord(b, read[k])
  BY DEF EmailIsOnRecord
<1>2. PICK k \in DOMAIN read :
        /\ read[k].type = "contact_email" /\ read[k].value = email[b]
        /\ OnRecord(b, read[k])
  BY <1>1
<1>3. OnRecord(b, read[k])'
  BY <1>2, OnRecordKept
<1> QED
  BY <1>2, <1>3

LEMMA PromoteHonest ==
  ASSUME HonestInv, NEW p \in Procs, NEW w \in Workers, PromoteEmail(p, w)
  PROVE  EmailIsOnRecord'
<1>1. PICK b \in Businesses : b = job[p][w].business
  BY JobType DEF HonestInv, PromoteEmail, Recorded, Busy, Job
<1>2. PICK e \in Emails(job[p][w].read) : email' = [email EXCEPT ![b] = e]
  BY <1>1 DEF PromoteEmail
<1>3. PICK k \in DOMAIN job[p][w].read : /\ job[p][w].read[k].type = "contact_email"
                                         /\ job[p][w].read[k].value = e
  BY DEF Emails
<1>4. PICK site \in SiteReads[b] :
         /\ \A i \in DOMAIN site : job[p][w].read[i] = site[i] /\ OnRecord(b, site[i])
         /\ \A i \in DOMAIN job[p][w].read : i \notin DOMAIN site =>
              job[p][w].read[i].type # "contact_email"
  <2>1. ReadInFull(job[p][w])
    BY WholeReading DEF HonestInv, PromoteEmail
  <2> QED
    BY <1>1, <2>1 DEF ReadInFull
<1>5. /\ k \in DOMAIN site
      /\ site[k].type = "contact_email" /\ site[k].value = e
      /\ OnRecord(b, site[k])
  BY <1>3, <1>4
<1>6. UNCHANGED signals
  BY DEF PromoteEmail
<1> SUFFICES ASSUME NEW c \in Businesses, email'[c] # None
             PROVE  \E read \in SiteReads[c] : \E i \in DOMAIN read :
                      /\ read[i].type = "contact_email" /\ read[i].value = email'[c]
                      /\ OnRecord(c, read[i])'
  BY DEF EmailIsOnRecord
<1>7. CASE c = b
  <2>1. email'[c] = e
    BY <1>2, <1>7 DEF HonestInv, TypeOK
  <2> QED
    BY <1>5, <1>6, <1>7, <2>1 DEF OnRecord
<1>8. CASE c # b
  <2>1. email'[c] = email[c]
    BY <1>2, <1>8 DEF HonestInv, TypeOK
  <2> QED
    BY <1>6, <2>1 DEF HonestInv, EmailIsOnRecord, OnRecord
<1> QED
  BY <1>7, <1>8

LEMMA FeedHonest ==
  ASSUME HonestInv, NEW p \in Procs, Feed(p)
  PROVE  Progress' /\ CheckpointIsHonest' /\ UNCHANGED email /\ UNCHANGED signals
<1> USE DEF HonestInv
<1>1. CASE StartRun(p)
  <2> DEFINE new == [status |-> "running", items |-> [b \in Businesses |-> None]]
  <2>1. new \in Run /\ \A b \in Businesses : new.items[b] # "done"
    BY DEF Run, ItemStatus
  <2>2. runs \in Seq(Run) /\ runs' = Append(runs, new) /\ UNCHANGED <<signals, job, email>>
    BY <1>1 DEF TypeOK, StartRun
  <2>3. ASSUME NEW r \in DOMAIN runs', NEW b \in Businesses, runs'[r].items[b] = "done"
        PROVE  r \in DOMAIN runs /\ runs[r].items[b] = "done"
    <3> HIDE DEF new
    <3>1. /\ DOMAIN runs' = 1..(Len(runs) + 1)
          /\ Len(runs) \in Nat /\ DOMAIN runs = 1..Len(runs)
          /\ \A k \in 1..Len(runs) : runs'[k] = runs[k]
          /\ runs'[Len(runs) + 1] = new
      BY <2>1, <2>2, AppendProperties, LenProperties
    <3>2. r # Len(runs) + 1
      BY <2>1, <2>3, <3>1
    <3> QED
      BY <2>3, <3>1, <3>2
  <2>4. CheckpointIsHonest'
    BY <2>2, <2>3, CheckpointStep
  <2> QED
    BY <2>2, <2>4, ProgressOfNone
<1>2. CASE StartFresh(p) \/ FindPrevious(p) \/ ReadCompleted(p)
  BY <1>2, ProgressOfNone, SameRunsHonest DEF StartFresh, FindPrevious, ReadCompleted
<1>3. CASE Skip(p)
  BY <1>3, ProgressOfNone, SameRunsHonest DEF Skip
<1>4. ASSUME NEW w \in Workers, Hand(p, w)
      PROVE  Progress' /\ CheckpointIsHonest' /\ UNCHANGED email /\ UNCHANGED signals
  <2>1. UNCHANGED <<signals, runs, email>>
    BY <1>4 DEF Hand
  <2> QED
    BY <1>4, <2>1, HandProgress, SameRunsHonest
<1>5. CASE StopFeeding(p)
  BY <1>5, ProgressOfNone, SameRunsHonest DEF StopFeeding
<1>6. CASE FinishRun(p)
  <2>1. UNCHANGED <<signals, job, email>>
    BY <1>6 DEF FinishRun
  <2>2. CASE runs' = [runs EXCEPT ![run[p]].status = "completed"]
    <3>1. ASSUME NEW r \in DOMAIN runs', NEW b \in Businesses, runs'[r].items[b] = "done"
          PROVE  r \in DOMAIN runs /\ runs[r].items[b] = "done"
      <4>1. r \in DOMAIN runs
        BY <2>2
      <4>2. runs[r] \in Run
        BY <4>1, LenProperties, ElementOfSeq DEF TypeOK
      <4>3. runs'[r].items = runs[r].items
        BY <2>2, <4>1, <4>2 DEF Run
      <4> QED
        BY <3>1, <4>1, <4>3
    <3>2. CheckpointIsHonest'
      BY <2>1, <3>1, CheckpointStep
    <3> QED
      BY <2>1, <3>2, ProgressOfNone
  <2>3. CASE UNCHANGED runs
    BY <2>1, <2>3, ProgressOfNone, SameRunsHonest
  <2> QED
    BY <1>6, <2>2, <2>3 DEF FinishRun
<1>7. CASE GiveUp(p)
  BY <1>7, ProgressOfNone, SameRunsHonest DEF GiveUp
<1> QED
  BY <1>1, <1>2, <1>3, <1>4, <1>5, <1>6, <1>7 DEF Feed

LEMMA WorkHonest ==
  ASSUME HonestInv, [SignalsNext]_signals, NEW p \in Procs, NEW w \in Workers, Work(p, w)
  PROVE  Progress' /\ CheckpointIsHonest' /\ EmailIsOnRecord'
<1> USE DEF HonestInv
<1>0. SignalsTypeOK
  BY DEF TypeOK
<1>1. CASE Collect(p, w)
  <2>1. UNCHANGED <<runs, email>>
    BY <1>1 DEF Collect
  <2> QED
    BY <1>0, <1>1, <2>1, CollectProgress, SameRunsHonest, SameEmailHonest
<1>2. CASE CollectFails(p, w)
  <2>1. job[p][w] # None /\ Fail(p, w) /\ UNCHANGED email
    BY <1>2 DEF CollectFails, Busy, Fail
  <2> QED
    BY <1>0, <2>1, FailHonest, SameEmailHonest
<1>3. CASE RecordNext(p, w)
  <2>1. UNCHANGED <<runs, email>>
    BY <1>3 DEF RecordNext
  <2> QED
    BY <1>0, <1>3, <2>1, RecordNextProgress, SameRunsHonest, SameEmailHonest
<1>4. CASE RecordFails(p, w)
  <2>1. job[p][w] # None /\ Fail(p, w) /\ UNCHANGED email
    BY <1>4 DEF RecordFails, Recording, Busy, Fail
  <2> QED
    BY <1>0, <2>1, FailHonest, SameEmailHonest
<1>5. CASE PromoteEmail(p, w)
  <2>1. UNCHANGED runs
    BY <1>5 DEF PromoteEmail
  <2> QED
    BY <1>5, <2>1, PromoteEmailProgress, PromoteHonest, SameRunsHonest
<1>6. CASE MarkDone(p, w)
  <2>1. UNCHANGED email
    BY <1>6 DEF MarkDone
  <2> QED
    BY <1>0, <1>6, <2>1, MarkDoneHonest, SameEmailHonest
<1> QED
  BY <1>1, <1>2, <1>3, <1>4, <1>5, <1>6 DEF Work

LEMMA HonestStep == HonestInv /\ [Next]_vars => HonestInv'
<1> SUFFICES ASSUME HonestInv, [Next]_vars PROVE HonestInv'
  OBVIOUS
<1>1. TypeOK' /\ [SignalsNext]_signals /\ SignalsTypeOK
  BY TypeStep, WritesStep DEF HonestInv, TypeOK
<1>2. ASSUME UNCHANGED <<runs, email>>, UNCHANGED job PROVE HonestInv'
  BY <1>1, <1>2, ProgressOfNone, SameRunsHonest, SameEmailHonest DEF HonestInv
<1>3. CASE UNCHANGED vars
  BY <1>2, <1>3 DEF vars, command
<1>4. ASSUME NEW p \in Procs, List(p) PROVE HonestInv'
  BY <1>2, <1>4 DEF List
<1>5. ASSUME NEW p \in Procs, Feed(p) PROVE HonestInv'
  BY <1>1, <1>5, FeedHonest, SameEmailHonest DEF HonestInv
<1>6. ASSUME NEW p \in Procs, Interrupt(p) PROVE HonestInv'
  BY <1>2, <1>6 DEF Interrupt
<1>7. ASSUME NEW p \in Procs, Crash(p) PROVE HonestInv'
  <2>1. \A q \in Procs, w \in Workers : job'[q][w] = job[q][w] \/ job'[q][w] = None
    BY <1>7 DEF Crash, HonestInv, TypeOK
  <2>2. UNCHANGED <<runs, email>>
    BY <1>7 DEF Crash
  <2> QED
    BY <1>1, <2>1, <2>2, ProgressOfNone, SameRunsHonest, SameEmailHonest DEF HonestInv
<1>8. ASSUME NEW p \in Procs, NEW w \in Workers, Work(p, w) PROVE HonestInv'
  BY <1>1, <1>8, WorkHonest DEF HonestInv
<1>9. ASSUME NEW b \in Businesses, Suppress(b) PROVE HonestInv'
  BY <1>2, <1>9 DEF Suppress, command
<1> QED
  BY <1>3, <1>4, <1>5, <1>6, <1>7, <1>8, <1>9 DEF Next

LEMMA InitHonest == Init => HonestInv
<1> SUFFICES ASSUME Init PROVE HonestInv
  OBVIOUS
<1>1. Progress
  BY DEF Init, Progress
<1>2. CheckpointIsHonest
  BY DEF Init, CheckpointIsHonest
<1>3. EmailIsOnRecord
  BY DEF Init, EmailIsOnRecord
<1> QED
  BY <1>1, <1>2, <1>3, InitType DEF HonestInv

\* A checkpoint never claims more than the table holds, wherever a command was
\* interrupted, killed or let down by a statement.
THEOREM CheckpointsAreHonest == Spec => []CheckpointIsHonest
<1>1. HonestInv => CheckpointIsHonest
  BY DEF HonestInv
<1> QED
  BY <1>1, InitHonest, HonestStep, PTL DEF Spec

\* An address on a business row is one a reading of its site put on record.
THEOREM EmailsAreOnRecord == Spec => []EmailIsOnRecord
<1>1. HonestInv => EmailIsOnRecord
  BY DEF HonestInv
<1> QED
  BY <1>1, InitHonest, HonestStep, PTL DEF Spec

(***************************************************************************)
(* The summary.  Kept is what EveryTargetAccounted needs of one command:   *)
(* its workers are of its pool, it counts from nothing, and it runs out of *)
(* its list before it drains unless it is cancelled.                       *)
(***************************************************************************)

Balanced(p) ==
  stats[p].considered = Counted(p) + Cardinality(queue[p]) + Cardinality(BusyWorkers(p))

Kept(p) ==
  /\ IsFiniteSet(BusyWorkers(p)) /\ BusyWorkers(p) \subseteq PoolOf[p]
  /\ pc[p] = "idle" => stats[p] = NoStats /\ BusyWorkers(p) = {}
  /\ pc[p] # "dead" => Balanced(p)
  /\ pc[p] = "draining" /\ p \notin cancelled => queue[p] = {}

\* Any step of command p.
StepOf(p) ==
  \/ List(p) \/ Feed(p) \/ Interrupt(p) \/ Crash(p)
  \/ \E w \in Workers : Work(p, w)

LEMMA QueueCount ==
  ASSUME TypeOK, NEW p \in Procs
  PROVE  IsFiniteSet(queue[p]) /\ Cardinality(queue[p]) \in Nat
<1>1. queue[p] \subseteq Businesses /\ IsFiniteSet(Businesses)
  BY DEF TypeOK
<1>2. IsFiniteSet(queue[p])
  BY <1>1, FS_Subset
<1> QED
  BY <1>2, FS_CardinalityType

LEMMA TallyNumbers ==
  ASSUME TypeOK, NEW p \in Procs
  PROVE  /\ stats[p].considered \in Nat /\ stats[p].enriched \in Nat
         /\ stats[p].disallowed \in Nat /\ stats[p].failed \in Nat /\ stats[p].skipped \in Nat
         /\ Counted(p) \in Nat
<1>1. stats[p] \in Tally
  BY DEF TypeOK
<1> QED
  BY <1>1 DEF Tally, Counted

\* What command p does is nothing to command q.
LEMMA OthersUntouched ==
  ASSUME TypeOK, NEW p \in Procs, StepOf(p), NEW q \in Procs \ {p}
  PROVE  /\ pc'[q] = pc[q] /\ queue'[q] = queue[q] /\ stats'[q] = stats[q]
         /\ job'[q] = job[q] /\ run'[q] = run[q]
         /\ q \in cancelled' <=> q \in cancelled
<1>1. CASE List(p)
  BY <1>1 DEF List, TypeOK
<1>2. CASE Feed(p)
  BY <1>2 DEF Feed, StartRun, StartFresh, FindPrevious, ReadCompleted, Skip, Hand,
              StopFeeding, FinishRun, GiveUp, Exit, TypeOK
<1>3. CASE Interrupt(p) \/ Crash(p)
  BY <1>3 DEF Interrupt, Crash, Exit, TypeOK
<1>4. ASSUME NEW w \in Workers, Work(p, w)
      PROVE  /\ pc'[q] = pc[q] /\ queue'[q] = queue[q] /\ stats'[q] = stats[q]
             /\ job'[q] = job[q] /\ run'[q] = run[q]
             /\ q \in cancelled' <=> q \in cancelled
  BY <1>4 DEF Work, Collect, CollectFails, RecordNext, RecordFails, PromoteEmail, MarkDone,
              Fail, Return, TypeOK
<1> QED
  BY <1>1, <1>2, <1>3, <1>4 DEF StepOf

\* The tally of p stands, and the command does not begin again.
LEMMA SameTally ==
  ASSUME NEW p \in Procs, Kept(p), stats'[p] = stats[p], queue'[p] = queue[p],
         \A w \in Workers : job'[p][w] = None <=> job[p][w] = None,
         pc'[p] = "idle" => pc[p] = "idle", pc[p] = "dead" => pc'[p] = "dead",
         pc'[p] = "draining" /\ p \notin cancelled' => queue[p] = {}
  PROVE  Kept(p)'
<1>1. BusyWorkers(p)' = BusyWorkers(p)
  BY DEF BusyWorkers
<1> QED
  BY <1>1 DEF Kept, Balanced, Counted

LEMMA ListTally ==
  ASSUME TypeOK, NEW p \in Procs, Kept(p), List(p)
  PROVE  Kept(p)'
<1>1. PICK force \in BOOLEAN : \E targets \in TargetLists(force) :
         /\ queue' = [queue EXCEPT ![p] = targets]
         /\ stats' = [stats EXCEPT ![p].considered = Cardinality(targets)]
  BY DEF List
<1>2. PICK targets \in TargetLists(force) :
         /\ queue' = [queue EXCEPT ![p] = targets]
         /\ stats' = [stats EXCEPT ![p].considered = Cardinality(targets)]
  BY <1>1
<1>3. Cardinality(targets) \in Nat
  BY TargetListType
<1>4. /\ pc[p] = "idle" /\ pc'[p] = "listed" /\ UNCHANGED job
      /\ stats[p] = NoStats /\ BusyWorkers(p) = {}
  BY DEF List, TypeOK, Kept
<1>5. stats'[p] = [NoStats EXCEPT !.considered = Cardinality(targets)] /\ queue'[p] = targets
  BY <1>2, <1>4 DEF TypeOK
<1>6. BusyWorkers(p)' = {}
  BY <1>4 DEF BusyWorkers
<1>7. Balanced(p)'
  BY <1>3, <1>5, <1>6, FS_EmptySet DEF Balanced, Counted, NoStats
<1> QED
  BY <1>4, <1>6, <1>7, FS_EmptySet DEF Kept

\* The feeder takes one target off the list.
LEMMA OneOffTheList ==
  ASSUME TypeOK, NEW p \in Procs, queue[p] # {},
         queue' = [queue EXCEPT ![p] = @ \ {NextTarget(p)}]
  PROVE  Cardinality(queue'[p]) = Cardinality(queue[p]) - 1
<1>1. queue'[p] = queue[p] \ {NextTarget(p)}
  BY DEF TypeOK
<1> QED
  BY <1>1, QueueCount, NextTargetInQueue, FS_RemoveElement

LEMMA SkipTally ==
  ASSUME TypeOK, NEW p \in Procs, Kept(p), Skip(p)
  PROVE  Kept(p)'
<1>1. Cardinality(queue'[p]) = Cardinality(queue[p]) - 1
  BY OneOffTheList DEF Skip
<1>2. stats'[p] = [stats[p] EXCEPT !.skipped = @ + 1] /\ pc[p] = "feeding" /\ UNCHANGED <<pc, job>>
  BY DEF Skip, TypeOK
<1>3. /\ stats'[p].considered = stats[p].considered /\ stats'[p].enriched = stats[p].enriched
      /\ stats'[p].disallowed = stats[p].disallowed /\ stats'[p].failed = stats[p].failed
      /\ stats'[p].skipped = stats[p].skipped + 1
  <2>1. stats[p] \in Tally
    BY DEF TypeOK
  <2> QED
    BY <1>2, <2>1 DEF Tally
<1>4. BusyWorkers(p)' = BusyWorkers(p) /\ Cardinality(BusyWorkers(p)) \in Nat
  BY <1>2, FS_CardinalityType DEF BusyWorkers, Kept
<1>5. Counted(p)' = Counted(p) + 1
  <2>1. stats[p] \in Tally
    BY DEF TypeOK
  <2> QED
    BY <1>2, <2>1 DEF Counted, Tally
<1>6. Balanced(p)
  BY <1>2 DEF Kept
<1>7. Balanced(p)'
  BY <1>1, <1>3, <1>4, <1>5, <1>6, TallyNumbers, QueueCount DEF Balanced
<1> QED
  BY <1>2, <1>4, <1>7 DEF Kept

LEMMA HandTally ==
  ASSUME TypeOK, NEW p \in Procs, NEW w \in Workers, Kept(p), Hand(p, w)
  PROVE  Kept(p)'
<1>1. Cardinality(queue'[p]) = Cardinality(queue[p]) - 1
  BY OneOffTheList DEF Hand
<1>2. /\ pc[p] = "feeding" /\ UNCHANGED <<pc, stats>> /\ w \in PoolOf[p] /\ job[p][w] = None
      /\ job' = [job EXCEPT ![p][w] = [business |-> NextTarget(p), read |-> None, next |-> 1]]
  BY DEF Hand
<1>3. [business |-> NextTarget(p), read |-> None, next |-> 1] # None
  <2>1. [business |-> NextTarget(p), read |-> None, next |-> 1] \in Job
    BY NextTargetInQueue DEF Hand, Job
  <2>2. None \notin Job
    OBVIOUS
  <2> QED
    BY <2>1, <2>2, Zenon
<1>4. BusyWorkers(p)' = BusyWorkers(p) \cup {w} /\ w \notin BusyWorkers(p)
  BY <1>2, <1>3 DEF BusyWorkers, TypeOK
<1>5. /\ IsFiniteSet(BusyWorkers(p)') /\ Cardinality(BusyWorkers(p)) \in Nat
      /\ Cardinality(BusyWorkers(p)') = Cardinality(BusyWorkers(p)) + 1
  BY <1>4, FS_AddElement, FS_CardinalityType DEF Kept
<1>6. Balanced(p) /\ Counted(p)' = Counted(p)
  BY <1>2 DEF Kept, Counted
<1>7. Balanced(p)'
  BY <1>1, <1>2, <1>5, <1>6, TallyNumbers, QueueCount DEF Balanced
<1> QED
  BY <1>2, <1>4, <1>5, <1>7 DEF Kept

\* A counter that goes up adds one to what is counted.
LEMMA OneMoreCounted ==
  ASSUME NEW t \in Tally, NEW counter \in {"enriched", "disallowed", "failed"}, NEW u,
         u = [t EXCEPT ![counter] = @ + 1]
  PROVE  /\ u.considered = t.considered
         /\ u.enriched + u.disallowed + u.failed + u.skipped =
              t.enriched + t.disallowed + t.failed + t.skipped + 1
<1> HIDE EnrichAssumption, JobAssumption
<1>1. t.enriched \in Nat /\ t.disallowed \in Nat /\ t.failed \in Nat /\ t.skipped \in Nat
  BY DEF Tally
<1>2. CASE counter = "enriched"
  <2>1. u = [t EXCEPT !.enriched = t.enriched + 1]
    BY <1>2
  <2>2. /\ u.enriched = t.enriched + 1
        /\ u.considered = t.considered /\ u.disallowed = t.disallowed
        /\ u.failed = t.failed /\ u.skipped = t.skipped
    BY <2>1 DEF Tally
  <2> QED
    BY <1>1, <2>2
<1>3. CASE counter = "disallowed"
  <2>1. u = [t EXCEPT !.disallowed = t.disallowed + 1]
    BY <1>3
  <2>2. /\ u.disallowed = t.disallowed + 1
        /\ u.considered = t.considered /\ u.enriched = t.enriched
        /\ u.failed = t.failed /\ u.skipped = t.skipped
    BY <2>1 DEF Tally
  <2> QED
    BY <1>1, <2>2
<1>4. CASE counter = "failed"
  <2>1. u = [t EXCEPT !.failed = t.failed + 1]
    BY <1>4
  <2>2. /\ u.failed = t.failed + 1
        /\ u.considered = t.considered /\ u.enriched = t.enriched
        /\ u.disallowed = t.disallowed /\ u.skipped = t.skipped
    BY <2>1 DEF Tally
  <2> QED
    BY <1>1, <2>2
<1> QED
  BY <1>2, <1>3, <1>4

LEMMA ReturnTally ==
  ASSUME TypeOK, NEW p \in Procs, NEW w \in Workers, Kept(p), Live(p), job[p][w] # None,
         NEW counter \in {"enriched", "disallowed", "failed"}, Return(p, w, counter),
         UNCHANGED <<pc, queue, cancelled>>
  PROVE  Kept(p)'
<1>1. BusyWorkers(p)' = BusyWorkers(p) \ {w} /\ w \in BusyWorkers(p)
  BY DEF Return, BusyWorkers, TypeOK
<1>2. /\ IsFiniteSet(BusyWorkers(p)') /\ Cardinality(BusyWorkers(p)) \in Nat
      /\ Cardinality(BusyWorkers(p)') = Cardinality(BusyWorkers(p)) - 1
  BY <1>1, FS_RemoveElement, FS_CardinalityType DEF Kept
<1>3. stats'[p] = [stats[p] EXCEPT ![counter] = @ + 1] /\ stats[p] \in Tally
  BY DEF Return, TypeOK
<1>4. stats'[p].considered = stats[p].considered /\ Counted(p)' = Counted(p) + 1
  <2>1. \A t, u : t \in Tally /\ u = [t EXCEPT ![counter] = @ + 1]
          => /\ u.considered = t.considered
             /\ u.enriched + u.disallowed + u.failed + u.skipped =
                  t.enriched + t.disallowed + t.failed + t.skipped + 1
    BY OneMoreCounted, Zenon
  <2> HIDE EnrichAssumption, JobAssumption
  <2>2. /\ stats'[p].considered = stats[p].considered
        /\ stats'[p].enriched + stats'[p].disallowed + stats'[p].failed + stats'[p].skipped =
             stats[p].enriched + stats[p].disallowed + stats[p].failed + stats[p].skipped + 1
    BY ONLY <1>3, <2>1, Zenon
  <2> QED
    BY ONLY <2>2, Zenon DEF Counted
<1>5. Balanced(p) /\ pc[p] \notin {"idle", "dead"}
  BY DEF Kept, Live
<1>6. Balanced(p)'
  <2>1. Counted(p) \in Nat /\ Cardinality(queue[p]) \in Nat /\ queue'[p] = queue[p]
    BY TallyNumbers, QueueCount
  <2> QED
    BY <1>2, <1>4, <1>5, <2>1 DEF Balanced
<1> QED
  BY <1>1, <1>2, <1>5, <1>6 DEF Kept

LEMMA CrashTally ==
  ASSUME TypeOK, NEW p \in Procs, Crash(p)
  PROVE  Kept(p)'
<1>1. pc'[p] = "dead" /\ job'[p] = [w \in Workers |-> None]
  BY DEF Crash, Exit, TypeOK
<1>2. BusyWorkers(p)' = {}
  BY <1>1 DEF BusyWorkers
<1> QED
  BY <1>1, <1>2, FS_EmptySet DEF Kept

LEMMA FeedTally ==
  ASSUME TypeOK, NEW p \in Procs, Kept(p), Feed(p)
  PROVE  Kept(p)'
<1>1. CASE Skip(p)
  BY <1>1, SkipTally
<1>2. ASSUME NEW w \in Workers, Hand(p, w) PROVE Kept(p)'
  BY <1>2, HandTally
<1>3. CASE StartRun(p) \/ StartFresh(p) \/ FindPrevious(p) \/ ReadCompleted(p)
  <2>1. /\ pc'[p] \in {"started", "resuming", "feeding"} /\ pc[p] # "dead"
        /\ UNCHANGED <<queue, stats, job>>
    BY <1>3 DEF StartRun, StartFresh, FindPrevious, ReadCompleted, TypeOK
  <2> QED
    BY <2>1, SameTally
<1>4. CASE StopFeeding(p)
  <2>1. /\ pc'[p] = "draining" /\ pc[p] = "feeding" /\ UNCHANGED <<queue, stats, job, cancelled>>
        /\ p \notin cancelled => queue[p] = {}
    BY <1>4 DEF StopFeeding, TypeOK
  <2> QED
    BY <2>1, SameTally
<1>5. CASE FinishRun(p) \/ GiveUp(p)
  <2>1. pc'[p] = "closed" /\ pc[p] # "dead" /\ UNCHANGED <<queue, stats, job>>
    BY <1>5 DEF FinishRun, GiveUp, Exit, TypeOK
  <2> QED
    BY <2>1, SameTally
<1> QED
  BY <1>1, <1>2, <1>3, <1>4, <1>5 DEF Feed

LEMMA WorkTally ==
  ASSUME TypeOK, NEW p \in Procs, NEW w \in Workers, Kept(p), Work(p, w)
  PROVE  Kept(p)'
<1>1. CASE Collect(p, w) \/ RecordNext(p, w) \/ PromoteEmail(p, w)
  <2>1. /\ job[p][w] # None /\ UNCHANGED <<pc, queue, stats, cancelled>> /\ job[p][w] \in Job
    BY <1>1, JobType DEF Collect, RecordNext, PromoteEmail, Recording, Recorded, Busy
  <2>0. None \notin Job
    OBVIOUS
  <2>2. \E j : j # None /\ job' = [job EXCEPT ![p][w] = j]
    <3>1. CASE Collect(p, w)
      <4>1. PICK site \in SiteReads[job[p][w].business], ads \in AdReads :
              job' = [job EXCEPT ![p][w].read = site \o ads]
        BY <3>1 DEF Collect
      <4>2. site \o ads \in Seq(Said)
        BY <2>1, ReadingType DEF Job
      <4>3. [job[p][w] EXCEPT !.read = site \o ads] \in Job
        BY <2>1, <4>2 DEF Job
      <4>4. job' = [job EXCEPT ![p][w] = [job[p][w] EXCEPT !.read = site \o ads]]
        BY <4>1
      <4>5. [job[p][w] EXCEPT !.read = site \o ads] # None
        BY <4>3, <2>0, Zenon
      <4> QED
        BY <4>4, <4>5, Zenon
    <3>2. CASE RecordNext(p, w) \/ PromoteEmail(p, w)
      <4>1. job' = [job EXCEPT ![p][w].next = @ + 1]
        BY <3>2 DEF RecordNext, PromoteEmail
      <4>2. job[p][w].next + 1 \in Nat \ {0}
        BY <2>1 DEF Job
      <4>3. [job[p][w] EXCEPT !.next = @ + 1] \in Job
        BY <2>1, <4>2 DEF Job
      <4>4. job' = [job EXCEPT ![p][w] = [job[p][w] EXCEPT !.next = @ + 1]]
        BY <4>1
      <4>5. [job[p][w] EXCEPT !.next = @ + 1] # None
        BY <4>3, <2>0, Zenon
      <4> QED
        BY <4>4, <4>5, Zenon
    <3> QED
      BY <1>1, <3>1, <3>2
  <2>3. \A v \in Workers : job'[p][v] = None <=> job[p][v] = None
    BY <2>1, <2>2 DEF TypeOK
  <2>4. pc[p] = "draining" /\ p \notin cancelled => queue[p] = {}
    BY DEF Kept
  <2> QED
    BY <2>1, <2>3, <2>4, SameTally
<1>2. CASE CollectFails(p, w) \/ RecordFails(p, w)
  <2>1. /\ Live(p) /\ job[p][w] # None /\ UNCHANGED <<pc, queue, cancelled>>
        /\ Return(p, w, "failed")
    BY <1>2 DEF CollectFails, RecordFails, Recording, Busy, Fail
  <2> QED
    BY <2>1, ReturnTally
<1>3. CASE MarkDone(p, w)
  <2>1. /\ Live(p) /\ job[p][w] # None /\ UNCHANGED <<pc, queue, cancelled>>
        /\ \/ Return(p, w, "disallowed")
           \/ Return(p, w, "enriched")
    BY <1>3 DEF MarkDone, Recorded, Busy
  <2> QED
    BY <2>1, ReturnTally
<1> QED
  BY <1>1, <1>2, <1>3 DEF Work

PoolInv == \A p \in Procs : Kept(p)

LEMMA TallyStep == TypeOK /\ PoolInv /\ [Next]_vars => PoolInv'
<1> SUFFICES ASSUME TypeOK, PoolInv, [Next]_vars, NEW q \in Procs PROVE Kept(q)'
  BY DEF PoolInv
<1>1. Kept(q)
  BY DEF PoolInv
<1>2. ASSUME UNCHANGED <<pc, queue, stats, job, cancelled>> PROVE Kept(q)'
  BY <1>1, <1>2, SameTally DEF Kept
<1>3. ASSUME NEW p \in Procs, StepOf(p), p # q PROVE Kept(q)'
  <2>1. /\ pc'[q] = pc[q] /\ queue'[q] = queue[q] /\ stats'[q] = stats[q] /\ job'[q] = job[q]
        /\ q \in cancelled' <=> q \in cancelled
    BY <1>3, OthersUntouched
  <2> QED
    BY <1>1, <2>1, SameTally DEF Kept
<1>4. ASSUME StepOf(q) PROVE Kept(q)'
  <2>1. CASE Interrupt(q)
    <3>1. UNCHANGED <<pc, queue, stats, job>> /\ (q \notin cancelled' => q \notin cancelled)
      BY <2>1 DEF Interrupt
    <3> QED
      BY <1>1, <3>1, SameTally DEF Kept
  <2> QED
    BY <1>1, <1>4, <2>1, ListTally, FeedTally, CrashTally, WorkTally DEF StepOf
<1>5. CASE UNCHANGED vars
  BY <1>2, <1>5 DEF vars, command
<1>6. ASSUME NEW b \in Businesses, Suppress(b) PROVE Kept(q)'
  BY <1>2, <1>6 DEF Suppress, command
<1>7. ASSUME NEW p \in Procs, StepOf(p) PROVE Kept(q)'
  BY <1>3, <1>4, <1>7
<1> QED
  BY <1>5, <1>6, <1>7 DEF Next, StepOf

LEMMA TallyInit == Init => PoolInv
<1> SUFFICES ASSUME Init, NEW p \in Procs PROVE Kept(p)
  BY DEF PoolInv
<1>1. BusyWorkers(p) = {} /\ stats[p] = NoStats /\ queue[p] = {} /\ pc[p] = "idle"
  BY DEF Init, BusyWorkers
<1>2. Balanced(p)
  BY <1>1, FS_EmptySet DEF Balanced, Counted, NoStats
<1> QED
  BY <1>1, <1>2, FS_EmptySet DEF Kept

\* Whatever the workers do and whatever fails, each business considered is
\* counted once, still waiting, or with exactly one worker (enrich.go: runEnrich).
THEOREM TargetsAreAccounted == Spec => []EveryTargetAccounted
<1>1. PoolInv => EveryTargetAccounted
  BY DEF PoolInv, Kept, Balanced, EveryTargetAccounted
<1> QED
  BY <1>1, TallyInit, TallyStep, EnrichTypeCorrect, PTL DEF Spec

(***************************************************************************)
(* Suppression.  A command only takes up what it listed, and it lists only *)
(* what it sees; what a worker writes is about the business it is at.      *)
(***************************************************************************)

\* The state has no suppressed business in view.
Unseen == visible \cap excluded = {}

\* Command p has nothing to do with b any more.
Rests(p, b) ==
  Live(p) => /\ b \notin queue[p]
             /\ \A w \in Workers : job[p][w] # None => job[p][w].business # b

\* Nothing is written about b.
NothingSaid(b) ==
  /\ email'[b] = email[b]
  /\ {k \in DOMAIN signals' : signals'[k].fact.business = b} \subseteq DOMAIN signals

LEMMA SameRows ==
  ASSUME NEW b, UNCHANGED <<signals, email>>
  PROVE  NothingSaid(b)
BY DEF NothingSaid

\* A row is about the business its worker is at.
LEMMA RowOfAnother ==
  ASSUME TypeOK, NEW p \in Procs, NEW w \in Workers, NEW b \in Businesses,
         job[p][w].business # b, RecordNext(p, w)
  PROVE  NothingSaid(b)
<1> DEFINE o == ObservationOf(job[p][w].business, job[p][w].read[job[p][w].next])
<1>1. o \in Observation
  BY NextObservation DEF RecordNext
<1>2. o.fact.business = job[p][w].business /\ RecordSignal(o) /\ UNCHANGED email
  BY DEF RecordNext, ObservationOf
<1> HIDE DEF o
<1>3. CASE ConfirmSignal(o)
  BY <1>2, <1>3, SameRows DEF ConfirmSignal
<1>4. CASE AppendSignal(o)
  <2>1. /\ DOMAIN signals = 1..Len(signals) /\ DOMAIN signals' = 1..(Len(signals) + 1)
        /\ signals'[Len(signals) + 1].fact = o.fact /\ Len(signals) \in Nat
    <3>1. SignalsTypeOK /\ Len(signals) \in Nat
      BY DEF TypeOK, SignalsTypeOK
    <3>2. /\ DOMAIN signals = 1..Len(signals) /\ DOMAIN signals' = 1..(Len(signals) + 1)
          /\ signals'[Len(signals) + 1] =
               [fact |-> o.fact, value |-> o.value, superseded |-> FALSE]
      BY <1>1, <1>4, <3>1, AppendedRows
    <3> QED
      BY <3>1, <3>2
  <2>2. ASSUME NEW k \in DOMAIN signals', signals'[k].fact.business = b PROVE k \in DOMAIN signals
    <3>1. k # Len(signals) + 1
      BY <1>2, <2>1, <2>2
    <3> QED
      BY <2>1, <2>2, <3>1
  <2> QED
    BY <1>2, <2>2 DEF NothingSaid
<1> QED
  BY <1>2, <1>3, <1>4 DEF RecordSignal

LEMMA FeedQuiet ==
  ASSUME TypeOK, Unseen, NEW p \in Procs, Kept(p), NEW b \in excluded, Rests(p, b),
         List(p) \/ Feed(p) \/ Interrupt(p) \/ Crash(p)
  PROVE  Rests(p, b)' /\ UNCHANGED <<signals, email>>
<1>1. CASE List(p)
  <2>1. PICK force \in BOOLEAN : \E targets \in TargetLists(force) :
           queue' = [queue EXCEPT ![p] = targets]
    BY <1>1 DEF List
  <2>2. PICK targets \in TargetLists(force) : queue' = [queue EXCEPT ![p] = targets]
    BY <2>1
  <2>3. targets \subseteq visible
    BY DEF TargetLists, FirstOf
  <2>4. queue'[p] \subseteq visible /\ BusyWorkers(p) = {} /\ UNCHANGED <<job, signals, email>>
    BY <1>1, <2>2, <2>3 DEF TypeOK, List, Kept
  <2> QED
    BY <2>4 DEF Rests, Unseen, BusyWorkers
<1>2. CASE \/ StartRun(p) \/ StartFresh(p) \/ FindPrevious(p) \/ ReadCompleted(p)
           \/ Skip(p) \/ StopFeeding(p) \/ Interrupt(p)
  <2>1. queue'[p] \subseteq queue[p] /\ Live(p) /\ UNCHANGED <<job, signals, email>>
    <3>1. CASE StartRun(p) \/ StartFresh(p) \/ FindPrevious(p) \/ ReadCompleted(p)
      BY <3>1 DEF StartRun, StartFresh, FindPrevious, ReadCompleted, Live, TypeOK
    <3>2. CASE Skip(p)
      BY <3>2 DEF Skip, Live, TypeOK
    <3>3. CASE StopFeeding(p) \/ Interrupt(p)
      BY <3>3 DEF StopFeeding, Interrupt, Live, TypeOK
    <3> QED
      BY <1>2, <3>1, <3>2, <3>3
  <2> QED
    BY <2>1 DEF Rests
<1>3. ASSUME NEW w \in Workers, Hand(p, w)
      PROVE  Rests(p, b)' /\ UNCHANGED <<signals, email>>
  <2>1. /\ queue'[p] \subseteq queue[p] /\ Live(p) /\ UNCHANGED <<signals, email>>
        /\ NextTarget(p) \in queue[p]
    BY <1>3, NextTargetInQueue DEF Hand, Live, TypeOK
  <2>2. \A v \in Workers : v # w => job'[p][v] = job[p][v]
    BY <1>3 DEF Hand, TypeOK
  <2>3. job'[p][w].business = NextTarget(p)
    BY <1>3 DEF Hand, TypeOK
  <2> QED
    BY <2>1, <2>2, <2>3 DEF Rests
<1>4. CASE FinishRun(p) \/ GiveUp(p) \/ Crash(p)
  <2>1. pc'[p] \in {"closed", "dead"} /\ UNCHANGED <<signals, email>>
    BY <1>4 DEF FinishRun, GiveUp, Crash, Exit, TypeOK
  <2> QED
    BY <2>1 DEF Rests, Live
<1> QED
  BY <1>1, <1>2, <1>3, <1>4 DEF Feed

LEMMA WorkQuiet ==
  ASSUME TypeOK, NEW p \in Procs, NEW b \in excluded, Rests(p, b), NEW w \in Workers, Work(p, w)
  PROVE  Rests(p, b)' /\ NothingSaid(b)
<1>1. Live(p) /\ job[p][w] # None /\ job[p][w] \in Job /\ UNCHANGED queue
  BY JobType DEF Work, Collect, CollectFails, RecordNext, RecordFails, PromoteEmail, MarkDone,
                 Fail, Busy, Recording, Recorded
<1>2. job[p][w].business # b /\ b \in Businesses
  BY <1>1 DEF Rests, TypeOK
<1>3. \A v \in Workers : v # w => job'[p][v] = job[p][v]
  BY DEF Work, Collect, CollectFails, RecordNext, RecordFails, PromoteEmail, MarkDone, Fail,
         Return, TypeOK
<1>4. job'[p][w] # None => job'[p][w].business = job[p][w].business
  <2>1. CASE Collect(p, w)
    <3>1. PICK site \in SiteReads[job[p][w].business], ads \in AdReads :
            job' = [job EXCEPT ![p][w].read = site \o ads]
      BY <2>1 DEF Collect
    <3>2. job'[p][w] = [job[p][w] EXCEPT !.read = site \o ads]
      BY <3>1 DEF TypeOK
    <3> DEFINE r == site \o ads
    <3> HIDE DEF r
    <3>3. job'[p][w] = [job[p][w] EXCEPT !.read = r]
      BY <3>2 DEF r
    <3> QED
      BY <1>1, <3>3 DEF Job
  <2>2. CASE RecordNext(p, w) \/ PromoteEmail(p, w)
    <3>0. job' = [job EXCEPT ![p][w].next = @ + 1]
      BY <2>2 DEF RecordNext, PromoteEmail
    <3>1. job'[p][w] = [job[p][w] EXCEPT !.next = @ + 1]
      BY <3>0 DEF TypeOK
    <3> QED
      BY <1>1, <3>1 DEF Job
  <2>3. CASE CollectFails(p, w) \/ RecordFails(p, w) \/ MarkDone(p, w)
    BY <2>3 DEF CollectFails, RecordFails, MarkDone, Fail, Return, TypeOK
  <2> QED
    BY <2>1, <2>2, <2>3 DEF Work
<1>5. Rests(p, b)'
  BY <1>1, <1>2, <1>3, <1>4 DEF Rests
<1>6. NothingSaid(b)
  <2>1. CASE RecordNext(p, w)
    BY <1>2, <2>1, RowOfAnother
  <2>2. CASE PromoteEmail(p, w)
    BY <1>2, <2>2 DEF PromoteEmail, NothingSaid, TypeOK
  <2>3. CASE Collect(p, w) \/ CollectFails(p, w) \/ RecordFails(p, w) \/ MarkDone(p, w)
    BY <2>3, SameRows DEF Collect, CollectFails, RecordFails, MarkDone, Fail
  <2> QED
    BY <2>1, <2>2, <2>3 DEF Work
<1> QED
  BY <1>5, <1>6

LEMMA QuietStep ==
  ASSUME TypeOK, PoolInv, Unseen, [Next]_vars, NEW b \in excluded, AtRest(b)
  PROVE  AtRest(b)' /\ NothingSaid(b)
<1>1. \A p \in Procs : Rests(p, b) /\ Kept(p)
  BY DEF AtRest, Rests, PoolInv
<1>2. ASSUME NEW p \in Procs, StepOf(p), NEW q \in Procs, q # p PROVE Rests(q, b)'
  <2>1. pc'[q] = pc[q] /\ queue'[q] = queue[q] /\ job'[q] = job[q]
    BY <1>2, OthersUntouched
  <2> QED
    BY <1>1, <2>1 DEF Rests, Live
<1>3. ASSUME NEW p \in Procs, StepOf(p) PROVE Rests(p, b)' /\ NothingSaid(b)
  <2>1. CASE List(p) \/ Feed(p) \/ Interrupt(p) \/ Crash(p)
    BY <1>1, <2>1, FeedQuiet, SameRows
  <2>2. ASSUME NEW w \in Workers, Work(p, w) PROVE Rests(p, b)' /\ NothingSaid(b)
    BY <1>1, <2>2, WorkQuiet
  <2> QED
    BY <1>3, <2>1, <2>2 DEF StepOf
<1>4. ASSUME NEW p \in Procs, StepOf(p) PROVE AtRest(b)' /\ NothingSaid(b)
  <2>1. \A q \in Procs : Rests(q, b)'
    BY <1>2, <1>3, <1>4
  <2> QED
    BY <1>3, <1>4, <2>1 DEF AtRest, Rests
<1>5. ASSUME UNCHANGED <<signals, email, command>> PROVE AtRest(b)' /\ NothingSaid(b)
  <2>1. AtRest(b)'
    BY <1>5 DEF AtRest, Live, command
  <2> QED
    BY <1>5, <2>1, SameRows
<1>6. CASE UNCHANGED vars
  BY <1>5, <1>6 DEF vars
<1>7. ASSUME NEW c \in Businesses, Suppress(c) PROVE AtRest(b)' /\ NothingSaid(b)
  BY <1>5, <1>7 DEF Suppress
<1> QED
  BY <1>4, <1>6, <1>7 DEF Next, StepOf

LEMMA UnseenStep == Unseen /\ [Next]_vars => Unseen'
<1> SUFFICES ASSUME Unseen, [Next]_vars PROVE Unseen'
  OBVIOUS
<1>1. CASE UNCHANGED <<visible, excluded>>
  BY <1>1 DEF Unseen
<1>2. ASSUME NEW p \in Procs, List(p) \/ Feed(p) \/ Interrupt(p) \/ Crash(p)
      PROVE  UNCHANGED <<visible, excluded>>
  BY <1>2 DEF List, Feed, StartRun, StartFresh, FindPrevious, ReadCompleted, Skip, Hand,
              StopFeeding, FinishRun, GiveUp, Interrupt, Crash
<1>3. ASSUME NEW p \in Procs, NEW w \in Workers, Work(p, w) PROVE UNCHANGED <<visible, excluded>>
  BY <1>3 DEF Work, Collect, CollectFails, RecordNext, RecordFails, PromoteEmail, MarkDone, Fail
<1>4. ASSUME NEW c \in Businesses, Suppress(c) PROVE Unseen'
  BY <1>4 DEF Suppress, Exclusion!Exclude, Unseen
<1>5. CASE UNCHANGED vars
  BY <1>1, <1>5 DEF vars
<1> QED
  BY <1>1, <1>2, <1>3, <1>4, <1>5 DEF Next

\* Suppression lasts: once the commands that had listed a suppressed business
\* are through with it, no command takes it up again and none writes about it,
\* however many run (enrich.go: runEnrich; outreach.go: Suppress).
THEOREM SuppressedIsLeftAlone == Spec => QuietOnceExcluded
<1>1. Init => Unseen
  BY DEF Init, Unseen
<1> DEFINE Quiet == \A b \in excluded : AtRest(b) =>
                      /\ AtRest(b)'
                      /\ email'[b] = email[b]
                      /\ {k \in DOMAIN signals' : signals'[k].fact.business = b} \subseteq DOMAIN signals
<1>2. TypeOK /\ PoolInv /\ Unseen /\ [Next]_vars => [Quiet]_vars
  BY QuietStep DEF NothingSaid
<1>3. QuietOnceExcluded <=> [][Quiet]_vars
  BY DEF QuietOnceExcluded
<1> HIDE DEF Quiet
<1> QED
  BY <1>1, <1>2, <1>3, UnseenStep, TallyInit, TallyStep, EnrichTypeCorrect, PTL DEF Spec

(***************************************************************************)
(* Completed runs.  Each command has a run of its own, and only it closes  *)
(* it, when its list and its workers are through.                          *)
(***************************************************************************)

Numbered ==
  \A p \in Procs :
    /\ run[p] \in 0..Len(runs)
    /\ pc[p] \in {"idle", "listed"} => run[p] = 0
    /\ \A q \in Procs \ {p} : run[p] # 0 => run[p] # run[q]

\* The run of p is completed only when p left nothing behind.
Closes(p) ==
  run[p] # 0 /\ runs[run[p]].status = "completed"
    => pc[p] = "closed" /\ queue[p] = {} /\ BusyWorkers(p) = {}

RunsInv == Numbered /\ \A p \in Procs : Closes(p)

LEMMA RunType ==
  ASSUME TypeOK, NEW r \in 1..Len(runs)
  PROVE  Len(runs) \in Nat /\ DOMAIN runs = 1..Len(runs) /\ runs[r] \in Run
BY DEF TypeOK

\* A checkpoint is written into a run; the run's status is not.
LEMMA MarkKeepsStatus ==
  ASSUME TypeOK, NEW p \in Procs, NEW b \in Businesses, NEW status \in ItemStatus,
         run[p] \in 0..Len(runs), MarkRunItem(p, b, status)
  PROVE  /\ Len(runs') = Len(runs)
         /\ \A r \in 1..Len(runs) : runs'[r].status = runs[r].status
<1>1. CASE UNCHANGED runs
  BY <1>1
<1>2. CASE runs' = [runs EXCEPT ![run[p]].items[b] = status]
  <2>1. runs \in Seq(Run) /\ DOMAIN runs' = DOMAIN runs
    BY <1>2 DEF TypeOK
  <2>2. Len(runs') = Len(runs)
    BY <1>2, <2>1
  <2>3. ASSUME NEW r \in 1..Len(runs) PROVE runs'[r].status = runs[r].status
    <3>1. r \in DOMAIN runs /\ runs[r] \in Run
      BY RunType
    <3>2. runs'[r] = IF r = run[p] THEN [runs[r] EXCEPT !.items[b] = status] ELSE runs[r]
      BY <1>2, <3>1
    <3> QED
      BY <3>1, <3>2 DEF Run
  <2> QED
    BY <2>2, <2>3
<1> QED
  BY <1>1, <1>2 DEF MarkRunItem

\* A run is opened by StartRun and closed by FinishRun.
LEMMA OnlyTheseTouchRuns ==
  ASSUME TypeOK, Numbered, NEW p \in Procs, StepOf(p), ~StartRun(p), ~FinishRun(p)
  PROVE  /\ UNCHANGED run /\ Len(runs') = Len(runs)
         /\ \A r \in 1..Len(runs) : runs'[r].status = runs[r].status
         /\ pc[p] # "closed" /\ (pc'[p] \in {"idle", "listed"} => run[p] = 0)
<1>0. run[p] \in 0..Len(runs) /\ (pc[p] \in {"idle", "listed"} => run[p] = 0)
  BY DEF Numbered
<1>1. ASSUME NEW w \in Workers, Work(p, w)
      PROVE  /\ UNCHANGED <<run, pc>> /\ Len(runs') = Len(runs) /\ pc[p] # "closed"
             /\ \A r \in 1..Len(runs) : runs'[r].status = runs[r].status
  <2>1. job[p][w] # None /\ Live(p) /\ job[p][w].business \in Businesses /\ UNCHANGED <<run, pc>>
    <3>1. job[p][w] # None /\ Live(p) /\ UNCHANGED <<run, pc>>
      BY <1>1 DEF Work, Collect, CollectFails, RecordNext, RecordFails, PromoteEmail, MarkDone,
                  Fail, Busy, Recording, Recorded
    <3> QED
      BY <3>1, JobType DEF Job
  <2>2. CASE UNCHANGED runs
    BY <2>1, <2>2 DEF Live
  <2>3. ASSUME NEW status \in ItemStatus, MarkRunItem(p, job[p][w].business, status)
        PROVE  Len(runs') = Len(runs) /\ \A r \in 1..Len(runs) : runs'[r].status = runs[r].status
    BY <1>0, <2>1, <2>3, MarkKeepsStatus
  <2>4. UNCHANGED runs \/ \E status \in ItemStatus : MarkRunItem(p, job[p][w].business, status)
    BY <1>1 DEF Work, Collect, CollectFails, RecordNext, RecordFails, PromoteEmail, MarkDone, Fail,
                ItemStatus
  <2> QED
    BY <2>1, <2>2, <2>3, <2>4 DEF Live
<1>2. CASE List(p)
  BY <1>0, <1>2 DEF List
<1>3. CASE Feed(p)
  BY <1>0, <1>3 DEF Feed, StartFresh, FindPrevious, ReadCompleted, Skip, Hand,
                     StopFeeding, GiveUp, Exit, TypeOK
<1>4. CASE Interrupt(p) \/ Crash(p)
  BY <1>0, <1>4 DEF Interrupt, Crash, Exit, Live, TypeOK
<1> QED
  BY <1>0, <1>1, <1>2, <1>3, <1>4 DEF StepOf

\* Nothing but the command of a completed run could disturb it.
LEMMA SameStatusCloses ==
  ASSUME RunsInv, NEW q \in Procs, run'[q] = run[q], pc'[q] = pc[q], queue'[q] = queue[q],
         job'[q] = job[q], run[q] # 0 => runs'[run[q]].status = runs[run[q]].status
  PROVE  Closes(q)'
BY DEF RunsInv, Closes, BusyWorkers

LEMMA StartRunCloses ==
  ASSUME TypeOK, RunsInv, NEW p \in Procs, StartRun(p)
  PROVE  RunsInv'
<1>1. /\ Len(runs) \in Nat /\ runs \in Seq(Run) /\ run \in [Procs -> Nat]
      /\ \A q \in Procs : run[q] \in 0..Len(runs)
  BY DEF TypeOK, RunsInv, Numbered
<1> DEFINE row == [status |-> "running", items |-> [b \in Businesses |-> None]]
<1>2. /\ runs' = Append(runs, row) /\ row.status = "running"
      /\ run'[p] = Len(runs) + 1 /\ pc'[p] = "started"
      /\ \A q \in Procs \ {p} : run'[q] = run[q]
  BY <1>1 DEF StartRun, TypeOK
<1> HIDE DEF row
<1>3. /\ Len(runs') = Len(runs) + 1 /\ runs'[Len(runs) + 1] = row
      /\ \A r \in 1..Len(runs) : runs'[r] = runs[r]
  BY <1>1, <1>2
<1>4. \A q \in Procs \ {p} : /\ pc'[q] = pc[q] /\ queue'[q] = queue[q] /\ job'[q] = job[q]
  BY OthersUntouched DEF StepOf, Feed
<1>5. Numbered'
  <2>1. \A q \in Procs \ {p} : pc[q] \in {"idle", "listed"} => run[q] = 0
    BY DEF RunsInv, Numbered
  <2>2. \A q \in Procs, o \in Procs : q # o /\ run[q] # 0 => run[q] # run[o]
    BY DEF RunsInv, Numbered
  <2> QED
    BY <1>1, <1>2, <1>3, <1>4, <2>1, <2>2 DEF Numbered
<1>6. ASSUME NEW q \in Procs PROVE Closes(q)'
  <2>1. CASE q = p
    BY <1>2, <1>3, <2>1 DEF Closes
  <2>2. CASE q # p
    <3>1. run[q] # 0 => runs'[run[q]].status = runs[run[q]].status
      BY <1>1, <1>3
    <3> QED
      BY <1>2, <1>4, <2>2, <3>1, SameStatusCloses
  <2> QED
    BY <2>1, <2>2
<1> QED
  BY <1>5, <1>6 DEF RunsInv

LEMMA FinishRunCloses ==
  ASSUME TypeOK, RunsInv, NEW p \in Procs, Kept(p), FinishRun(p)
  PROVE  RunsInv'
<1>1. /\ UNCHANGED <<queue, run, job>> /\ pc'[p] = "closed" /\ runs \in Seq(Run)
      /\ \A q \in Procs \ {p} : pc'[q] = pc[q]
  BY DEF FinishRun, Exit, TypeOK
<1>2. BusyWorkers(p)' = {} /\ BusyWorkers(p) = {}
  BY DEF FinishRun, Kept, BusyWorkers
<1>3. /\ Len(runs') = Len(runs)
      /\ \A q \in Procs \ {p} : run[q] # 0 => runs'[run[q]].status = runs[run[q]].status
  <2>1. CASE UNCHANGED runs
    BY <2>1
  <2>2. CASE runs' = [runs EXCEPT ![run[p]].status = "completed"]
    <3>1. Len(runs') = Len(runs)
      BY <1>1, <2>2
    <3>2. ASSUME NEW q \in Procs \ {p}, run[q] # 0 PROVE runs'[run[q]] = runs[run[q]]
      <4>1. run[q] # run[p] /\ run[q] \in DOMAIN runs
        BY <1>1, <3>2 DEF RunsInv, Numbered
      <4> QED
        BY <2>2, <4>1
    <3> QED
      BY <3>1, <3>2
  <2> QED
    BY <2>1, <2>2 DEF FinishRun
<1>4. Numbered'
  BY <1>1, <1>3 DEF RunsInv, Numbered
<1>5. Closes(p)'
  <2>1. CASE runs' = runs
    BY <1>1, <1>2, <2>1 DEF RunsInv, Closes
  <2>2. CASE p \notin cancelled
    <3>1. queue[p] = {}
      BY <2>2 DEF FinishRun, Kept
    <3> QED
      BY <1>1, <1>2, <3>1 DEF Closes
  <2> QED
    BY <2>1, <2>2 DEF FinishRun
<1>6. \A q \in Procs \ {p} : Closes(q)'
  BY <1>1, <1>3, SameStatusCloses
<1> QED
  BY <1>4, <1>5, <1>6 DEF RunsInv

LEMMA RunsStep == TypeOK /\ PoolInv /\ RunsInv /\ [Next]_vars => RunsInv'
<1> SUFFICES ASSUME TypeOK, PoolInv, RunsInv, [Next]_vars PROVE RunsInv'
  OBVIOUS
<1>1. ASSUME UNCHANGED <<runs, command>> PROVE RunsInv'
  BY <1>1 DEF RunsInv, Numbered, Closes, BusyWorkers, command
<1>2. CASE UNCHANGED vars
  BY <1>1, <1>2 DEF vars
<1>3. ASSUME NEW b \in Businesses, Suppress(b) PROVE RunsInv'
  BY <1>1, <1>3 DEF Suppress
<1>4. ASSUME NEW p \in Procs, StepOf(p), ~StartRun(p), ~FinishRun(p) PROVE RunsInv'
  <2>1. /\ UNCHANGED run /\ Len(runs') = Len(runs)
        /\ \A r \in 1..Len(runs) : runs'[r].status = runs[r].status
        /\ pc[p] # "closed" /\ (pc'[p] \in {"idle", "listed"} => run[p] = 0)
    BY <1>4, OnlyTheseTouchRuns DEF RunsInv
  <2>2. \A q \in Procs \ {p} : pc'[q] = pc[q] /\ queue'[q] = queue[q] /\ job'[q] = job[q]
    BY <1>4, OthersUntouched
  <2>3. Numbered'
    BY <2>1, <2>2 DEF RunsInv, Numbered
  <2>4. \A q \in Procs : run[q] # 0 => runs'[run[q]].status = runs[run[q]].status
    BY <2>1 DEF RunsInv, Numbered
  <2>5. Closes(p)'
    BY <2>1, <2>4 DEF RunsInv, Closes
  <2>6. \A q \in Procs \ {p} : Closes(q)'
    BY <2>1, <2>2, <2>4, SameStatusCloses
  <2> QED
    BY <2>3, <2>5, <2>6 DEF RunsInv
<1>5. ASSUME NEW p \in Procs, StepOf(p) PROVE RunsInv'
  BY <1>4, <1>5, StartRunCloses, FinishRunCloses DEF PoolInv
<1> QED
  BY <1>2, <1>3, <1>5 DEF Next, StepOf

\* A completed run is a clean one: its command has closed and counted every
\* business it considered, whoever was interrupted meanwhile (enrich.go:
\* runEnrich; runs.go: FinishRun).
THEOREM CompletedRunsAreClean == Spec => []CompletedMeansHandled
<1>1. Init => RunsInv
  BY DEF Init, RunsInv, Numbered, Closes
<1>2. TypeOK /\ PoolInv /\ RunsInv => CompletedMeansHandled
  <2> SUFFICES ASSUME TypeOK, PoolInv, RunsInv, NEW p \in Procs,
                      run[p] # 0, runs[run[p]].status = "completed"
               PROVE  pc[p] = "closed" /\ stats[p].considered = Counted(p)
    BY DEF CompletedMeansHandled
  <2>1. pc[p] = "closed" /\ queue[p] = {} /\ BusyWorkers(p) = {}
    BY DEF RunsInv, Closes
  <2>2. Balanced(p) /\ Counted(p) \in Nat
    BY <2>1, TallyNumbers DEF PoolInv, Kept
  <2> QED
    BY <2>1, <2>2, FS_EmptySet DEF Balanced
<1> QED
  BY <1>1, <1>2, RunsStep, TallyInit, TallyStep, EnrichTypeCorrect, PTL DEF Spec
=============================================================================
