-------------------------- MODULE ApiBudgetProofs --------------------------
(***************************************************************************)
(* Proofs about ApiBudget for any number of commands, pages and retries,   *)
(* any ceiling and any faults: its types, by how much concurrent commands  *)
(* can push the ledger of a month over the ceiling, and by how much the    *)
(* ledger can fall behind the requests the API received.                   *)
(***************************************************************************)
EXTENDS ApiBudget, AggregateProofs

USE BudgetAssumption

\* A command as it stands after a change of stage is one.
LEMMA FreshIsCommand ==
  ASSUME NEW stage \in Stage, NEW limit \in Limits \cup {0}, NEW page \in 1..MaxPages,
         NEW found \in Nat
  PROVE  Fresh(stage, limit, page, found) \in Command
<1>1. 1 \in 1..MaxRetries
  OBVIOUS
<1> QED
  BY <1>1 DEF Fresh, Command

\* A ceiling is a number.
LEMMA LimitsAreNaturals == \A limit \in Limits \cup {0} : limit \in Nat
<1>1. 0 \in Nat
  OBVIOUS
<1>2. \A limit \in Limits : limit \in Nat
  BY Zenon
<1> QED
  BY <1>1, <1>2, Zenon

LEMMA FirstPage == 1 \in 1..MaxPages
OBVIOUS

\* Moving on to another stage keeps the commands' type.
LEMMA GotoIsCommand ==
  ASSUME TypeOK, NEW p \in Procs, NEW stage \in Stage, Goto(p, stage)
  PROVE  cmd' \in [Procs -> Command]
<1>1. cmd[p] \in Command
  BY DEF TypeOK
<1>2. [cmd[p] EXCEPT !.stage = stage] \in Command
  BY <1>1 DEF Command
<1> QED
  BY <1>2 DEF TypeOK, Goto

\* So does leaving.
LEMMA ExitIsCommand ==
  ASSUME TypeOK, NEW p \in Procs, NEW stage \in Stage, Exit(p, stage)
  PROVE  cmd' \in [Procs -> Command] /\ cancelled' \subseteq Procs
<1>1. Fresh(stage, 0, 1, 0) \in Command
  BY FreshIsCommand, FirstPage
<1> QED
  BY <1>1 DEF TypeOK, Exit

LEMMA LeastIsNat ==
  ASSUME NEW a \in Nat, NEW b \in Nat
  PROVE  Least(a, b) \in Nat
BY DEF Least

\* A page read leads to the next page or to the end of the search.
LEMMA ParseCases ==
  ASSUME TypeOK, NEW p \in Procs, Parse(p)
  PROVE  \E found \in Nat :
           \/ /\ cmd[p].page < MaxPages
              /\ cmd' = [cmd EXCEPT ![p] = Fresh("lookup", cmd[p].limit, cmd[p].page + 1, found)]
           \/ cmd' = [cmd EXCEPT ![p] = [cmd[p] EXCEPT !.stage = "store", !.found = found]]
<1> DEFINE c == cmd[p]
           total(new) == Least(c.limit, c.found + new)
<1>1. PICK new \in 0..PageSize, token \in BOOLEAN :
        cmd' = [cmd EXCEPT ![p] =
          IF total(new) < c.limit /\ token /\ c.page < MaxPages
            THEN Fresh("lookup", c.limit, c.page + 1, total(new))
            ELSE [c EXCEPT !.stage = "store", !.found = total(new)]]
  BY DEF Parse
<1>2. total(new) \in Nat
  <2>1. c \in Command
    BY DEF TypeOK
  <2>2. c.limit \in Limits \cup {0} /\ c.found \in Nat
    BY <2>1 DEF Command
  <2>3. new \in Nat
    OBVIOUS
  <2>4. c.limit \in Nat
    BY <2>2, LimitsAreNaturals
  <2>5. c.found + new \in Nat
    BY <2>2, <2>3
  <2> QED
    BY <2>4, <2>5, LeastIsNat
<1> HIDE DEF total
<1> WITNESS total(new) \in Nat
<1> QED
  BY <1>1

LEMMA InitType == Init => TypeOK
<1> SUFFICES ASSUME Init PROVE TypeOK
  OBVIOUS
<1>1. Fresh("idle", 0, 1, 0) \in Command
  BY FreshIsCommand, FirstPage DEF Stage
<1> QED
  BY <1>1 DEF Init, TypeOK

LEMMA TypeStep == TypeOK /\ [Next]_vars => TypeOK'
<1> SUFFICES ASSUME TypeOK, [Next]_vars PROVE TypeOK'
  OBVIOUS
<1> USE DEF TypeOK
<1>1. CASE UNCHANGED vars
  BY <1>1 DEF vars
<1>2. ASSUME NEW p \in Procs, Begin(p) PROVE TypeOK'
  <2>1. PICK limit \in Limits : cmd' = [cmd EXCEPT ![p] = Fresh("lookup", limit, 1, 0)]
    BY <1>2 DEF Begin
  <2>2. Fresh("lookup", limit, 1, 0) \in Command
    BY FreshIsCommand, FirstPage DEF Stage
  <2> QED
    BY <1>2, <2>1, <2>2 DEF Begin
<1>3. ASSUME NEW p \in Procs, Lookup(p) PROVE TypeOK'
  <2>1. cmd' \in [Procs -> Command]
    BY <1>3, GotoIsCommand DEF Lookup, Stage
  <2> QED
    BY <1>3, <2>1 DEF Lookup
<1>4. ASSUME NEW p \in Procs, Check(p) PROVE TypeOK'
  <2>1. cmd' \in [Procs -> Command]
    BY <1>4, GotoIsCommand DEF Check, Refuse, Stage
  <2> QED
    BY <1>4, <2>1 DEF Check
<1>5. ASSUME NEW p \in Procs, Send(p) PROVE TypeOK'
  <2>1. cmd' \in [Procs -> Command]
    BY <1>5, GotoIsCommand DEF Send, Stage
  <2> QED
    BY <1>5, <2>1 DEF Send
<1>6. ASSUME NEW p \in Procs, StopTrying(p) PROVE TypeOK'
  <2>1. cmd' \in [Procs -> Command]
    <3>1. Goto(p, "store") \/ Goto(p, "record")
      BY <1>6 DEF StopTrying
    <3> QED
      BY <3>1, GotoIsCommand DEF Stage
  <2> QED
    BY <1>6, <2>1 DEF StopTrying
<1>7. ASSUME NEW p \in Procs, Answer(p) PROVE TypeOK'
  <2>1. PICK ok \in BOOLEAN : cmd' = [cmd EXCEPT ![p].got = ok, ![p].stage = "record"]
    BY <1>7 DEF Answer
  <2>2. [cmd[p] EXCEPT !.got = ok, !.stage = "record"] \in Command
    BY DEF Command, Stage
  <2> QED
    BY <1>7, <2>1, <2>2 DEF Answer
<1>8. ASSUME NEW p \in Procs, NoAnswer(p) PROVE TypeOK'
  <2>1. CASE cmd[p].attempt < MaxRetries
    <3>1. cmd' = [cmd EXCEPT ![p].attempt = @ + 1, ![p].stage = "attempt"]
      BY <1>8, <2>1 DEF NoAnswer
    <3>2. cmd[p] \in Command /\ cmd[p].attempt + 1 \in 1..MaxRetries
      BY <2>1 DEF Command
    <3>3. [cmd[p] EXCEPT !.attempt = @ + 1, !.stage = "attempt"] \in Command
      BY <3>2 DEF Command, Stage
    <3> QED
      BY <1>8, <3>1, <3>3 DEF NoAnswer
  <2>2. CASE ~(cmd[p].attempt < MaxRetries)
    <3>1. Goto(p, "record")
      BY <1>8, <2>2 DEF NoAnswer
    <3>2. cmd' \in [Procs -> Command]
      BY <3>1, GotoIsCommand DEF Stage
    <3> QED
      BY <1>8, <3>2 DEF NoAnswer
  <2> QED
    BY <2>1, <2>2
<1>9. ASSUME NEW p \in Procs, Record(p) PROVE TypeOK'
  <2>1. cmd' \in [Procs -> Command]
    <3>1. Goto(p, "put") \/ Goto(p, "store")
      BY <1>9 DEF Record
    <3> QED
      BY <3>1, GotoIsCommand DEF Stage
  <2>2. billable' \in [1..Months -> Nat] /\ lost' \in Nat
    BY <1>9 DEF Record
  <2> QED
    BY <1>9, <2>1, <2>2 DEF Record
<1>10. ASSUME NEW p \in Procs, Put(p) PROVE TypeOK'
  <2>1. cmd' \in [Procs -> Command]
    BY <1>10, GotoIsCommand DEF Put, Stage
  <2>2. cmd[p].page \in 1..MaxPages
    BY DEF Command
  <2> QED
    BY <1>10, <2>1, <2>2 DEF Put
<1>11. ASSUME NEW p \in Procs, Parse(p) PROVE TypeOK'
  <2>1. cmd[p] \in Command
    OBVIOUS
  <2>2. PICK found \in Nat :
          \/ /\ cmd[p].page < MaxPages
             /\ cmd' = [cmd EXCEPT ![p] = Fresh("lookup", cmd[p].limit, cmd[p].page + 1, found)]
          \/ cmd' = [cmd EXCEPT ![p] = [cmd[p] EXCEPT !.stage = "store", !.found = found]]
    BY <1>11, ParseCases
  <2>3. ASSUME cmd[p].page < MaxPages
        PROVE  Fresh("lookup", cmd[p].limit, cmd[p].page + 1, found) \in Command
    <3>1. cmd[p].page + 1 \in 1..MaxPages /\ cmd[p].limit \in Limits \cup {0}
      BY <2>1, <2>3 DEF Command
    <3> QED
      BY <3>1, FreshIsCommand DEF Stage
  <2>4. [cmd[p] EXCEPT !.stage = "store", !.found = found] \in Command
    BY <2>1 DEF Command, Stage
  <2>5. cmd' \in [Procs -> Command]
    BY <2>2, <2>3, <2>4
  <2> QED
    BY <1>11, <2>5 DEF Parse
<1>12. ASSUME NEW p \in Procs, Store(p) PROVE TypeOK'
  <2>1. cmd' \in [Procs -> Command] /\ cancelled' \subseteq Procs
    BY <1>12, ExitIsCommand DEF Store, Stage
  <2> QED
    BY <1>12, <2>1 DEF Store
<1>13. ASSUME NEW p \in Procs, Interrupt(p) PROVE TypeOK'
  BY <1>13 DEF Interrupt
<1>14. ASSUME NEW p \in Procs, Crash(p) PROVE TypeOK'
  <2>1. cmd' \in [Procs -> Command] /\ cancelled' \subseteq Procs
    BY <1>14, ExitIsCommand DEF Crash, Stage
  <2> QED
    BY <1>14, <2>1 DEF Crash
<1>15. ASSUME NEW n \in 1..MaxPages, Expire(n) PROVE TypeOK'
  BY <1>15 DEF Expire
<1>16. CASE NextMonth
  BY <1>16 DEF NextMonth
<1> QED
  BY <1>1, <1>2, <1>3, <1>4, <1>5, <1>6, <1>7, <1>8, <1>9, <1>10, <1>11, <1>12, <1>13,
     <1>14, <1>15, <1>16 DEF Next, Step

\* The variables have their types in every instance.
THEOREM BudgetTypeCorrect == Spec => []TypeOK
BY InitType, TypeStep, PTL DEF Spec

----------------------------------------------------------------------------
(* The overshoot.  A call in flight was let through by a check that saw    *)
(* the ledger below the ceiling; what it can still add to the month is     *)
(* bounded because every other call in flight is one too.                  *)

FutureIsEmpty == \A m \in 1..Months : m > month => billable[m] = 0

Room == InFlight # {} => billable[month] + Cardinality(InFlight) + 1 <= Ceiling + Cardinality(Procs)

BudgetInv == TypeOK /\ FutureIsEmpty /\ Room /\ OvershootBounded

\* At most every command has a call in flight.
LEMMA InFlightCount ==
  /\ IsFiniteSet(InFlight) /\ Cardinality(InFlight) \in Nat
  /\ Cardinality(InFlight) <= Cardinality(Procs) /\ Cardinality(Procs) \in Nat
<1>1. InFlight \subseteq Procs
  BY DEF InFlight
<1> QED
  BY <1>1, FS_Subset, FS_CardinalityType

\* And so after a step.
LEMMA InFlightCountNext ==
  TypeOK => /\ IsFiniteSet(InFlight') /\ Cardinality(InFlight') \in Nat
            /\ Cardinality(InFlight') <= Cardinality(Procs)
<1>1. InFlight' \subseteq Procs
  BY DEF InFlight
<1> QED
  BY <1>1, FS_Subset, FS_CardinalityType

\* A step that lets no call through and records none keeps the invariant.
LEMMA QuietStep ==
  ASSUME BudgetInv, TypeOK', InFlight' \subseteq InFlight, UNCHANGED <<month, billable>>
  PROVE  BudgetInv'
<1>1. Cardinality(InFlight') <= Cardinality(InFlight) /\ Cardinality(InFlight') \in Nat
  BY InFlightCount, FS_Subset, FS_CardinalityType
<1>2. billable[month] \in Nat /\ Cardinality(InFlight) \in Nat /\ Cardinality(Procs) \in Nat
  BY InFlightCount DEF BudgetInv, TypeOK
<1>3. Room'
  <2> SUFFICES ASSUME InFlight' # {}
               PROVE  billable[month] + Cardinality(InFlight') + 1
                        <= Ceiling + Cardinality(Procs)
    BY DEF Room
  <2>1. InFlight # {}
    OBVIOUS
  <2>2. billable[month] + Cardinality(InFlight) + 1 <= Ceiling + Cardinality(Procs)
    BY <2>1 DEF BudgetInv, Room
  <2> QED
    BY <1>1, <1>2, <2>2
<1> QED
  BY <1>3 DEF BudgetInv, FutureIsEmpty, OvershootBounded

LEMMA InitInv == Init => BudgetInv
<1> SUFFICES ASSUME Init PROVE BudgetInv
  OBVIOUS
<1>1. InFlight = {}
  BY DEF Init, InFlight, Fresh
<1> QED
  BY <1>1, InitType DEF Init, BudgetInv, FutureIsEmpty, Room, OvershootBounded

\* A check passes only below the ceiling, which leaves room for one more call.
LEMMA CheckStep ==
  ASSUME BudgetInv, TypeOK', NEW p \in Procs, Check(p)
  PROVE  BudgetInv'
<1>1. UNCHANGED <<month, billable>>
  BY DEF Check
<1>2. CASE Refuse(p)
  <2>1. InFlight' \subseteq InFlight
    BY <1>2 DEF Refuse, Goto, InFlight, BudgetInv, TypeOK
  <2> QED
    BY <1>1, <2>1, QuietStep
<1>3. CASE ~Refuse(p)
  <2>1. ~(billable[month] + 1 > Ceiling)
    BY <1>3 DEF Check
  <2>2. billable[month] \in Nat
    BY DEF BudgetInv, TypeOK
  <2>3. Cardinality(InFlight') \in Nat /\ Cardinality(InFlight') <= Cardinality(Procs)
    BY InFlightCountNext DEF BudgetInv
  <2>4. Room'
    BY <1>1, <2>1, <2>2, <2>3, InFlightCount DEF Room
  <2> QED
    BY <1>1, <2>4 DEF BudgetInv, FutureIsEmpty, OvershootBounded
<1> QED
  BY <1>2, <1>3

\* Recording a call moves it from in flight into the ledger.
LEMMA RecordStep ==
  ASSUME BudgetInv, TypeOK', NEW p \in Procs, Record(p)
  PROVE  BudgetInv'
<1>1. InFlight' = InFlight \ {p} /\ p \in InFlight
  <2>1. cmd' = [cmd EXCEPT ![p].stage = IF cmd[p].got THEN "put" ELSE "store"]
    BY DEF Record, Goto
  <2>2. cmd'[p].stage \in {"put", "store"} /\ \A q \in Procs \ {p} : cmd'[q] = cmd[q]
    BY <2>1 DEF BudgetInv, TypeOK, Command
  <2> QED
    BY <2>2 DEF Record, At, InFlight
<1>2. CASE UNCHANGED billable
  BY <1>1, <1>2, QuietStep DEF Record
<1>3. CASE billable' = [billable EXCEPT ![month] = @ + 1]
  <2>1. /\ month' = month /\ month \in 1..Months
        /\ billable \in [1..Months -> Nat] /\ billable[month] \in Nat
    BY DEF Record, BudgetInv, TypeOK
  <2>2. /\ billable'[month] = billable[month] + 1
        /\ \A m \in 1..Months : m # month => billable'[m] = billable[m]
    BY <1>3, <2>1
  <2>3. Cardinality(InFlight') = Cardinality(InFlight) - 1 /\ Cardinality(InFlight) >= 1
    <3>1. Cardinality(InFlight') = Cardinality(InFlight) - 1
      BY <1>1, InFlightCount, FS_RemoveElement
    <3>2. Cardinality(InFlight') \in Nat
      BY InFlightCountNext DEF BudgetInv
    <3> QED
      BY <3>1, <3>2, InFlightCount
  <2>4. billable[month] + Cardinality(InFlight) + 1 <= Ceiling + Cardinality(Procs)
    BY <1>1 DEF BudgetInv, Room
  <2>5. Room'
    BY <2>1, <2>2, <2>3, <2>4, InFlightCount DEF Room
  <2>6. OvershootBounded'
    <3> SUFFICES ASSUME NEW m \in 1..Months, billable'[m] > 0
                 PROVE  billable'[m] + 1 <= Ceiling + Cardinality(Procs)
      BY DEF OvershootBounded
    <3>1. CASE m = month
      BY <2>1, <2>2, <2>3, <2>4, <3>1, InFlightCount
    <3>2. CASE m # month
      BY <2>2, <3>2 DEF BudgetInv, OvershootBounded
    <3> QED
      BY <3>1, <3>2
  <2>7. FutureIsEmpty'
    BY <2>1, <2>2 DEF BudgetInv, FutureIsEmpty
  <2> QED
    BY <2>5, <2>6, <2>7 DEF BudgetInv
<1> QED
  BY <1>2, <1>3 DEF Record

\* A new month has an empty ledger.
LEMMA MonthStep ==
  ASSUME BudgetInv, TypeOK', NextMonth
  PROVE  BudgetInv'
<1>1. /\ month' = month + 1 /\ month' \in 1..Months /\ month \in 1..Months
      /\ UNCHANGED <<billable, cmd>>
  BY DEF NextMonth, BudgetInv, TypeOK
<1>2. InFlight' = InFlight
  BY <1>1 DEF InFlight
<1>3. billable[month'] = 0
  BY <1>1 DEF BudgetInv, FutureIsEmpty
<1>4. Room'
  <2>1. billable[month] \in Nat
    BY DEF BudgetInv, TypeOK
  <2> QED
    BY <1>1, <1>2, <1>3, <2>1, InFlightCount DEF BudgetInv, Room
<1>5. FutureIsEmpty'
  BY <1>1 DEF BudgetInv, FutureIsEmpty
<1> QED
  BY <1>1, <1>4, <1>5 DEF BudgetInv, OvershootBounded

\* Every other step starts no call that was not checked.
LEMMA OtherSteps ==
  ASSUME TypeOK, NEW p \in Procs,
         \/ Begin(p) \/ Lookup(p) \/ Send(p) \/ StopTrying(p) \/ Answer(p) \/ NoAnswer(p)
         \/ Put(p) \/ Parse(p) \/ Store(p) \/ Interrupt(p) \/ Crash(p)
  PROVE  InFlight' \subseteq InFlight /\ UNCHANGED <<month, billable>>
<1>1. UNCHANGED <<month, billable>>
  BY DEF Begin, Lookup, Send, StopTrying, Answer, NoAnswer, Put, Parse, Store, Interrupt, Crash
<1>2. \A q \in Procs \ {p} : cmd'[q] = cmd[q]
  BY DEF TypeOK, Begin, Lookup, Send, StopTrying, Answer, NoAnswer, Put, Parse, Store,
         Interrupt, Crash, Goto, Exit
<1>3. cmd'[p].stage \in {"attempt", "waiting", "record"} => p \in InFlight
  <2>1. cmd[p] \in Command /\ cmd \in [Procs -> Command]
    BY DEF TypeOK
  <2>2. CASE Begin(p) \/ Lookup(p) \/ Put(p) \/ Parse(p) \/ Store(p) \/ Crash(p)
    <3> DEFINE calm == {"lookup", "parse", "check", "store", "ended", "dead"}
    <3>1. ASSUME Lookup(p) \/ Put(p) PROVE cmd'[p].stage \in calm
      BY <2>1, <3>1 DEF Lookup, Put, Goto, Command
    <3>2. ASSUME Begin(p) \/ Store(p) \/ Crash(p) PROVE cmd'[p].stage \in calm
      BY <2>1, <3>2 DEF Begin, Store, Crash, Exit, Fresh
    <3>3. ASSUME Parse(p) PROVE cmd'[p].stage \in calm
      <4>1. PICK found \in Nat :
              \/ cmd'[p] = Fresh("lookup", cmd[p].limit, cmd[p].page + 1, found)
              \/ cmd'[p] = [cmd[p] EXCEPT !.stage = "store", !.found = found]
        BY <2>1, <3>3, ParseCases
      <4>2. Fresh("lookup", cmd[p].limit, cmd[p].page + 1, found).stage = "lookup"
        BY DEF Fresh
      <4>3. [cmd[p] EXCEPT !.stage = "store", !.found = found].stage = "store"
        BY <2>1 DEF Command
      <4> QED
        BY <4>1, <4>2, <4>3
    <3> QED
      BY <2>2, <3>1, <3>2, <3>3
  <2>3. CASE Send(p) \/ StopTrying(p) \/ Answer(p) \/ NoAnswer(p)
    BY <2>3 DEF Send, StopTrying, Answer, NoAnswer, At, InFlight
  <2>4. CASE Interrupt(p)
    BY <2>4 DEF Interrupt, InFlight
  <2> QED
    BY <2>2, <2>3, <2>4
<1> QED
  BY <1>1, <1>2, <1>3 DEF InFlight

LEMMA InvStep == BudgetInv /\ [Next]_vars => BudgetInv'
<1> SUFFICES ASSUME BudgetInv, [Next]_vars PROVE BudgetInv'
  OBVIOUS
<1>1. TypeOK /\ TypeOK'
  BY TypeStep DEF BudgetInv
<1>2. CASE UNCHANGED vars
  <2>1. InFlight' = InFlight
    BY <1>2 DEF vars, InFlight
  <2> QED
    BY <1>1, <1>2, <2>1, QuietStep DEF vars
<1>3. ASSUME NEW p \in Procs, Begin(p) \/ Step(p) \/ Interrupt(p) \/ Crash(p)
      PROVE  BudgetInv'
  <2>1. CASE Check(p)
    BY <1>1, <2>1, CheckStep
  <2>2. CASE Record(p)
    BY <1>1, <2>2, RecordStep
  <2>3. CASE ~Check(p) /\ ~Record(p)
    <3>1. InFlight' \subseteq InFlight /\ UNCHANGED <<month, billable>>
      BY <1>1, <1>3, <2>3, OtherSteps DEF Step
    <3> QED
      BY <1>1, <3>1, QuietStep
  <2> QED
    BY <2>1, <2>2, <2>3
<1>4. ASSUME NEW n \in 1..MaxPages, Expire(n) PROVE BudgetInv'
  <2>1. InFlight' = InFlight
    BY <1>4 DEF Expire, InFlight
  <2> QED
    BY <1>1, <1>4, <2>1, QuietStep DEF Expire
<1>5. CASE NextMonth
  BY <1>1, <1>5, MonthStep
<1> QED
  BY <1>2, <1>3, <1>4, <1>5 DEF Next

\* However many commands check, send, retry and record at once, over month ends,
\* interruptions, crashes and failing statements, no month's ledger exceeds the
\* ceiling by as many calls as there are commands.
THEOREM CeilingHolds == Spec => []OvershootBounded
<1>1. BudgetInv => OvershootBounded
  BY DEF BudgetInv
<1> QED
  BY <1>1, InitInv, InvStep, PTL DEF Spec

----------------------------------------------------------------------------
(* The drift.  Tries is what a call in flight has sent and no row accounts  *)
(* for yet; a row, written or lost, replaces at most MaxRetries of them.    *)

Tries(c) ==
  IF c.stage = "attempt" THEN c.attempt - 1
  ELSE IF c.stage \in {"waiting", "record"} THEN c.attempt ELSE 0

Pending == [p \in Procs |-> Tries(cmd[p])]

Accounted == SumFunctionOnSet(billable, 1..Months) + lost

DriftInv ==
  /\ TypeOK
  /\ requests <= MaxRetries * Accounted + SumFunctionOnSet(Pending, Procs)

\* A call in flight has made no more attempts than it may.
LEMMA TriesRange ==
  ASSUME NEW c \in Command
  PROVE  Tries(c) \in Nat /\ Tries(c) <= MaxRetries
<1>1. c.attempt \in 1..MaxRetries
  BY DEF Command
<1> QED
  BY <1>1 DEF Tries

\* The attempts of all calls in flight are a number.
LEMMA PendingType ==
  TypeOK => /\ Pending \in [Procs -> Int]
            /\ SumFunctionOnSet(Pending, Procs) \in Int
            /\ SumFunctionOnSet(billable, 1..Months) \in Int
            /\ Accounted \in Int
<1> SUFFICES ASSUME TypeOK
             PROVE  /\ Pending \in [Procs -> Int]
                    /\ SumFunctionOnSet(Pending, Procs) \in Int
                    /\ SumFunctionOnSet(billable, 1..Months) \in Int
                    /\ Accounted \in Int
  OBVIOUS
<1>1. \A p \in Procs : Tries(cmd[p]) \in Int
  BY TriesRange DEF TypeOK
<1>2. Pending \in [Procs -> Int] /\ \A p \in Procs : Pending[p] \in Int
  BY <1>1 DEF Pending
<1>3. IsFiniteSet(1..Months) /\ \A m \in 1..Months : billable[m] \in Int
  BY FS_Interval DEF TypeOK
<1>4. SumFunctionOnSet(Pending, Procs) \in Int
  BY <1>2, SumType
<1>5. SumFunctionOnSet(billable, 1..Months) \in Int
  BY <1>3, SumType
<1> QED
  BY <1>2, <1>4, <1>5 DEF Accounted, TypeOK

\* What is pending changes by what the one command that moves has sent.
LEMMA PendingStep ==
  ASSUME TypeOK, TypeOK', NEW p \in Procs, \A q \in Procs \ {p} : cmd'[q] = cmd[q]
  PROVE  SumFunctionOnSet(Pending', Procs) =
           SumFunctionOnSet(Pending, Procs) - Tries(cmd[p]) + Tries(cmd'[p])
<1>1. \A q \in Procs : Tries(cmd[q]) \in Int /\ Tries(cmd'[q]) \in Int
  BY TriesRange DEF TypeOK
<1>2. \A q \in Procs : Pending[q] = Tries(cmd[q]) /\ Pending'[q] = Tries(cmd'[q])
  BY DEF Pending
<1>3. /\ \A q \in Procs : Pending[q] \in Int /\ Pending'[q] \in Int
      /\ \A q \in Procs \ {p} : Pending'[q] = Pending[q]
  BY <1>1, <1>2
<1>4. SumFunctionOnSet(Pending', Procs) =
        SumFunctionOnSet(Pending, Procs) - Pending[p] + Pending'[p]
  BY <1>3, SumOfUpdate
<1> QED
  BY <1>2, <1>4

\* What a step of one command does to the two sides of DriftBounded.
LEMMA DriftArithmetic ==
  ASSUME NEW covered \in Int, NEW total \in Int, NEW most \in Int,
         NEW sent \in Int, sent <= most, NEW next \in Nat,
         NEW before \in Int, before <= covered + total, NEW after \in Int
  PROVE  /\ after - before <= next - sent => after <= covered + (total - sent + next)
         /\ after = before => after <= (covered + most) + (total - sent + next)
OBVIOUS

\* A step of one command keeps the bound if what it sends beyond its earlier
\* tries stays pending, and what it drops is covered by a row.
LEMMA DriftKept ==
  ASSUME DriftInv, TypeOK', NEW p \in Procs, \A q \in Procs \ {p} : cmd'[q] = cmd[q],
         \/ /\ Accounted' = Accounted
            /\ requests' - requests <= Tries(cmd'[p]) - Tries(cmd[p])
         \/ Accounted' = Accounted + 1 /\ requests' = requests
  PROVE  DriftInv'
<1> DEFINE total == SumFunctionOnSet(Pending, Procs)
           sent == Tries(cmd[p])
           next == Tries(cmd'[p])
<1>1. SumFunctionOnSet(Pending', Procs) = total - sent + next
  BY PendingStep DEF DriftInv
<1>2. total \in Int /\ Accounted \in Int
  BY PendingType DEF DriftInv
<1>3. /\ sent \in Nat /\ sent <= MaxRetries
      /\ next \in Nat /\ requests \in Nat /\ requests' \in Nat
  BY TriesRange DEF DriftInv, TypeOK
<1>4. requests <= MaxRetries * Accounted + total
  BY DEF DriftInv
<1> DEFINE covered == MaxRetries * Accounted
<1>5. MaxRetries \in Int /\ covered \in Int /\ covered = MaxRetries * Accounted
  BY <1>2
<1> HIDE DEF total, sent, next, covered
<1>6. /\ requests' - requests <= next - sent
           => requests' <= covered + (total - sent + next)
      /\ requests' = requests => requests' <= (covered + MaxRetries) + (total - sent + next)
  <2>1. requests <= covered + total
    BY <1>4, <1>5
  <2>2. requests \in Int /\ requests' \in Int /\ sent \in Int
    BY <1>3
  <2> QED
    BY <1>2, <1>3, <1>5, <2>1, <2>2, DriftArithmetic
<1>7. CASE Accounted' = Accounted /\ requests' - requests <= next - sent
  <2>1. requests' <= MaxRetries * Accounted' + SumFunctionOnSet(Pending', Procs)
    BY <1>1, <1>5, <1>6, <1>7
  <2> QED
    BY <2>1 DEF DriftInv
<1>8. CASE Accounted' = Accounted + 1 /\ requests' = requests
  <2>1. MaxRetries * (Accounted + 1) = covered + MaxRetries
    BY <1>2, <1>5
  <2>2. requests' <= MaxRetries * Accounted' + SumFunctionOnSet(Pending', Procs)
    BY <1>1, <1>6, <1>8, <2>1
  <2> QED
    BY <2>2 DEF DriftInv
<1> QED
  BY <1>7, <1>8 DEF sent, next

LEMMA InitDrift == Init => DriftInv
<1> SUFFICES ASSUME Init PROVE DriftInv
  OBVIOUS
<1>1. TypeOK
  BY InitType
<1>2. \A m \in 1..Months : billable[m] = 0
  BY DEF Init
<1>3. \A p \in Procs : Pending[p] = 0
  BY DEF Init, Pending, Tries, Fresh
<1>4. IsFiniteSet(1..Months)
  BY FS_Interval
<1>5. SumFunctionOnSet(billable, {}) <= SumFunctionOnSet(billable, 1..Months)
  BY <1>2, <1>4, SumGrows
<1>6. SumFunctionOnSet(Pending, {}) <= SumFunctionOnSet(Pending, Procs)
  BY <1>3, SumGrows
<1>7. 0 <= SumFunctionOnSet(billable, 1..Months) /\ 0 <= SumFunctionOnSet(Pending, Procs)
  BY <1>5, <1>6, SumEmpty
<1>8. requests = 0 /\ Accounted >= 0 /\ Accounted \in Int
  BY <1>1, <1>7, PendingType DEF Init, Accounted
<1>9. MaxRetries * Accounted >= 0 /\ MaxRetries * Accounted \in Int
  BY <1>8
<1>10. SumFunctionOnSet(Pending, Procs) \in Int
  BY <1>1, PendingType
<1> QED
  BY <1>1, <1>7, <1>8, <1>9, <1>10 DEF DriftInv

\* One more row in a month is one more request accounted for.
LEMMA RowAccounts ==
  ASSUME TypeOK, billable' = [billable EXCEPT ![month] = @ + 1], lost' = lost
  PROVE  Accounted' = Accounted + 1
<1>1. SumFunctionOnSet(billable', 1..Months) = SumFunctionOnSet(billable, 1..Months) + 1
  <2>1. IsFiniteSet(1..Months)
    BY FS_Interval
  <2>2. /\ month \in 1..Months
        /\ \A m \in 1..Months : billable[m] \in Int /\ billable'[m] \in Int
        /\ \A m \in (1..Months) \ {month} : billable'[m] = billable[m]
        /\ billable'[month] = billable[month] + 1
    BY DEF TypeOK
  <2> SUFFICES ASSUME NEW S, S = 1..Months
               PROVE  SumFunctionOnSet(billable', S) = SumFunctionOnSet(billable, S) + 1
    OBVIOUS
  <2>3. /\ IsFiniteSet(S) /\ month \in S
        /\ \A m \in S : billable[m] \in Int /\ billable'[m] \in Int
        /\ \A m \in S \ {month} : billable'[m] = billable[m]
    BY <2>1, <2>2, Zenon
  <2> QED
    BY <2>2, <2>3, SumOfIncrement, Zenon
<1>2. SumFunctionOnSet(billable, 1..Months) \in Int /\ lost \in Int
  BY PendingType DEF TypeOK
<1> QED
  BY <1>1, <1>2 DEF Accounted

\* What is recorded is one row, and what it was about is no longer pending.
LEMMA RecordAccounts ==
  ASSUME TypeOK, NEW p \in Procs, Record(p)
  PROVE  Accounted' = Accounted + 1 /\ requests' = requests
<1>1. CASE billable' = [billable EXCEPT ![month] = @ + 1] /\ lost' = lost
  BY <1>1, RowAccounts DEF Record
<1>2. CASE lost' = lost + 1 /\ billable' = billable
  <2>1. lost \in Int /\ SumFunctionOnSet(billable, 1..Months) \in Int
    BY PendingType DEF TypeOK
  <2>2. SumFunctionOnSet(billable', 1..Months) = SumFunctionOnSet(billable, 1..Months)
    BY <1>2
  <2> QED
    BY <1>2, <2>1, <2>2 DEF Accounted, Record
<1> QED
  BY <1>1, <1>2 DEF Record

LEMMA DriftStep == DriftInv /\ [Next]_vars => DriftInv'
<1> SUFFICES ASSUME DriftInv, [Next]_vars PROVE DriftInv'
  OBVIOUS
<1>1. TypeOK /\ TypeOK'
  BY TypeStep DEF DriftInv
\* A step that sends nothing and leaves the commands as they are.
<1>2. ASSUME UNCHANGED <<billable, cmd, requests, lost>> PROVE DriftInv'
  <2>1. Accounted' = Accounted /\ Pending' = Pending /\ requests' = requests
    BY <1>2 DEF Accounted, Pending
  <2> QED
    BY <1>1, <2>1 DEF DriftInv
<1>3. CASE UNCHANGED vars
  BY <1>2, <1>3 DEF vars
<1>4. CASE NextMonth
  BY <1>2, <1>4 DEF NextMonth
<1>5. ASSUME NEW n \in 1..MaxPages, Expire(n) PROVE DriftInv'
  BY <1>2, <1>5 DEF Expire
<1>6. ASSUME NEW p \in Procs, Begin(p) \/ Step(p) \/ Interrupt(p) \/ Crash(p)
      PROVE  DriftInv'
  <2>1. cmd \in [Procs -> Command] /\ cmd[p] \in Command
    BY <1>1 DEF TypeOK
  <2>2. \A q \in Procs \ {p} : cmd'[q] = cmd[q]
    BY <1>6, <2>1 DEF Begin, Step, Lookup, Check, Refuse, Send, StopTrying, Answer, NoAnswer,
           Record, Put, Parse, Store, Interrupt, Crash, Goto, Exit
  <2>3. cmd[p].attempt \in 1..MaxRetries /\ cmd[p].attempt \in Int
    BY <2>1 DEF Command
  <2>4. Tries(cmd[p]) \in Nat /\ Tries(cmd'[p]) \in Nat /\ requests \in Nat
    BY <1>1, <2>1, TriesRange DEF TypeOK
  <2>5. ASSUME UNCHANGED <<billable, lost>>, requests' - requests <= Tries(cmd'[p]) - Tries(cmd[p])
        PROVE  DriftInv'
    <3>1. Accounted' = Accounted
      BY <2>5 DEF Accounted
    <3> QED
      BY <1>1, <2>2, <2>5, <3>1, DriftKept
  <2>6. ASSUME UNCHANGED <<billable, lost, requests>>, Tries(cmd[p]) <= Tries(cmd'[p])
        PROVE  DriftInv'
    <3>1. requests' - requests <= Tries(cmd'[p]) - Tries(cmd[p])
      BY <2>4, <2>6
    <3> QED
      BY <2>5, <2>6, <3>1
  <2>7. CASE Record(p)
    BY <1>1, <2>2, <2>7, RecordAccounts, DriftKept
  <2>8. CASE Send(p)
    <3>1. cmd'[p] = [cmd[p] EXCEPT !.stage = "waiting"] /\ cmd[p].stage = "attempt"
      BY <2>1, <2>8 DEF Send, Goto, At
    <3>2. cmd'[p].stage = "waiting" /\ cmd'[p].attempt = cmd[p].attempt
      BY <2>1, <3>1 DEF Command
    <3>3. Tries(cmd'[p]) = cmd[p].attempt /\ Tries(cmd[p]) = cmd[p].attempt - 1
      BY <3>1, <3>2 DEF Tries
    <3>4. requests' = requests + 1 /\ UNCHANGED <<billable, lost>>
      BY <2>8 DEF Send
    <3>5. requests' - requests <= Tries(cmd'[p]) - Tries(cmd[p])
      BY <2>3, <2>4, <3>3, <3>4
    <3> QED
      BY <2>5, <3>4, <3>5
  <2>9. CASE Crash(p)
    <3>1. Tries(cmd'[p]) = 0
      BY <2>1, <2>9 DEF Crash, Exit, Fresh, Tries
    <3>2. CASE Sent(p)
      <4>1. lost' = lost + 1 /\ billable' = billable /\ requests' = requests
        BY <2>9, <3>2 DEF Crash
      <4>2. Accounted' = Accounted + 1
        <5>1. SumFunctionOnSet(billable', 1..Months) = SumFunctionOnSet(billable, 1..Months)
          BY <4>1
        <5>2. SumFunctionOnSet(billable, 1..Months) \in Int /\ lost \in Int
          BY <1>1, PendingType DEF TypeOK
        <5> QED
          BY <4>1, <5>1, <5>2 DEF Accounted
      <4> QED
        BY <1>1, <2>2, <4>1, <4>2, DriftKept
    <3>3. CASE ~Sent(p)
      <4>1. Tries(cmd[p]) = 0
        BY <2>3, <3>3 DEF Sent, Tries
      <4>2. UNCHANGED <<billable, lost, requests>>
        BY <2>9, <3>3 DEF Crash
      <4> QED
        BY <2>6, <3>1, <4>1, <4>2
    <3> QED
      BY <3>2, <3>3
  <2>10. CASE Answer(p)
    <3>1. PICK ok \in BOOLEAN : cmd' = [cmd EXCEPT ![p].got = ok, ![p].stage = "record"]
      BY <2>10 DEF Answer
    <3>2. cmd'[p] = [cmd[p] EXCEPT !.got = ok, !.stage = "record"]
      BY <2>1, <3>1
    <3>3. cmd'[p].stage = "record" /\ cmd'[p].attempt = cmd[p].attempt
      BY <2>1, <3>2 DEF Command
    <3>4. Tries(cmd'[p]) = Tries(cmd[p])
      BY <2>10, <3>3 DEF Answer, At, Tries
    <3> QED
      BY <2>4, <2>6, <2>10, <3>4 DEF Answer
  <2>11. CASE NoAnswer(p)
    <3>1. cmd[p].stage = "waiting" /\ Tries(cmd[p]) = cmd[p].attempt
      BY <2>11 DEF NoAnswer, At, Tries
    <3>2. CASE cmd[p].attempt < MaxRetries
      <4>1. cmd' = [cmd EXCEPT ![p].attempt = @ + 1, ![p].stage = "attempt"]
        BY <2>11, <3>2 DEF NoAnswer
      <4>2. cmd'[p] = [cmd[p] EXCEPT !.attempt = @ + 1, !.stage = "attempt"]
        BY <2>1, <4>1
      <4>3. cmd'[p].stage = "attempt" /\ cmd'[p].attempt = cmd[p].attempt + 1
        BY <2>1, <4>2 DEF Command
      <4>4. Tries(cmd'[p]) = cmd[p].attempt
        BY <2>3, <4>3 DEF Tries
      <4> QED
        BY <2>4, <2>6, <2>11, <3>1, <4>4 DEF NoAnswer
    <3>3. CASE ~(cmd[p].attempt < MaxRetries)
      <4>1. cmd' = [cmd EXCEPT ![p].stage = "record"]
        BY <2>11, <3>3 DEF NoAnswer, Goto
      <4>2. cmd'[p].stage = "record" /\ cmd'[p].attempt = cmd[p].attempt
        BY <2>1, <4>1 DEF Command
      <4>3. Tries(cmd'[p]) = cmd[p].attempt
        BY <4>2 DEF Tries
      <4> QED
        BY <2>4, <2>6, <2>11, <3>1, <4>3 DEF NoAnswer
    <3> QED
      BY <3>2, <3>3
  <2>12. CASE StopTrying(p)
    <3>1. cmd[p].stage = "attempt" /\ Tries(cmd[p]) = cmd[p].attempt - 1
      BY <2>12 DEF StopTrying, At, Tries
    <3>2. CASE cmd[p].attempt = 1
      BY <2>4, <2>6, <2>12, <3>1, <3>2 DEF StopTrying
    <3>3. CASE cmd[p].attempt # 1
      <4>1. cmd' = [cmd EXCEPT ![p].stage = "record"]
        BY <2>12, <3>3 DEF StopTrying, Goto
      <4>2. cmd'[p].stage = "record" /\ cmd'[p].attempt = cmd[p].attempt
        BY <2>1, <4>1 DEF Command
      <4>3. Tries(cmd'[p]) = cmd[p].attempt
        BY <4>2 DEF Tries
      <4> QED
        BY <2>3, <2>4, <2>6, <2>12, <3>1, <4>3 DEF StopTrying
    <3> QED
      BY <3>2, <3>3
  <2>13. CASE Interrupt(p)
    BY <1>2, <2>13 DEF Interrupt
  <2>14. CASE Begin(p) \/ Lookup(p) \/ Check(p) \/ Put(p) \/ Parse(p) \/ Store(p)
    <3>1. Tries(cmd[p]) = 0
      BY <2>14 DEF Begin, Lookup, Check, Put, Parse, Store, At, Tries
    <3>2. UNCHANGED <<billable, lost, requests>>
      BY <2>14 DEF Begin, Lookup, Check, Put, Parse, Store
    <3> QED
      BY <2>4, <2>6, <3>1, <3>2
  <2> QED
    BY <1>6, <2>7, <2>8, <2>9, <2>10, <2>11, <2>12, <2>13, <2>14 DEF Step
<1> QED
  BY <1>3, <1>4, <1>5, <1>6 DEF Next

\* What is pending is of calls in flight, at most MaxRetries each.
LEMMA DriftInvBounds == DriftInv => DriftBounded
<1> SUFFICES ASSUME DriftInv PROVE DriftBounded
  OBVIOUS
<1> DEFINE total == SumFunctionOnSet(Pending, Procs)
           flying == SumFunctionOnSet(Pending, InFlight)
           n == Cardinality(InFlight)
<1>1. TypeOK
  BY DEF DriftInv
<1>2. \A p \in Procs : Pending[p] \in Int /\ Pending[p] <= MaxRetries /\ Pending[p] \in Nat
  BY <1>1, TriesRange DEF TypeOK, Pending
<1>3. InFlight \subseteq Procs /\ \A p \in Procs \ InFlight : Pending[p] = 0
  BY DEF InFlight, Pending, Tries
<1>4. IsFiniteSet(InFlight) /\ n \in Int
  BY InFlightCount
<1>5. total <= flying
  BY <1>2, <1>3, SumCompares
<1>6. flying <= MaxRetries * n
  BY <1>2, <1>3, <1>4, SumIsBounded
<1>7. total \in Int /\ flying \in Int /\ Accounted \in Int /\ requests \in Int
  BY <1>1, <1>2, <1>3, <1>4, PendingType, SumType DEF TypeOK
<1>8. requests <= MaxRetries * Accounted + total
  BY DEF DriftInv
<1> HIDE DEF total, flying, n
<1>9. /\ MaxRetries * (Accounted + n) = MaxRetries * Accounted + MaxRetries * n
      /\ MaxRetries * Accounted \in Int /\ MaxRetries * n \in Int
  BY <1>4, <1>7
<1>10. requests <= MaxRetries * (Accounted + n)
  BY <1>5, <1>6, <1>7, <1>8, <1>9
<1>11. FoldFunction(+, 0, billable) = SumFunctionOnSet(billable, 1..Months)
  <2>1. DOMAIN billable = 1..Months
    BY <1>1 DEF TypeOK
  <2> QED
    BY <2>1 DEF FoldFunction, SumFunctionOnSet
<1> QED
  BY <1>10, <1>11 DEF DriftBounded, Accounted, n

\* Through retries, interruptions, crashes and failing statements, the API never
\* received more than MaxRetries requests per ledger row, lost row and call in
\* flight: this is how far the local counter can fall behind Google's
\* (quota/ledger.go: Check; httpx/api.go: Post).
THEOREM DriftIsBounded == Spec => []DriftBounded
BY InitDrift, DriftStep, DriftInvBounds, PTL DEF Spec
=============================================================================
