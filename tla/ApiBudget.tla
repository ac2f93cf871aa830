----------------------------- MODULE ApiBudget -----------------------------
(***************************************************************************)
(* How `prospect discover` spends billable calls: places.Discover pages    *)
(* through one search, each page goes through httpx API (cache, ceiling,   *)
(* retries, ledger entry, cache), and the ledger of the month decides      *)
(* whether another call may go out (internal/source/places, httpx/api.go,  *)
(* quota/ledger.go, store/quota.go).  Several commands, on one machine,    *)
(* make the same search over one database and one cache.  The ceiling is   *)
(* read in one statement and the call recorded in another, after the       *)
(* network.  What is left out: ledger rows for cache hits, which count     *)
(* against nothing, the delays between attempts, and what is on a page: a  *)
(* page read, live or cached, brings any number of new results.            *)
(***************************************************************************)
EXTENDS Naturals, FiniteSets, Functions

CONSTANTS
  Procs,       (* discover commands                                        *)
  Limits,      (* the values --limit is given                              *)
  PageSize,    (* results per page                                         *)
  MaxPages,    (* pages the API serves of one search                       *)
  MaxRetries,  (* attempts per API call                                    *)
  Ceiling,     (* billable calls allowed per month                         *)
  Months,      (* bound: the months the model lives through are 1..Months  *)
  Faults       (* "crash": commands are killed; "statement": statements    *)
               (* fail on a live context too; "expiry": pages expire       *)

ASSUME BudgetAssumption ==
  /\ IsFiniteSet(Procs)
  /\ Limits \subseteq Nat \ {0}
  /\ PageSize \in Nat \ {0} /\ MaxPages \in Nat \ {0} /\ MaxRetries \in Nat \ {0}
  /\ Ceiling \in Nat /\ Months \in Nat \ {0}
  /\ Faults \subseteq {"crash", "statement", "expiry"}

\* A command with found results that has not asked for this page yet.
Fresh(stage, limit, page, found) ==
  [stage |-> stage, limit |-> limit, page |-> page, attempt |-> 1,
   found |-> found, got |-> FALSE]

Stage == {"idle", "lookup", "check", "attempt", "waiting", "record", "put", "parse",
          "store", "ended", "dead"}
Command == [stage : Stage, limit : Limits \cup {0}, page : 1..MaxPages,
            attempt : 1..MaxRetries, found : Nat, got : BOOLEAN]

VARIABLES
  month,      (* the current month                                         *)
  billable,   (* billable rows of api_calls, per month                     *)
  cache,      (* http_cache: the pages of the search that are live in it   *)
  cmd,        (* how far each command is                                   *)
  cancelled,  (* commands interrupted by Ctrl-C                            *)
  requests,   (* requests the API received, ever                           *)
  lost        (* calls that went out and whose ledger row was not written  *)

vars == <<month, billable, cache, cmd, cancelled, requests, lost>>

StatementFails(p) == p \in cancelled \/ "statement" \in Faults

Init ==
  /\ month = 1
  /\ billable = [m \in 1..Months |-> 0]
  /\ cache = {}
  /\ cmd = [p \in Procs |-> Fresh("idle", 0, 1, 0)]
  /\ cancelled = {}
  /\ requests = 0
  /\ lost = 0

At(p, stage) == cmd[p].stage = stage
Goto(p, stage) == cmd' = [cmd EXCEPT ![p].stage = stage]

Begin(p) ==
  /\ At(p, "idle")
  /\ \E limit \in Limits : cmd' = [cmd EXCEPT ![p] = Fresh("lookup", limit, 1, 0)]
  /\ UNCHANGED <<month, billable, cache, cancelled, requests, lost>>

\* cache.Get: a live page is served, anything else, an error included, is a miss.
Lookup(p) ==
  /\ At(p, "lookup")
  /\ \/ /\ p \notin cancelled
        /\ cmd[p].page \in cache
        /\ Goto(p, "parse")
     \/ /\ cmd[p].page \notin cache \/ StatementFails(p)
        /\ Goto(p, "check")
  /\ UNCHANGED <<month, billable, cache, cancelled, requests, lost>>

\* Faulty variant: a command at the ceiling waits for the next month.
FaultyRefuse(p) == UNCHANGED cmd

\* Discover stops, and keeps what it has gathered.
Refuse(p) == Goto(p, "store")

\* Faulty variant: usage is read for the first month, not the current one.
FaultyCheck(p) ==
  /\ At(p, "check")
  /\ \/ /\ p \notin cancelled
        /\ IF billable[1] + 1 > Ceiling THEN Refuse(p) ELSE Goto(p, "attempt")
     \/ StatementFails(p) /\ Refuse(p)
  /\ UNCHANGED <<month, billable, cache, cancelled, requests, lost>>

\* Ledger.Check of one call; a count that cannot be read refuses as well.
Check(p) ==
  /\ At(p, "check")
  /\ \/ /\ p \notin cancelled
        /\ IF billable[month] + 1 > Ceiling THEN Refuse(p) ELSE Goto(p, "attempt")
     \/ StatementFails(p) /\ Refuse(p)
  /\ UNCHANGED <<month, billable, cache, cancelled, requests, lost>>

\* The limiter gives way and the request goes out.
Send(p) ==
  /\ At(p, "attempt")
  /\ p \notin cancelled
  /\ requests' = requests + 1
  /\ Goto(p, "waiting")
  /\ UNCHANGED <<month, billable, cache, cancelled, lost>>

\* limiter.Wait or sleepCtx ends on Ctrl-C.  AfterNetwork runs all the same; if
\* nothing has gone out, the row it fails to write is of no call.
StopTrying(p) ==
  /\ At(p, "attempt")
  /\ p \in cancelled
  /\ Goto(p, IF cmd[p].attempt = 1 THEN "store" ELSE "record")
  /\ UNCHANGED <<month, billable, cache, cancelled, requests, lost>>

\* A 200 with a page in it, or another status below 500 that is not retried.
Answer(p) ==
  /\ At(p, "waiting")
  /\ p \notin cancelled
  /\ \E ok \in BOOLEAN : cmd' = [cmd EXCEPT ![p].got = ok, ![p].stage = "record"]
  /\ UNCHANGED <<month, billable, cache, cancelled, requests, lost>>

\* Faulty variant: the ceiling is consulted again before every retry.
FaultyNoAnswer(p) ==
  /\ At(p, "waiting")
  /\ IF cmd[p].attempt < MaxRetries
       THEN cmd' = [cmd EXCEPT ![p].attempt = @ + 1, ![p].stage = "check"]
       ELSE Goto(p, "record")
  /\ UNCHANGED <<month, billable, cache, cancelled, requests, lost>>

\* 429, 5xx, a timeout, a body cut short, or Ctrl-C while waiting: tried again,
\* on the same check and towards the same ledger row.
NoAnswer(p) ==
  /\ At(p, "waiting")
  /\ IF cmd[p].attempt < MaxRetries
       THEN cmd' = [cmd EXCEPT ![p].attempt = @ + 1, ![p].stage = "attempt"]
       ELSE Goto(p, "record")
  /\ UNCHANGED <<month, billable, cache, cancelled, requests, lost>>

\* AfterNetwork: one row, in the month it is written; a failure is only logged.
Record(p) ==
  /\ At(p, "record")
  /\ \/ /\ p \notin cancelled
        /\ billable' = [billable EXCEPT ![month] = @ + 1]
        /\ UNCHANGED lost
     \/ /\ StatementFails(p)
        /\ lost' = lost + 1
        /\ UNCHANGED billable
  /\ Goto(p, IF cmd[p].got THEN "put" ELSE "store")
  /\ UNCHANGED <<month, cache, cancelled, requests>>

\* cache.Put of a 200; a failure is only logged.
Put(p) ==
  /\ At(p, "put")
  /\ \/ /\ p \notin cancelled
        /\ cache' = cache \cup {cmd[p].page}
     \/ StatementFails(p) /\ UNCHANGED cache
  /\ Goto(p, "parse")
  /\ UNCHANGED <<month, billable, cancelled, requests, lost>>

Least(a, b) == IF a < b THEN a ELSE b

\* Faulty variant: a token is followed however many pages there have been.
FaultyParse(p) ==
  /\ At(p, "parse")
  /\ \E new \in 0..PageSize, token \in BOOLEAN :
       LET c == cmd[p]
           found == Least(c.limit, c.found + new)
       IN  cmd' = [cmd EXCEPT ![p] =
             IF found < c.limit /\ token
               THEN Fresh("lookup", c.limit, c.page + 1, found)
               ELSE [c EXCEPT !.stage = "store", !.found = found]]
  /\ UNCHANGED <<month, billable, cache, cancelled, requests, lost>>

\* Discover takes the results that are new up to the limit, and goes on if it has
\* too few and the page came with a token for the next one.
Parse(p) ==
  /\ At(p, "parse")
  /\ \E new \in 0..PageSize, token \in BOOLEAN :
       LET c == cmd[p]
           found == Least(c.limit, c.found + new)
       IN  cmd' = [cmd EXCEPT ![p] =
             IF found < c.limit /\ token /\ c.page < MaxPages
               THEN Fresh("lookup", c.limit, c.page + 1, found)
               ELSE [c EXCEPT !.stage = "store", !.found = found]]
  /\ UNCHANGED <<month, billable, cache, cancelled, requests, lost>>

\* The process is over, and its context with it.
Exit(p, stage) ==
  /\ cmd' = [cmd EXCEPT ![p] = Fresh(stage, 0, 1, 0)]
  /\ cancelled' = cancelled \ {p}

\* storeDiscovered, and the command ends.
Store(p) ==
  /\ At(p, "store")
  /\ Exit(p, "ended")
  /\ UNCHANGED <<month, billable, cache, requests, lost>>

Running(p) == cmd[p].stage \notin {"idle", "ended", "dead"}

\* A call of p that passed the ceiling and is not on record yet.
InFlight == {p \in Procs : cmd[p].stage \in {"attempt", "waiting", "record"}}

\* At least one request of p's call has gone out.
Sent(p) == \/ cmd[p].stage \in {"waiting", "record"}
           \/ cmd[p].stage = "attempt" /\ cmd[p].attempt > 1

Interrupt(p) ==
  /\ Running(p)
  /\ p \notin cancelled
  /\ cancelled' = cancelled \cup {p}
  /\ UNCHANGED <<month, billable, cache, cmd, requests, lost>>

\* The process is killed: a call in flight is never recorded.
Crash(p) ==
  /\ "crash" \in Faults
  /\ Running(p)
  /\ lost' = IF Sent(p) THEN lost + 1 ELSE lost
  /\ Exit(p, "dead")
  /\ UNCHANGED <<month, billable, cache, requests>>

NextMonth ==
  /\ month < Months
  /\ month' = month + 1
  /\ UNCHANGED <<billable, cache, cmd, cancelled, requests, lost>>

\* The time to live of a page runs out, or cache.db is deleted.
Expire(n) ==
  /\ "expiry" \in Faults
  /\ n \in cache
  /\ cache' = cache \ {n}
  /\ UNCHANGED <<month, billable, cmd, cancelled, requests, lost>>

Step(p) ==
  \/ Lookup(p) \/ Check(p) \/ Send(p) \/ StopTrying(p) \/ Answer(p) \/ NoAnswer(p)
  \/ Record(p) \/ Put(p) \/ Parse(p) \/ Store(p)

Next ==
  \/ \E p \in Procs : Begin(p) \/ Step(p) \/ Interrupt(p) \/ Crash(p)
  \/ \E n \in 1..MaxPages : Expire(n)
  \/ NextMonth

Spec == Init /\ [][Next]_vars

\* A running command is scheduled; a request is answered or times out.
FairSpec == Spec /\ \A p \in Procs : WF_vars(Step(p))

----------------------------------------------------------------------------
(* Properties.                                                             *)

TypeOK ==
  /\ month \in 1..Months
  /\ billable \in [1..Months -> Nat]
  /\ cache \subseteq 1..MaxPages
  /\ cmd \in [Procs -> Command]
  /\ cancelled \subseteq Procs
  /\ requests \in Nat
  /\ lost \in Nat

\* "The monthly ceiling is checked immediately before each live call": the check
\* and the row it counts on are two statements with the network between them, so
\* commands that check together can all pass the last free call; but in no month,
\* not even one a call was checked before, does the ledger exceed the ceiling by
\* more than one call per other command.
OvershootBounded ==
  \A m \in 1..Months : billable[m] > 0 => billable[m] + 1 <= Ceiling + Cardinality(Procs)

\* How far "the local counter can drift below Google's": every request the API
\* received belongs to a ledger row, a lost row or a call in flight, and at most
\* MaxRetries of them to the same one.
DriftBounded ==
  requests <= MaxRetries * (FoldFunction(+, 0, billable) + lost + Cardinality(InFlight))

\* "hard stops the run": retries, paging and the ceiling all come to an end, so
\* every command that began ends, unless it is killed.
CommandsEnd == \A p \in Procs : Running(p) ~> cmd[p].stage \in {"ended", "dead"}
=============================================================================
