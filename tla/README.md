# prospects-cli in TLA+

`prospect` is a command-line tool that finds small businesses, reads their
websites, keeps what it learns as a history of signals, scores each business from
them and tracks how far it is in an outreach pipeline.  It is one Go binary over
one SQLite file; every command is a process, several processes may share the
file, and `enrich` runs a pool of goroutines.  These modules model the parts of it
whose correctness depends on what happens in between: between two transactions of
two processes, two signals of one site, a ceiling check and the ledger row, a slot
taken and a request sent, a robots.txt asked for and stored, a set of signals read
and a score saved, two statements of a migration.

Contents: 1 inventory, 2 modules and code, 3 runs, 4 fairness, 5 where the code
and its documentation disagree, 6 proofs, 7 what is not modelled, 8 what is left.

## 1. Inventory

Paths are under `src/internal/`.

| Component | State | Operations | What makes it correct |
|---|---|---|---|
| Business catalogue (`store/businesses.go`, `dedup/normalize.go`) | `businesses` with three unique indexes | `UpsertBusiness`: find by domain, then by name among rows without a domain; insert, merge or leave | the lookup mirrors the indexes; a merge only adds knowledge |
| Suppression and pipeline (`store/outreach.go`, `cli/status.go`, `cli/suppress.go`) | `suppression`, `suppression_domains`, `outreach`, `outreach_events`, view `v_active_businesses` | `Suppress`, `SetOutreachStatus`, the status command's check and write | suppression is permanent; the event history replays to the status |
| Signals (`store/signals.go`, `cli/signal.go`) | `signals`, append-only with `superseded_at` | `RecordSignal`: new, confirmed, transition; entering one by hand | one current value per single-valued fact; history never rewritten |
| Enrich (`cli/enrich.go`, `store/runs.go`) | feeder, channel, workers, counters; `runs`, `run_items` | list, open run, resume, feed, collect, record, promote, checkpoint, finish | every target is counted once; a checkpoint never claims more than is stored; the pool drains |
| Website client (`httpx/client.go`, `ratelimit.go`, `robots.go`) | limiter slots and delays, robots map | slot, robots.txt, retries, redirects | rate per host; rules obeyed; every call returns |
| Website source (`source/website`) | the visit | homepage, contact pages, extraction, merge, report | few pages, none twice; the report is what the pages say |
| Meta Ad Library (`source/metaads`) | none | one call per business, a signal | as the ledger and the signals |
| Scoring (`scoring/`, `cli/score.go`, `store/scores.go`) | `scores`, view `v_latest_scores` | rules over current signals; read, then append | reproducible; confidence honest; the manual check settled by whom it should |
| Quota ledger (`quota/`, `store/quota.go`) | `api_calls` | `Check` before, `Record` after a call; ceilings from tiers, margin, overrides | the month's ceiling; no bill unless asked for |
| API client (`httpx/api.go`, `cache.go`) | `http_cache` (its own file) | cache, hooks around the network, retries | one check and one row per call, retries bounded |
| Places discovery (`source/places`, `cli/discover.go`) | paging position, results | page until the limit, the last page, or the ceiling | it ends; what it gathered is kept |
| Import (`cli/seed.go`, `source/csvseed`) | none | one upsert per record | see the catalogue |
| Start of a command (`cli/root.go`, `config/`, `store/migrate.go`, `store/store.go`) | environment, `schema_migrations` | resolve settings, open, migrate in order, a transaction each | never half migrated; a started command has its schema |
| Read-only commands, logging | none of their own | read, format | unit tests reach them |

How they interact.  Everything durable goes through SQLite in WAL mode with
`busy_timeout` and one connection per process.  `WithTx` makes each transaction
atomic, so in the models **a transaction is a step and anything may happen
between two of them**.  `seed` and `discover` upsert one record per transaction.
`enrich` reads its targets from the active view, fetches each site through the
website client, asks the Ad Library through the API client, records one
transaction per signal, then promotes an address to the business row, then
checkpoints.  `score` reads the signals of one business and appends its score, in
two statements.  `list`, `export`, `brief` read through the views.  `discover` and
the Ad Library source go through the API client, which calls back into the ledger
before and after the network.  Ctrl-C cancels the one context that every statement
and request is made with.

What is hard here: processes that check in one statement and write in another;
rows that change what identifies them while others look them up; a site's
signals, its address and its checkpoint being separate transactions, any of which
can fail or be cut off; a feeder and workers on an unbuffered channel under
cancellation; a mutex that guards a map and a limiter but not what happens between
two accesses; observations that nothing takes back; money spent before it is
recorded; two releases migrating one file.  `PROJECT.json` lists each hazard at its
line with the property that covers it.

## 2. Modules and code

    DoNotContact  <--  Catalog  <--  CatalogHistory        CatalogProofs
         ^
         +---- Enrich --> Signals --> Belief               EnrichProofs, SignalsProofs
                             ^
    Website, Observers,      |
    Scoring  <---------- ScoreRuns                         ScoreRunsProofs
    ApiBudget                                              ApiBudgetProofs
    Fetch --> Robots                                       FetchProofs
    Startup --> Settings                                   StartupProofs
    MCCatalog, MCCatalogHistory, MCEnrich, MCApiBudget, MCFetch, MCScoreRuns,
    MCStartup give the constants values
    AggregateProofs has the facts about sums, least and greatest elements, recursive
    functions and folds that ApiBudgetProofs, FetchProofs and ScoreRunsProofs share

**Catalog.**  One variable per table, plus `pending` (what a status process has
checked and not yet written) and `outcome` (what the last upsert returned, and
which indexes rejected it).  Normalization (`dedup.Domain`, `dedup.NameKey`) is a
pair of functions given as constants: all the store depends on is which spellings
share a key and which have none.  `email` stands for every column merged by
`correct`, `website` for those merged by `keepFirst`.  Actions: the four exits of
`UpsertBusiness` (no identity, listed domain, insert, merge, each with its index
conflicts), `Suppress` with and without its domain, `CheckStatus` and
`SetOutreachStatus` (the two statements of `prospect status`), `AbandonStatus`
(death or rollback between them) and `UpdateBusinessEmail`.  `Active` is
`v_active_businesses`.

**DoNotContact** is the promise about exclusion without the tables: a business
appears, and once excluded never reappears.  Catalog implements it with
`visible <- Active, excluded <- Stored \ Active`; each suppression removes exactly
one business from view, even though it may list a domain.  Enrich uses it as its
environment.

**CatalogHistory** adds which record landed on which row, for the question whether
importing a file again can bring a removed business back.

**Signals.**  `signals` is the table in id order; `RecordSignal` confirms, appends,
or supersedes and appends.  Confidence, evidence and times, which decide
nothing, are left out.  **Belief** is what its readers rely on: the last value of a
single-valued fact, every value of a multi-valued one.

**Enrich** EXTENDS Signals.  Per command: how far it is (`pc`), the targets not handed
out yet, its run id, the run it is about to resume (`prev`) and that run's done list,
whether its context is cancelled, what each worker holds, and the counters. Resuming
is two statements and so two steps, `FindPrevious` and `ReadCompleted`; `StartFresh`
is a lookup that is off, fails or finds nothing to resume.  `Hand` is the rendezvous
on the unbuffered channel; `StopFeeding` is the `select` that picked `ctx.Done`, or
the end of the list; `FinishRun` waits for every worker.  A worker collects (any of
the readings its site may give), records signal by signal, promotes the address (a
report holds one at most, and an address on file is kept), checkpoints.  A statement
on a cancelled context is refused: the site read before Ctrl-C is counted as failed,
and a failed checkpoint write is only logged.  With `"statement" \in Faults`
statements fail on a live context too (disk full, or SQLite's refusal to upgrade a
stale read transaction); with `"crash"` a command can be killed, which loses its
memory and keeps what it committed.

**Robots** is `robots.go` as operators: `ParseRobots` folds over the lines,
`GroupFor` picks the group, `Decide` the verdict, `PatternHolds` matches a pattern
with wildcards.  Its second half (`Describes`, `FileAllows`) says what a pattern and
a file mean without parsing them; MCFetch compares the two on every small one, and
`PatternsMatch` and `FilesAreObeyed` prove them equal.

**Fetch** EXTENDS Robots: the workers of one command over a shared `robots` map and
limiter (`next`, `perHost`).  A Get is a record that passes through the stages
*lookup* (cache), *queue* (about to take a slot), *wait* (asleep until it is due),
*sent*, *store* (about to write the map), *verdict* and *backoff*, first for its
robots.txt and then for its page.  Each access to the map or the limiter is one step;
nothing is held between two.  `ReturnRobots` is every way `fetchRobots` returns: with
a file, or with nil for any answer but a 200, from the network or the cache.
`Redirect` is the transport following a redirect, which asks neither robots.txt nor
limiter; `MaxRedirects` bounds the requests of an attempt, since the list that
`CheckRedirect` measures holds the first one too.  `sent` holds, for each host, the
requests made on its slots, every redirect a request of its own.  `slots`, `sent`,
`pace`, `failed`, `informed`, and the `hits` and `warned` of a Get, only observe.

**Website** is one visit (`website.go`) over pages whose elements are given
(`extract.go`): which elements make a contact form, a promise or a contact link,
which pages are asked for, how findings merge and what is reported.  `Home` is where the
address on file leads; contact candidates exclude that URL only, as the code does, so
that an address on file that redirects may be asked for again.
**Observers** holds what the Ad Library source concludes from the advertisers it is
given and what `prospect signal` accepts.  **Scoring** is the engine: conditions and
their validation, evaluation, checkability, points, rounding, the manual check, the
size band.  A value test is the set of values that pass it; a condition is the
record the YAML decodes to, with both a signal test and nested conditions where the
file has both.  `Conditions` is whatever a weights file holds, `Depth` how far it is
nested; `Valid`, `Evaluate`, `TestsAbsence` and `TypesOf`, which walk the tree in the
code, are recursive functions on it.

**ScoreRuns** composes Signals, Website, Observers and Scoring: a visit records its
report one signal at a time and may be cut off, the Ad Library and the operator add
theirs, discover updates review counts, and score commands read the signals of a
business in one step and append its score in another.  Each row of `scores` keeps
beside its result what it was made of (`weights`, `reviews`, `asOf`, `began`), which
only observes.

**ApiBudget.**  Discover commands making the same search over one ledger and one
cache.  The stages of a command are the points where another process can get in
between: cache lookup, ceiling check, each attempt, the wait, the ledger row, the
cache write, parsing, storing.  The clock may turn the month at any moment, pages
expire, Ctrl-C and kills come anywhere.  `requests` counts what the provider
received and `lost` the calls whose row was never written; both only observe.

**Settings** is configuration as operators: flags written over the environment, the
.env file under it, blank and unreadable values, what `Load` reports, and from
there to the ceiling of a call (`QuotaLimits`, `Ceiling`, `Clamped`) and the tier a
field mask is billed at.  Of several settings that are read alike one is kept.
The product with the margin is exact here and a float64 in the code.

**Startup** EXTENDS Settings: commands of different releases load their settings,
create the bookkeeping table, read the applied versions, and apply each missing
migration in a transaction of single statements.  `tx` is the one write transaction
SQLite allows; a statement that has been run before fails, as `CREATE TABLE` does.

## 3. Runs

| Run | Instance | Properties | Shows |
|---|---|---|---|
| `catalog_identity` | 6 records, 3 rowids | `TypeOK` `MirroredIndexes` `DomainCoversId` `KnowledgeKept` `NeverShownAgain` | in any order of overlapping imports and suppressions no write is rejected by the domain or name index, no row or known column is lost, what is excluded stays out of view |
| `catalog_pipeline` | 1 row, 2 status processes | `HistoryReplays` `RevivalsBounded` | the history replays to the status although checks and writes are apart; the race of a check with a suppression is lost at most once per process |
| `catalog_reimport` | 2 rowids | `RemovedStaysGone` | *violated* |
| `enrich_pool` | 1 command, 2 workers, 3 businesses, kills, failing statements | `EveryTargetAccounted` `CompletedMeansHandled` `PoolDrains` | the summary adds up, a completed run left nothing behind, and the pool never hangs |
| `enrich_commands` | 2 commands, 1 business read four ways, suppression, kills, failing statements | `TypeOK` `OneCurrent` `CheckpointIsHonest` `EmailIsOnRecord` `QuietOnceExcluded` `HistoryIsFinal` `BeliefIsLatest` | neither checkpoints nor addresses run ahead of the signals; an excluded business is left alone; the table implements Belief |
| `enrich_resume` | 2 commands, 2 businesses, kills | `ResumePicksUp` | *violated* |
| `enrich_interrupt` | 1 command, 2 workers, 2 businesses, only Ctrl-C | `InterruptIsClean` | *violated* |
| `fetch_pool` | 2 workers, 2 pages of a site, one forbidden, a crawl delay | `TypeOK` `RateHeld` `PaceHeld` `ForbiddenOnlyBlind` `HitsBounded` `GetsEnd` | the requests on a site's slots fit its rate, redirects included, and the slots a crawl delay; a Get makes a bounded number of requests; a forbidden page is asked for only after its robots.txt was asked for in vain; every Get returns |
| `fetch_robots_race` | the same, 3 pages, nothing of robots.txt cached, servers that do not say when to retry | `OnceReadObeyed` | *violated* |
| `score_sessions` | 2 score commands, 1 business, a visit of changing pages, the Ad Library, the operator, discover | `TypeOK` `ScoresReproducible` `HonestConfidence` `ConfidenceNeverFalls` `OutdatedOnlyByOverlap` `PersonSettlesAds` `PaidAbsenceIsHistory` `VisitIsPolite` `ReportIsTheSite` | a stored score can be recomputed from history, says honestly how much it could check, is stale only by overlap, and pays for an absence only where nothing was ever seen |
| `startup` | 3 commands of 2 releases, six environments, a failure | `NeverHalfMigrated` `ReadySeesSchema` `BillsOnlyOnRequest` `StartsInTheEnd` | the schema is never half there, a started command has its migrations, nothing but the switch allows a bill, a failed start succeeds when run again |
| `budget_pages` | 2 commands, 2 pages, 2 attempts, ceiling 1, 2 months, kills, expiry | `TypeOK` `OvershootBounded` `DriftBounded` `CommandsEnd` | the ledger overshoots by at most one call per other command, uncounted requests are bounded by the retries, every command ends |

Three MC modules also hold assumptions that TLC evaluates at the start of a run, for
pure operators over bounded inputs: `PatternsAreRead` (every pattern of up to three
segments against every path of up to four characters) and `FilesAreRead` (every
robots.txt of up to four lines) in MCFetch; `PaidIsCheckable`, `DoublingKeepsScores`,
`AdsAreMostOfIt` and `BandsGrow` in MCScoreRuns; `FreeStaysFree` and
`MasksOnlyGetDearer` in MCStartup.

Why the bounds are enough to be interesting:

- *Records* (`MCSightings`): two sites, one of them spelled two ways, a social link
  that identifies nothing, two names with two spellings of one, a listing seen at
  both sites, and a record without identity.  Every branch of lookup, merge and
  conflict fires: a row gains a domain, a row matched by name later belongs to a
  domain, two rows compete for a place id.  Three rowids let two rows merge into
  the way of a third.
- `MaxEvents` bounds the events recorded per business, and only that: it guards the
  two actions that append one, in place of an unbounded table.  Four events hold a
  suppression and a late write of each of two processes.  The proofs hold for every
  `MaxEvents`.
- *Readings* (`MCManyReads`): the same form read two ways (a transition), a tag read
  two ways (values that coexist), an address, a disallowed site.  Two commands make
  the confirm, the transition and the stale address.
- *Three businesses for two workers* make the feeder wait for a worker.
- *Fetch*: two workers are what it takes to queue behind one another, to learn a delay
  while another sleeps, and to read one robots.txt twice.  Rate 1 under a crawl delay
  of 2 tells a slot of the old pace from one of the new.  `MaxRetries`,
  `MaxRedirects`, `BaseBackoff` and `MaxBackoff` are parameters of the code with small
  values: 2 attempts of 2 requests, where the code has 4 of 5, so that a second attempt
  and a first redirect are each the last allowed.  In `fetch_pool` every server says how
  long to wait; the jitter is in `fetch_robots_race`, where some do not.  `CachedRobots` is
  what the cache may give for a robots.txt, for each run.  Time is
  not bounded: it advances only while somebody sleeps, and the pages run out.  The
  proofs hold for any number of workers, pages and hosts.
- *Scores*: `MaxVisits = 1`, `MaxAnswers = 2` and `MaxScores = 2` bound the observations
  and the rows.  One visit of a homepage that is read in two ways, followed by two
  answers of other observers (of the operator only a yes to the manual check; what a no
  does is left to the theorem), gives transitions, conflicting sources and a cut-off
  report; two scores are what staleness and confidence compare.  A second visit takes
  the state space beyond what a run can explore.  The weights are those of
  `weights.default.yaml`.
- *Two migrations* although the repository has one so far: with one, no command could
  find another release's file half a version behind.  Two statements per migration are
  the least that can be interrupted in the middle.  `MaxFaults = 1` bounds the failures
  that are not part of the protocol; losing the race and `busy_timeout` are not
  counted.
- *Ceiling 1 with two commands* is where two checks pass one free call; two months
  let a call be checked in one and recorded in the other; two attempts and two
  pages are the least with a retry and a next page.  `Months` bounds the clock.
  Failing statements on a live context are left out of `budget_pages` (the run grows
  beyond reach); a cancelled context makes every statement fail and takes the same
  branches.

Deadlock checking is off because everything stops in the end: a table of bounded
rowids and events fills up, a command closes and its process is gone, the pages and
the observations run out.  That commands get to their end is `PoolDrains`, `GetsEnd`,
`StartsInTheEnd` and `CommandsEnd`, not the absence of deadlock.

Symmetry is used in `score_sessions` only, between the two score commands: they start
alike, and the run checks no temporal property.

For each property of a passing run there is a variant of one operator, usually named
`Faulty...` and written beside it, that changes it as a plausible bug would;
with the variant in its place TLC finds the property violated (`PROJECT.json`,
"mutants").

## 4. Fairness

Weak fairness only, and only of steps the program takes on its own: the feeder and
main goroutine of enrich (`Feed`), each worker (`Work`), each discover command
(`Step` of ApiBudget), each crawling worker and the clock (`Step` and `Tick` of
Fetch), each starting command (`Step` of Startup).  Goroutines are scheduled, timers
fire, every HTTP request has a client timeout and every statement a `busy_timeout`, so
none of them waits for ever.  A worker's failed step and its successful one are
alternatives of one fair action: nothing says that a request or statement must ever
succeed.  `StartsInTheEnd` also assumes that the operator runs a failed command again
(`Retry`), which is what the property is about.  Nothing is assumed of Ctrl-C, kills,
suppressions, the calendar, cache expiry, or of a command being started.

## 5. Where the code and its documentation disagree

Four are runs that end in a counterexample; quotes and lines are in `PROJECT.json`,
"findings".

1. `catalog_reimport`: a record without a website no longer meets the row it created once
   that row has a domain; after a suppression it opens a new, visible one.
2. `enrich_resume`: `--resume` finds the run the command has just opened, and skips
   nothing.
3. `enrich_interrupt`: Ctrl-C between two signals of a site leaves part of a reading
   without a checkpoint, and the business no longer counts as pending.
4. `fetch_robots_race`: two workers read one robots.txt, one with success and one
   without; if the failure is stored last, the rules that were read are forgotten for
   the rest of the process.

Others were met while modelling.  The models behave as the code does in each of the
first group; the runs bound the consequence or leave it open.

- `prospect status` checks for a suppression in one statement and writes in another
  (`cli/status.go:114`), so a move the README says "is refused" may go through;
  `RevivalsBounded` says how often.  The view still hides the business.
- A row keeps the first website and takes the newest domain
  (`store/businesses.go:165`): seen first with a bare social link, it keeps that as the
  URL enrich fetches.
- A listing met under two domains is rejected by the `place_id` index
  (`0001_init.sql:30`), which the lookup does not look at.
- A call in flight at Ctrl-C is never recorded (`source/places/places.go:237`);
  `DriftBounded` says by how much the ledger can fall short.
- Of two commands that start together on a fresh file one fails, though "Applying
  twice is a no-op" (`store/migrate.go:24-26`); `StartsInTheEnd` says that running it
  again helps.
- A robots.txt served from the cache is parsed without its crawl delay reaching the
  limiter (`httpx/client.go:289-294`, README line 569); `PaceHeld` therefore speaks of
  delays read from the network.
- Redirects are followed by the transport, past robots.txt and limiter
  (`httpx/client.go:117-122`, `:230`), although `httpx/client.go:4-7` has every request go
  through both and README lines 574-576 say "At most one request per second per host".
  A slot is therefore worth up to five requests in quick succession, not one.  `RateHeld`
  bounds just that: it counts every request with the slot it follows from, wherever the
  redirect leads.  It says nothing of one per second, which a single redirect within a
  site refutes.  `HitsBounded` counts redirects for one Get.
- A robots.txt that opens two groups for one agent is read by its first alone, where
  RFC 9309, which `httpx/robots.go:11` names, has them merged; hence `OneGroupEach` in
  `FilesAreRead`, and the hypothesis of `FilesAreObeyed` and `OnlyBlindAsksForbidden`.
- A tool or tag that was not found is never recorded as absent
  (`extract.go:385-390`, README line 537), so one seen once stays current;
  `PaidAbsenceIsHistory` is the side of it that holds.
- A rule about absence counts as checkable for a business nobody has read
  (`scoring/engine.go:114-118`), which adds to its confidence; `Checkable` is so.
- A score command reads a business's review count when it lists and its signals when it
  reaches it (`cli/score.go:80`, `:116`), so the two may be of different moments.
- A condition with both a signal test and nested conditions passes validation and
  ignores the signal test (`scoring/engine.go:239-268`).
- A variable exported empty counts as unset for its default but still hides the .env
  value (`config/dotenv.go:35`).

Outside the models: a disallowed contact page is logged at debug level only
(`website.go:108-112`, README lines 566-567); a `Retry-After` has no upper limit
(`httpx/client.go:203`); `list --max-score 0` means no cap (`store/scores.go:126`); the
brief joins stored points with observations under the current weights
(`engine.go:182-199`); the estimate of a dry run assumes that every result is new
(`places.go:118`); rounding is by float64 (`engine.go:92`, `ledger.go:91`).

## 6. What is proved

For every value of the constants that meets the named assumptions
(`CatalogAssumption`, `AbsentAssumption`, `EnrichAssumption`, `JobAssumption`,
`BudgetAssumption`, `SettingsAssumption`, `StartupAssumption`, `FetchAssumption`,
`RobotsAssumption`, `PagesAreReadable`, `ConditionsNest`, `ManualIsTrustable`,
`WeightsAreValid`, `BusinessesAreListed`, `VocabularyHolds`; Signals has none).  The
assumptions say only that constants have the shapes the code gives them, that `None`
is not a value, and that processes and businesses are finitely many; none bounds their
number.  Some need a word. `WeightsAreValid` is what `Load` checks before a command
uses a file, `ConditionsNest` that a condition is a finite tree, `ManualIsTrustable`
that a person is among the sources a file may trust, and `VocabularyHolds` that the
signal types and values the observers produce are in the table's vocabulary.
`RobotsAssumption` says that files are sequences of lines and URLs sequences of
characters, whatever their content.  `StartupAssumption` says that no flag sets the
switch for paid calls, which is so in `cli/root.go`.

**CatalogProofs.**  `StoreInv` is inductive: `TypeOK`; `OneRowPerIdentity` (at most
one row per domain, and per name key among rows without one, which is what the
two partial indexes enforce); `EntriesOpen` (every stored row has an outreach
entry, opened in the insert's transaction); `MirroredIndexes`; and `DomainCoversId`.
`MirroredIndexes` alone is not inductive: that a merge is never rejected needs that
the row found is the only one with its key, and that a domain newly given to a row
found by name belongs to no row, since the lookup by domain came first.
`HistoryReplays` needs `EntriesOpen` besides, and that a status write reads the
from-status in its own transaction.  `KnowledgeIsKept` and `SuppressionIsPermanent`
(the refinement of DoNotContact) follow step by step: a merge cannot take a
business out of view or back into it because a listed domain is refused before the
lookup, and a row's domain never changes.
`RevivalsBounded` counts checks: for a suppressed business the moves to a live status
recorded since, and the processes that still hold a check for one, are together no
more than the processes; a write turns one of the second into one of the first, and
no check adds to the second once the business is suppressed.

**SignalsProofs.**  `OneCurrent` is inductive with the type invariant.
`HistoryIsAppendOnly` is a property of each step; `BeliefIsImplemented` maps a
confirmation to a stutter or to an observation of the value already believed, and
an append to an observation.

**EnrichProofs.**  After the types, `EnrichWritesSignals` shows that an enrich command
changes the signals table only as `Signals` allows, which carries the three
theorems of SignalsProofs over to any number of commands and workers.  For the
checkpoints `HonestInv` adds `Progress`: what a worker holds is a reading its site can
give, its place in it is the start until it has one, and everything before its
place is on record.  Without it nothing is known of the signals of a business at
the moment it is marked done.  That what is on record stays there is
`OnRecordKept`, from the append-only history.

For the tallies `Kept` says of each command that what it has considered is
counted, waiting, or with one busy worker of its pool, that it counts from nothing,
and that, unless cancelled, it drains only an empty list; what one command does is
nothing to the others (`OthersUntouched`).  `EveryTargetAccounted` is part of it.
For `CompletedMeansHandled`, `RunsInv` adds that each command has a run of its own,
so that only its own FinishRun can complete it, when the list and the workers are
through.  `QuietOnceExcluded` is a property of each step of such a state with
`Unseen`: no suppressed business is in view, a command lists only what is, and a
worker writes only about the business it holds.

**ApiBudgetProofs.**  A ledger above the ceiling is the result of checks made
together, so the invariant counts the calls that passed a check and are not
recorded: `Room` says that while any is in flight, the current month's rows and the
calls in flight stay below `Ceiling + |Procs|`, and `FutureIsEmpty` that months to
come have no rows, which is what lets a call be recorded in a month it was not
checked in.  Together they give `OvershootBounded` for any number of commands.
`DriftInv` bounds the requests by `MaxRetries` for every ledger row and every lost
row, and by the attempts made so far for each call in flight (`Tries`); one command
moves at a time, so a step changes one term of the sum, and `DriftBounded` follows
because no call makes more attempts than it may.

**ScoreRunsProofs.**  First the engine, for every tree of conditions and every valid
file.  Each recursive walk is shown to exist, by `RecursionExists`, and so to obey its
own definition.  `HoldsIfCheckable` is the heart of it: a valid condition that holds,
nested as it may be, either tests an absence or names a type that is known.  So a
rule that pays is one that counts as checkable, and as sums over more paying rules
are no less, `ScoreIsHonest` follows, rounding included.  Then the signals:
`LastIsCurrent` says that exactly the last row of a single-valued fact is not
superseded, and with it what a command reads is what the history says
(`CurrentIsHistory`), which no later row changes (`HistoryStays`).  Then a visit:
`Reading` and `Reporting` say that what was found is what the pages read say together
(`Merged`), and that what was asked for and what is left are pages of the site, none
twice and the homepage not again (`Asking`).

`ScoreInv` puts these together with what a command holds (`Computing`: its signals are
the history at `asOf`; every row saved before it began is as old or older; the review
counts it took have not been forgotten since) and what each saved row is (`Saved`).
None of the properties is inductive alone: `ScoresReproducible` needs the signals a
command holds, those need `LastIsCurrent`, and `ConfidenceNeverFalls` and
`OutdatedOnlyByOverlap` need that a command takes its rows, counts and signals in that
order.  `PersonSettlesAds` excludes a file whose manual check is about the size band,
which reviews stand in for without anybody answering.  `PaidAbsenceIsHistory` is about
the absence tests under `all`, where the default weights have theirs.

**FetchProofs.**  `Spent` bounds what a Get may have sent by where it stands: its
attempts before this one at `MaxRedirects` requests each, and what it is sending; it needs
that before the verdict a Get only asks for robots.txt, and that one that backs off
has an attempt left.  For the limiter, slots are numbered in the order they are
reserved.  `SlotInv` says of every host that slot *n* is not due before *n - 1*
intervals of the rate have passed, and, from the first slot a crawl delay governs on,
not before as many delays have passed since it was learned; that this holds of the
slot reserved next, of every slot a worker sleeps for, and of every slot used; and that
the delay in force is the one the limiter adds.  A reservation keeps it because the
next slot is counted from this one; a worker that wakes late keeps it because time has
only grown; a new delay keeps it because it governs none of the slots already taken.
`RequestsKept` says the same of the slot of every request under way, which is what a
redirect needs, and `SentKept` that a request is at most the `MaxRedirects`-th on its
slot.  `RateHeld` follows because the requests made by any moment are then pairs of one
of the first `1 + now \div Rate` slots and a number up to `MaxRedirects`.

`ForbiddenOnlyBlind` compares requests with what a file means, so it needs the reader
first.  A fold is a recursive function over its list: a `Trace` of its values is shown
to exist, element by element, and statements about a fold are proved along it.
`PatternsMatch`: by taking each segment at its leftmost place nothing is lost, since
any placement can be moved left segment by segment (`PlacedIsTaken`), and what was
taken is a placement (`TakenIsPlaced`).  `FilesAreObeyed`: after *k* lines every group
holds the agents and the rules of the lines that went to it (`GroupContents`), the
agents of a rule are those of the block before it (`AgentsOfGroup`), the longest token
that matches names one group (`GroupIsFound`), and the longest rule that applies, an
`Allow` before a `Disallow` of its length, is what the fold over them keeps
(`LongestDecides`).  Two groups opened by one token are excluded by `NoGroupTwice`:
for them the statement can fail, and section 5 says how.  `HeedInv` is then about the
client: an origin is recorded as having no file, and a Get has seen none, only if the
file was once asked for in vain; and a Get that asks for its page has seen something,
which allows it.

**StartupProofs.**  `StartInv` adds to the types and to `NeverHalfMigrated` what the open
transaction is about (`OpenTx`: its owner is in the loop over the migrations, has not
seen this version applied, and records it only after its last statement) and what a
command takes for applied (`OnRecord`: only what is on record, and everything its
release brings once it has started).  That two commands may be about to apply the same
version needs no invariant: the later one meets the first statement in the schema and
rolls back.  `BillsOnlyOnRequest` follows from how the settings resolve, whatever the
.env file says twice.

Only model-checked: liveness (`PoolDrains`, `GetsEnd`, `StartsInTheEnd`, `CommandsEnd`),
which the prover does not reach, and the violated properties, of which
`OnceReadObeyed` is the stronger claim that `ForbiddenOnlyBlind` leaves: that a file
once read is obeyed.

## 7. What is not modelled, and why

- Parsing HTML and matching the tag fingerprints, CSV parsing, name and URL
  normalization: text in, text out, covered by table tests.  The models take elements
  of a page, records and keys as given.
- Queries and decoding of the two APIs; headers, bodies and the time to live of a cache
  entry, of which only hit or miss matters here.
- Commands that only read (`list`, `export`, `brief`, `quota`), the wording of an
  explanation, logging.
- Secrets, paths and help texts of the configuration.
- What net/http does on its own, such as sending a request again on a fresh connection
  when a kept one turns out to be closed.
- SQLite itself: a transaction is atomic and durable, or fails whole; there is one
  writer at a time.
- Times.  Rows are ordered by id; that RFC3339Nano text does not sort
  chronologically within a second is a listed hazard.
- Enrich and Fetch are not composed: Enrich takes a site's readings as any of a set and
  a failure, which is all that a visit over Fetch can return.

## 8. What is left

- A per-command count of calls in ApiBudget, for the estimate of a dry run.
- Two visits of one site in `score_sessions`, if the state space is cut down: for
  instance with the report of a visit recorded in one step, which hides the cut-off
  report that the run is also about.
