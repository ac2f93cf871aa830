-------------------------------- MODULE Fetch --------------------------------
(***************************************************************************)
(* The crawler's HTTP client (internal/httpx/client.go, ratelimit.go,      *)
(* robots.go, cache.go): the workers of one command fetch pages, each Get  *)
(* consulting the robots.txt of the page's origin, the cache, and the      *)
(* limiter of its host, and trying again after 429, 5xx and transport      *)
(* errors.  The robots map and the limiter are shared; their mutexes make  *)
(* one step of each access, and nothing is held across a request.  The     *)
(* cache is filled by earlier commands and its entries expire, so that a   *)
(* lookup may hit or miss at any time.  What the pages say is left out.    *)
(***************************************************************************)
EXTENDS Robots

CONSTANTS
  Workers,      (* workers of the pool                                      *)
  Pages,        (* pages they fetch, each once                              *)
  Origins,      (* scheme://host                                            *)
  Hosts,
  OriginOf,     (* page -> origin                                           *)
  PathOf,       (* page -> path                                             *)
  QueryOf,      (* page -> query, empty if it has none                      *)
  HostOf,       (* origin -> host                                           *)
  RobotsFile,   (* origin -> the lines of its robots.txt                    *)
  Token,        (* our product token                                        *)
  Rate,         (* the interval every host is entitled to                   *)
  MaxRetries,   (* attempts at a page                                       *)
  MaxRedirects, (* requests of one attempt, the first among them            *)
  BaseBackoff,
  MaxBackoff,
  RetryAfters,  (* what a server may ask for, 0 if it says nothing          *)
  CachedRobots  (* what the cache may give for a robots.txt                 *)

ASSUME FetchAssumption ==
  /\ OriginOf \in [Pages -> Origins] /\ HostOf \in [Origins -> Hosts]
  /\ Rate \in Nat /\ MaxRetries \in Nat \ {0} /\ MaxRedirects \in Nat \ {0}
  /\ BaseBackoff \in Nat /\ MaxBackoff \in Nat /\ RetryAfters \subseteq Nat
  /\ CachedRobots \subseteq {"nil", "file"}

\* Any file, any token and any URL.
ASSUME RobotsAssumption ==
  /\ RobotsFile \in [Origins -> Seq(Line)]
  /\ Token \in Text /\ PathOf \in [Pages -> Text] /\ QueryOf \in [Pages -> Text]

Parsed == [o \in Origins |-> ParseRobots(RobotsFile[o])]

\* Faulty variant: the rules are matched against the path alone.
FaultyChecked(p) == IF PathOf[p] = <<>> THEN <<"/">> ELSE PathOf[p]

\* What the rules are matched against.
Checked(p) ==
  (IF PathOf[p] = <<>> THEN <<"/">> ELSE PathOf[p])
    \o (IF QueryOf[p] = <<>> THEN <<>> ELSE <<"?">> \o QueryOf[p])

Allowed == [p \in Pages |-> Allows(Parsed[OriginOf[p]], Token, Checked(p))]
AskedDelay == [o \in Origins |-> CrawlDelay(Parsed[o], Token)]

\* What a robots.txt is worth in the map: not looked at, nil, or parsed.
Reading == {"unknown", "nil", "file"}

Stage == {"idle", "lookup", "queue", "wait", "sent", "store", "verdict", "backoff"}

VARIABLES
  now,        (* the time                                                   *)
  next,       (* RateLimiter.next                                           *)
  perHost,    (* RateLimiter.perHost, 0 for a host without a delay          *)
  robots,     (* Client.robots                                              *)
  get,        (* how far each worker's Get is                               *)
  todo,       (* pages nobody has taken up                                  *)
  cancelled,  (* Ctrl-C                                                     *)
  slots,      (* host -> slots reserved so far                              *)
  sent,       (* host -> the requests made on its slots, each the slot and  *)
              (* how many it is after: 1, or more for a redirect            *)
  pace,       (* host -> the interval in force, since when, and the first   *)
              (* slot it governs                                            *)
  failed,     (* origins whose robots.txt was once asked for in vain: the   *)
              (* answer was not a 200, or there was none                    *)
  informed    (* origins whose robots.txt this process has read             *)

limiter == <<next, perHost, slots, pace>>
vars == <<now, robots, get, todo, cancelled, sent, failed, informed, limiter>>

Get == [stage : Stage, page : Pages, target : {"robots", "page"}, attempt : 1..MaxRetries,
        due : Nat, slot : Nat, seen : Reading, hops : 0 .. MaxRedirects - 1, hits : Nat,
        warned : BOOLEAN]

Origin(w) == OriginOf[get[w].page]
Host(w) == HostOf[Origin(w)]

Idle == [stage |-> "idle"]
Work(w, stage) == get' = [get EXCEPT ![w].stage = stage]
Return(w) == get' = [get EXCEPT ![w] = Idle]

Init ==
  /\ now = 0
  /\ next = [h \in Hosts |-> 0]
  /\ perHost = [h \in Hosts |-> 0]
  /\ robots = [o \in Origins |-> "unknown"]
  /\ get = [w \in Workers |-> Idle]
  /\ todo = Pages
  /\ cancelled = FALSE
  /\ slots = [h \in Hosts |-> 0]
  /\ sent = [h \in Hosts |-> {}]
  /\ pace = [h \in Hosts |-> [interval |-> Rate, since |-> 0, first |-> 1]]
  /\ failed = {}
  /\ informed = {}

----------------------------------------------------------------------------
(* RateLimiter.Wait.                                                       *)

Larger(a, b) == IF a >= b THEN a ELSE b
Interval(h) == Larger(Rate, perHost[h])
Earliest(h) == Larger(next[h], now)

\* Faulty variant: the next slot is counted from now, not from this slot.
FaultySlotAfter(h) == now + Interval(h)

SlotAfter(h) == Earliest(h) + Interval(h)

\* The slot is taken before the sleep, and stays taken if the sleep is cut.
Reserve(w) ==
  /\ get[w].stage = "queue"
  /\ LET h == Host(w)
     IN  /\ get' = [get EXCEPT ![w].stage = "wait", ![w].due = Earliest(h),
                               ![w].slot = slots[h] + 1]
         /\ next' = [next EXCEPT ![h] = SlotAfter(h)]
         /\ slots' = [slots EXCEPT ![h] = @ + 1]
  /\ UNCHANGED <<now, perHost, robots, todo, cancelled, sent, pace, failed, informed>>

----------------------------------------------------------------------------
(* do: one request, with the redirects the transport follows.              *)

Send(w) ==
  /\ get[w].stage = "wait"
  /\ get[w].due <= now
  /\ ~cancelled
  /\ get' = [get EXCEPT ![w].stage = "sent", ![w].due = 0, ![w].hops = 0, ![w].hits = @ + 1]
  /\ sent' = [sent EXCEPT ![Host(w)] = @ \cup {<<get[w].slot, 1>>}]
  /\ UNCHANGED <<now, robots, todo, cancelled, failed, informed, limiter>>

\* Faulty variant: CheckRedirect compares with > for >=.
FaultyMayFollow(w) == get[w].hops + 1 <= MaxRedirects

\* CheckRedirect: via holds the first request too.
MayFollow(w) == get[w].hops + 1 < MaxRedirects

\* Neither the robots.txt nor the limiter is asked again.
Redirect(w) ==
  /\ get[w].stage = "sent"
  /\ MayFollow(w)
  /\ get' = [get EXCEPT ![w].hops = @ + 1, ![w].hits = @ + 1]
  /\ sent' = [sent EXCEPT ![Host(w)] = @ \cup {<<get[w].slot, get[w].hops + 2>>}]
  /\ UNCHANGED <<now, robots, todo, cancelled, failed, informed, limiter>>

----------------------------------------------------------------------------
(* checkRobots and fetchRobots.                                            *)

\* Get on a page: what the map knows of its origin, read under the mutex.
Start(w) ==
  /\ get[w] = Idle
  /\ \E p \in todo :
       LET seen == robots[OriginOf[p]]
       IN  /\ get' = [get EXCEPT ![w] =
                        [stage |-> IF seen = "unknown" THEN "lookup" ELSE "verdict",
                         page |-> p, target |-> "robots", attempt |-> 1, due |-> 0,
                         slot |-> 0, seen |-> seen, hops |-> 0, hits |-> 0,
                         warned |-> OriginOf[p] \in informed]]
           /\ todo' = todo \ {p}
  /\ UNCHANGED <<now, robots, cancelled, sent, failed, informed, limiter>>

\* fetchRobots returns: a file, or nil for anything but a 200.
ReturnRobots(w, seen) ==
  /\ get' = [get EXCEPT ![w].stage = "store", ![w].seen = seen, ![w].slot = 0, ![w].hops = 0]
  /\ failed' = IF seen = "nil" THEN failed \cup {Origin(w)} ELSE failed

\* The crawl delay of a cached file is not handed to the limiter.
RobotsCached(w) ==
  /\ get[w].stage = "lookup"
  /\ \E seen \in CachedRobots : ReturnRobots(w, seen)
  /\ UNCHANGED <<now, robots, todo, cancelled, sent, informed, limiter>>

RobotsNotCached(w) ==
  /\ get[w].stage = "lookup"
  /\ Work(w, "queue")
  /\ UNCHANGED <<now, robots, todo, cancelled, sent, failed, informed, limiter>>

\* Faulty variant: a delay longer than the rate is not honoured.
FaultySetHostDelay(h, delay) ==
  /\ perHost' = [perHost EXCEPT ![h] = IF delay <= Rate THEN delay ELSE @]
  /\ pace' = [pace EXCEPT ![h] =
                [interval |-> Larger(Rate, delay), since |-> now, first |-> slots[h] + 1]]

\* The latest delay replaces an earlier one of the host, longer or not.
SetHostDelay(h, delay) ==
  /\ perHost' = [perHost EXCEPT ![h] = delay]
  /\ pace' = [pace EXCEPT ![h] =
                [interval |-> Larger(Rate, delay), since |-> now, first |-> slots[h] + 1]]

RobotsAnswered(w) ==
  /\ get[w].stage = "sent" /\ get[w].target = "robots"
  /\ \E seen \in {"nil", "file"} :
       /\ ReturnRobots(w, seen)
       /\ IF seen = "file" /\ AskedDelay[Origin(w)] > 0
            THEN SetHostDelay(Host(w), AskedDelay[Origin(w)])
            ELSE UNCHANGED <<perHost, pace>>
  /\ UNCHANGED <<now, next, robots, todo, cancelled, slots, sent, informed>>

\* One attempt only: any error leaves a nil.
RobotsFailed(w) ==
  /\ \/ get[w].stage = "sent"
     \/ get[w].stage = "wait" /\ cancelled
  /\ get[w].target = "robots"
  /\ ReturnRobots(w, "nil")
  /\ UNCHANGED <<now, robots, todo, cancelled, sent, informed, limiter>>

\* The worker that comes last decides what the map says from then on.
StoreRobots(w) ==
  /\ get[w].stage = "store"
  /\ robots' = [robots EXCEPT ![Origin(w)] = get[w].seen]
  /\ informed' = IF get[w].seen = "file" THEN informed \cup {Origin(w)} ELSE informed
  /\ Work(w, "verdict")
  /\ UNCHANGED <<now, todo, cancelled, sent, failed, limiter>>

----------------------------------------------------------------------------
(* Get and fetch.                                                          *)

Disallowed(w) == get[w].seen = "file" /\ ~Allowed[get[w].page]

Refuse(w) ==
  /\ get[w].stage = "verdict"
  /\ Disallowed(w)
  /\ Return(w)
  /\ UNCHANGED <<now, robots, todo, cancelled, sent, failed, informed, limiter>>

PageCached(w) ==
  /\ get[w].stage = "verdict"
  /\ ~Disallowed(w)
  /\ Return(w)
  /\ UNCHANGED <<now, robots, todo, cancelled, sent, failed, informed, limiter>>

PageNotCached(w) ==
  /\ get[w].stage = "verdict"
  /\ ~Disallowed(w)
  /\ get' = [get EXCEPT ![w].stage = "queue", ![w].target = "page"]
  /\ UNCHANGED <<now, robots, todo, cancelled, sent, failed, informed, limiter>>

PageAnswered(w) ==
  /\ get[w].stage = "sent" /\ get[w].target = "page"
  /\ Return(w)
  /\ UNCHANGED <<now, robots, todo, cancelled, sent, failed, informed, limiter>>

\* Doubled for every attempt after the first, up to the maximum.
Backoff(attempt) ==
  LET grown == BaseBackoff * 2 ^ (attempt - 1)
  IN  IF grown \in 0..MaxBackoff THEN grown ELSE MaxBackoff

\* Jitter over the upper half, unless the server says how long.
Delays(attempt) ==
  UNION {IF after > 0 THEN {after} ELSE (Backoff(attempt) \div 2) .. Backoff(attempt) :
           after \in RetryAfters}

\* Faulty variant: one attempt too many.
FaultyMayRetry(w) == get[w].attempt <= MaxRetries

MayRetry(w) == get[w].attempt < MaxRetries

\* 429, 5xx, a transport error, too many redirects or a broken body.
BackOff(w) ==
  /\ get[w].stage = "sent" /\ get[w].target = "page"
  /\ MayRetry(w)
  /\ \E delay \in Delays(get[w].attempt) :
       get' = [get EXCEPT ![w].stage = "backoff", ![w].due = now + delay,
                             ![w].slot = 0, ![w].hops = 0]
  /\ UNCHANGED <<now, robots, todo, cancelled, sent, failed, informed, limiter>>

TryAgain(w) ==
  /\ get[w].stage = "backoff"
  /\ get[w].due <= now
  /\ get' = [get EXCEPT ![w].stage = "queue", ![w].due = 0, ![w].attempt = @ + 1]
  /\ UNCHANGED <<now, robots, todo, cancelled, sent, failed, informed, limiter>>

\* Faulty variant: a wait for a slot that Ctrl-C cuts is not reported.
FaultyInterruptible(w) == cancelled /\ get[w].stage = "backoff"

Interruptible(w) == cancelled /\ get[w].stage \in {"wait", "sent", "backoff"}

GiveUp(w) ==
  /\ get[w].stage # "idle" /\ get[w].target = "page"
  /\ \/ get[w].stage = "sent" /\ get[w].attempt = MaxRetries
     \/ Interruptible(w)
  /\ Return(w)
  /\ UNCHANGED <<now, robots, todo, cancelled, sent, failed, informed, limiter>>

----------------------------------------------------------------------------
\* Time matters while somebody sleeps; a sleeper may wake late.
Tick ==
  /\ \E w \in Workers : get[w].stage \in {"wait", "backoff"} /\ get[w].due > now
  /\ now' = now + 1
  /\ UNCHANGED <<robots, get, todo, cancelled, sent, failed, informed, limiter>>

CtrlC ==
  /\ ~cancelled
  /\ cancelled' = TRUE
  /\ UNCHANGED <<now, robots, get, todo, sent, failed, informed, limiter>>

Robotic(w) ==
  \/ Start(w) \/ RobotsCached(w) \/ RobotsNotCached(w)
  \/ RobotsAnswered(w) \/ RobotsFailed(w) \/ StoreRobots(w)

Paging(w) ==
  \/ Refuse(w) \/ PageCached(w) \/ PageNotCached(w) \/ PageAnswered(w)
  \/ BackOff(w) \/ TryAgain(w) \/ GiveUp(w)

Step(w) == Reserve(w) \/ Send(w) \/ Redirect(w) \/ Robotic(w) \/ Paging(w)

Next == Tick \/ CtrlC \/ \E w \in Workers : Step(w)

Spec == Init /\ [][Next]_vars

\* Timers fire, the transport's timeout answers every request, and workers
\* are scheduled.
FairSpec == Spec /\ WF_vars(Tick) /\ \A w \in Workers : WF_vars(Step(w))

----------------------------------------------------------------------------
TypeOK ==
  /\ now \in Nat
  /\ next \in [Hosts -> Nat] /\ perHost \in [Hosts -> Nat] /\ slots \in [Hosts -> Nat]
  /\ pace \in [Hosts -> [interval : Nat, since : Nat, first : Nat]]
  /\ robots \in [Origins -> Reading]
  /\ get \in [Workers -> Get \cup {Idle}]
  /\ todo \subseteq Pages
  /\ cancelled \in BOOLEAN
  /\ sent \in [Hosts -> SUBSET (Nat \X Nat)]
  /\ failed \subseteq Origins /\ informed \subseteq Origins

\* However many workers share a host, and however late they wake, the requests
\* made on its slots by any moment, redirects included, fit the rate: one slot
\* at the start and one per interval, and one attempt on each (ratelimit.go:
\* Wait reserves before it sleeps; client.go: do, CheckRedirect).
RateHeld ==
  \A h \in Hosts : Rate > 0 => Cardinality(sent[h]) <= MaxRedirects * (1 + now \div Rate)

\* Once a crawl delay was read from the network, the slots reserved after it
\* are used no faster than it asks; what was queued before it may still follow
\* at the old pace (ratelimit.go: SetHostDelay, Wait).
PaceHeld ==
  \A h \in Hosts : \A request \in sent[h] :
    LET later == request[1] - pace[h].first
    IN  later >= 0 => later * pace[h].interval <= now - pace[h].since

\* What a request asks for, as a robots.txt spells it.
Spelled(p) ==
  LET question == IF QueryOf[p] # <<>> THEN <<"?">> ELSE <<>>
      path == IF PathOf[p] # <<>> THEN PathOf[p] ELSE <<"/">>
  IN  FlattenSeq(<<path, question, QueryOf[p]>>)

Forbidden == {p \in Pages : ~FileAllows(RobotsFile[OriginOf[p]], Token, Spelled(p))}

\* A page its robots.txt forbids, as the file reads and not as it was parsed,
\* is requested only if this process once asked for the file in vain
\* (client.go: Get, checkRobots).
ForbiddenOnlyBlind ==
  \A w \in Workers :
    /\ get[w] # Idle /\ get[w].target = "page"
    /\ get[w].stage \in {"queue", "wait", "sent"}
    /\ get[w].page \in Forbidden
    => Origin(w) \in failed

\* One Get attempts its robots.txt once and its page MaxRetries times, and no
\* attempt makes more than MaxRedirects requests, the first one included: the
\* client never does more on a caller's behalf (client.go: fetch, do,
\* CheckRedirect).
HitsBounded ==
  \A w \in Workers :
    get[w] # Idle => get[w].hits <= (1 + MaxRetries) * MaxRedirects

\* Every Get comes back, with a page or an error, Ctrl-C or not
\* (client.go: fetch; ratelimit.go: sleepCtx).
GetsEnd == \A w \in Workers : get[w] # Idle ~> get[w] = Idle

\* A page that the robots.txt of its origin forbids is never requested by a
\* Get that begins when the process has read that file (client.go: Get).
OnceReadObeyed ==
  \A w \in Workers :
    get[w].stage = "sent" /\ get[w].target = "page" /\ get[w].warned
    => get[w].page \notin Forbidden
=============================================================================
