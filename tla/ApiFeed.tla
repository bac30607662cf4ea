------------------------------ MODULE ApiFeed ------------------------------
(***************************************************************************)
(* How a commit of the indexer reaches a page that is open in a browser.   *)
(*                                                                         *)
(* After a commit the indexer raises the version that every cached query   *)
(* has in its key, then publishes one or two messages on a Redis channel.  *)
(* An API instance that is subscribed at that moment passes them to the    *)
(* browsers connected at that moment, over SSE; nothing is kept for those  *)
(* that are not, but a new connection starts with sync.required.  The page *)
(* refetches the queries a message names.  A request reads the version,    *)
(* looks for a cached answer, else queries the database and fills the      *)
(* cache; each of these is a step, and other visitors' requests run        *)
(* between them.                                                           *)
(*                                                                         *)
(* The database is, for each token, the number of commits about it.        *)
(***************************************************************************)
EXTENDS Integers, Sequences

CONSTANTS
    Tokens, Opened,         \* the tokens, and the one whose page may be open
    Pages, Events,          \* the queries and the events that are checked
    Handlers,               \* requests the API is serving at once
    Nothing,                \* no value, no handler, no token
    MaxCommits, MaxFaults, MaxVisits

\* The queries a page makes.  trades stands for holders too, token for candles
\* and tokens for the platform's statistics: their versions rise together.
Lists     == {"tokens", "portfolio"}
OfToken   == {"token", "trades"}
Queries   == Lists \cup OfToken \cup {"search"}
Cached(q) == q \in {"tokens", "token", "search"}
Sync      == "sync.required"

ASSUME FeedAssumption ==
    /\ Opened \in Tokens
    /\ Pages \subseteq Queries /\ Events \subseteq {"trade", "graduated", "fee"}
    /\ Nothing \notin Tokens \cup Handlers
    /\ MaxCommits \in Nat /\ MaxFaults \in Nat /\ MaxVisits \in Nat

VARIABLES
    db,
    indexer,                \* [pc, token, messages] of EventProcessorService.process
    version,                \* cache:version:*, 0 while the key does not exist
    cache,                  \* <<query, version>> -> value
    connected, inbox,       \* the browser's EventSource
    page,                   \* the query of the open page
    shown, stale, fetch,    \* its data, whether it must be fetched, by which request
    handler,                \* request -> [pc, query, version, value, floor]
    commits, faults, drops, visits,
    announced,              \* history: the database at the last invalidation
    unversioned, unheard    \* history: a commit that the page shows and no later
                            \* version, or no later message, covers

browser == <<connected, inbox, page, shown, stale, fetch>>
bounds  == <<commits, faults, drops, visits>>
history == <<announced, unversioned, unheard>>
vars    == <<db, indexer, version, cache, browser, handler, bounds, history>>

Idle == [pc |-> "idle", query |-> Nothing, version |-> 0, value |-> Nothing, floor |-> Nothing]
Rest == [pc |-> "idle", token |-> Nothing, messages |-> <<>>]

Init ==
    /\ db = [t \in Tokens |-> 0]
    /\ indexer = Rest
    /\ version \in {0, 1}
    /\ cache = <<>>
    /\ connected = TRUE /\ inbox = <<Sync>>
    /\ page \in Pages
    /\ shown = Nothing /\ stale = TRUE /\ fetch = Nothing
    /\ handler = [h \in Handlers |-> Idle]
    /\ commits = 0 /\ faults = 0 /\ drops = 0 /\ visits = 0
    /\ announced = db /\ unversioned = FALSE /\ unheard = FALSE

\* At most MaxFaults failures, broken connections included.
Fault == faults + drops < MaxFaults /\ faults' = faults + 1

\* What a query answers from a database.
Answer(q, d) == IF q \in OfToken THEN d[Opened] ELSE d
AtLeast(q, a, b) == IF q \in OfToken THEN a >= b ELSE \A t \in Tokens : a[t] >= b[t]

\* RealtimeSync: the lists are refetched on every message, a token's queries
\* only when the message names the token.
Refetches(q, m) == q \in Lists \/ (q \in OfToken /\ m = Opened)

---------------------------------------------------------------------------
\* The indexer, after the transaction.

\* realtimeEvents: one message names the token; the one about the platform's
\* statistics does so only after a fee and a graduation.
Messages(event, t) ==
    CASE event = "trade"     -> <<t, Nothing>>
      [] event = "graduated" -> <<t, t>>
      [] event = "fee"       -> <<t>>

\* The caches are invalidated before anything is published.
AfterCommit_Publish == "publish"
AfterCommit == "invalidate"

Commit(event, t) ==
    /\ indexer.pc = "idle"
    /\ commits < MaxCommits /\ commits' = commits + 1
    /\ db' = [db EXCEPT ![t] = @ + 1]
    /\ indexer' = [pc |-> AfterCommit, token |-> t, messages |-> Messages(event, t)]
    /\ UNCHANGED <<version, cache, browser, handler, faults, drops, visits, history>>

\* invalidateApiCaches: three counters in one MULTI.
InvalidateApiCaches ==
    /\ indexer.pc = "invalidate"
    /\ version' = version + 1
    /\ indexer' = [indexer EXCEPT !.pc = "publish"]
    /\ announced' = db
    /\ unversioned' = IF Refetches(page, indexer.token) THEN version = 0 ELSE unversioned
    /\ UNCHANGED <<db, cache, browser, handler, bounds, unheard>>

\* publish: whoever is not there misses it, the API instance whose subscriber
\* has just lost Redis as well, and its browsers do not learn of it.
Publish ==
    /\ indexer.pc = "publish"
    /\ LET m    == Head(indexer.messages)
           rest == Tail(indexer.messages)
       IN  /\ indexer' = IF rest = <<>> THEN Rest ELSE [indexer EXCEPT !.messages = rest]
           /\ \/ /\ connected /\ inbox' = Append(inbox, m)
                 /\ unheard' = (unheard /\ ~Refetches(page, m))
                 /\ UNCHANGED faults
              \/ /\ \/ ~connected /\ UNCHANGED faults
                    \/ connected /\ Fault
                 /\ UNCHANGED inbox
                 /\ unheard' = (unheard \/ Refetches(page, m))
    /\ UNCHANGED <<db, version, cache, connected, page, shown, stale, fetch, handler,
                   commits, drops, visits, announced, unversioned>>

\* Redis fails, or the process dies, after the commit.  The log is replayed,
\* answered "duplicate", and never announced.
IndexerFails ==
    /\ indexer.pc # "idle"
    /\ Fault
    /\ indexer' = Rest
    /\ unversioned' = (unversioned \/ (indexer.pc = "invalidate" /\ Refetches(page, indexer.token)))
    /\ unheard' = (unheard \/ \E i \in DOMAIN indexer.messages : Refetches(page, indexer.messages[i]))
    /\ UNCHANGED <<db, version, cache, browser, handler, commits, drops, visits, announced>>

---------------------------------------------------------------------------
\* Connections.

\* The SSE connection breaks with what was on it; EventSource connects again.
BrowserDrops ==
    /\ connected /\ faults + drops < MaxFaults /\ drops' = drops + 1
    /\ connected' = FALSE /\ inbox' = <<>>
    /\ unheard' = (unheard \/ \E i \in DOMAIN inbox : Refetches(page, inbox[i]))
    /\ UNCHANGED <<db, indexer, version, cache, page, shown, stale, fetch, handler,
                   commits, faults, visits, announced, unversioned>>
BrowserConnects ==
    /\ ~connected /\ connected' = TRUE /\ inbox' = <<Sync>>
    /\ unheard' = FALSE
    /\ UNCHANGED <<db, indexer, version, cache, page, shown, stale, fetch, handler,
                   bounds, announced, unversioned>>

---------------------------------------------------------------------------
\* The page.  invalidateQueries abandons a request under way (which the API
\* still finishes) and fetches again, but never abandons a first load.
FirstLoad == fetch # Nothing /\ shown = Nothing
Restarts_OnlyWhenIdle(m) == Refetches(page, m) /\ fetch = Nothing
Restarts(m) == Refetches(page, m) /\ ~FirstLoad

Receive ==
    /\ inbox # <<>>
    /\ inbox' = Tail(inbox)
    /\ \/ Restarts(Head(inbox)) /\ stale' = TRUE /\ fetch' = Nothing
       \/ ~Restarts(Head(inbox)) /\ UNCHANGED <<stale, fetch>>
    /\ unheard' = (unheard \/ /\ Refetches(page, Head(inbox)) /\ FirstLoad
                              /\ handler[fetch].floor # Answer(page, announced))
    /\ UNCHANGED <<db, indexer, version, cache, connected, page, shown, handler,
                   bounds, announced, unversioned>>

Asked(q) == [Idle EXCEPT !.pc = IF Cached(q) THEN "version" ELSE "query", !.query = q,
                         !.floor = Answer(q, announced)]

\* Which of the idle ones serves a request makes no difference.
Free == LET idle == {h \in Handlers : handler[h].pc = "idle"}
        IN  IF idle = {} THEN Nothing ELSE CHOOSE h \in idle : TRUE

StartFetch(h) ==
    /\ stale /\ fetch = Nothing /\ h = Free
    /\ stale' = FALSE /\ fetch' = h
    /\ handler' = [handler EXCEPT ![h] = Asked(page)]
    /\ UNCHANGED <<db, indexer, version, cache, connected, inbox, page, shown,
                   bounds, history>>

\* Another visitor asks for the same.
Visit(h) ==
    /\ Cached(page)
    /\ visits < MaxVisits /\ visits' = visits + 1
    /\ h = Free
    /\ handler' = [handler EXCEPT ![h] = Asked(page)]
    /\ UNCHANGED <<db, indexer, version, cache, browser, commits, faults, drops, history>>

---------------------------------------------------------------------------
\* A request: TokensService, SearchService, StatsService, WalletsService.

Serving(h, from, to) ==
    /\ handler[h].pc = from
    /\ handler' = [handler EXCEPT ![h] = to]
    /\ UNCHANGED <<db, indexer, version, bounds, history>>

\* getVersion answers "1" when there is no key.
VersionRead_Raw == version
VersionRead == IF version = 0 THEN 1 ELSE version
GetVersion(h) ==
    /\ Serving(h, "version", [handler[h] EXCEPT !.pc = "lookup", !.version = VersionRead])
    /\ UNCHANGED <<cache, browser>>

Entry_WithoutVersion(h) == <<handler[h].query, 1>>
Entry(h) == <<handler[h].query, handler[h].version>>
\* An entry may have reached the end of its time to live: always a miss.
GetJson(h) ==
    /\ \/ /\ Entry(h) \in DOMAIN cache
          /\ Serving(h, "lookup", [handler[h] EXCEPT !.pc = "respond", !.value = cache[Entry(h)]])
       \/ Serving(h, "lookup", [handler[h] EXCEPT !.pc = "query"])
    /\ UNCHANGED <<cache, browser>>

QueryDatabase(h) ==
    /\ Serving(h, "query", [handler[h] EXCEPT
            !.pc = IF Cached(handler[h].query) THEN "fill" ELSE "respond",
            !.value = Answer(handler[h].query, db)])
    /\ UNCHANGED <<cache, browser>>

\* setJson under the version that was read first.
FilledKey_CurrentVersion(h) == <<handler[h].query, VersionRead>>
FilledKey(h) == Entry(h)
SetJson(h) ==
    /\ Serving(h, "fill", [handler[h] EXCEPT !.pc = "respond"])
    /\ cache' = [k \in DOMAIN cache \cup {FilledKey(h)} |->
                    IF k = FilledKey(h) THEN handler[h].value ELSE cache[k]]
    /\ UNCHANGED browser

Respond(h) ==
    /\ Serving(h, "respond", Idle)
    /\ \/ fetch = h /\ shown' = handler[h].value /\ fetch' = Nothing
       \/ fetch # h /\ UNCHANGED <<shown, fetch>>
    /\ UNCHANGED <<cache, connected, inbox, page, stale>>

\* The request fails; the page asks again.
RequestFails(h) ==
    /\ handler[h].pc # "idle"
    /\ Fault
    /\ handler' = [handler EXCEPT ![h] = Idle]
    /\ \/ fetch = h /\ fetch' = Nothing /\ stale' = TRUE
       \/ fetch # h /\ UNCHANGED <<fetch, stale>>
    /\ UNCHANGED <<db, indexer, version, cache, connected, inbox, page, shown,
                   commits, drops, visits, history>>

Serve(h) == GetVersion(h) \/ GetJson(h) \/ QueryDatabase(h) \/ SetJson(h) \/ Respond(h)

Next ==
    \/ \E event \in Events, t \in Tokens : Commit(event, t)
    \/ InvalidateApiCaches \/ Publish \/ IndexerFails
    \/ BrowserDrops \/ BrowserConnects
    \/ Receive
    \/ \E h \in Handlers : StartFetch(h) \/ Visit(h) \/ Serve(h) \/ RequestFails(h)

\* Running processes go on, requests are served and connections come back:
\* the steps that are no commit, no visit and no failure.
Goes ==
    \/ InvalidateApiCaches \/ Publish \/ BrowserConnects \/ Receive
    \/ \E h \in Handlers : StartFetch(h) \/ Serve(h)

Fairness == WF_vars(Goes)

Spec == Init /\ [][Next]_vars /\ Fairness

---------------------------------------------------------------------------
\* Properties.

TypeOK ==
    /\ db \in [Tokens -> Nat] /\ announced \in [Tokens -> Nat]
    /\ indexer.pc \in {"idle", "invalidate", "publish"}
    /\ indexer.pc = "publish" => indexer.messages # <<>>
    /\ DOMAIN cache \subseteq Queries \X (Nat \ {0})
    /\ page \in Queries /\ fetch \in Handlers \cup {Nothing}
    /\ fetch # Nothing => handler[fetch].query = page /\ ~stale

\* What is cached under the current version contains every commit announced
\* before: no request that read the database too early can fill the cache of
\* a later version (the version is read first, in tokens.service.ts, and
\* raised after the commit, in process()).  The first version is excepted: an
\* absent key reads as 1 and its first increment is 1 too.
FreshUnderVersion ==
    \A k \in DOMAIN cache : k[2] = version /\ version > 1 =>
        AtLeast(k[1], cache[k], Answer(k[1], announced))

\* A request never answers with less than what was announced when it came in,
\* be the answer from the cache, filled by whichever request, or not.  The
\* first version is excepted as above.
AnswersCoverAnnounced ==
    \A h \in Handlers : handler[h].pc = "respond" =>
        \/ handler[h].version = 1 /\ Cached(handler[h].query)
        \/ AtLeast(handler[h].query, handler[h].value, handler[h].floor)

\* Nothing more will change what the page shows.
Quiet == indexer.pc = "idle" /\ inbox = <<>> /\ ~stale /\ fetch = Nothing

\* An open page is never left with old data: when nothing is under way it
\* shows the database, unless the last commit's announcement was lost where
\* nobody notices.  Lists survive broken connections; the queries of a token's
\* page are guaranteed only while the connection holds.
CurrentWhenQuiet ==
    Quiet /\ ~unversioned /\ ~unheard
        /\ (page \in Lists \/ (page \in OfToken /\ drops = 0))
    => shown = Answer(page, db)

\* And it gets there: the requests started by messages, failures and reconnects
\* come to an end, with the lists up to date.
ListsCatchUp ==
    page \in Lists => <>[](unversioned \/ unheard \/ shown = Answer(page, db))

---------------------------------------------------------------------------
\* docs/restart-recovery.md:32: "the web client invalidates its API queries
\* after API/Redis recovery": a page that has received sync.required and has
\* missed nothing since shows the database once all is quiet.
CurrentAfterRecovery ==
    Quiet /\ ~unversioned /\ ~unheard /\ page # "search" => shown = Answer(page, db)
=============================================================================
