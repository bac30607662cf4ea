---------------------------- MODULE ApiFeedProofs ----------------------------
(***************************************************************************)
(* What a browser is shown, for any number of tokens, requests, commits,   *)
(* visitors and failures.                                                  *)
(*                                                                         *)
(* An answer is compared with the database at the last announcement, so    *)
(* the invariant follows that database through everything that can carry   *)
(* an old one: the entries of the cache, the requests at each stage, and   *)
(* the messages that have not arrived.  Its heart is that the version is   *)
(* read before the database and raised after the commit: whatever is       *)
(* filled under the current version contains all that was announced, and   *)
(* whatever is filled under an older one contains all that a request which *)
(* still holds that version may ask for.                                   *)
(***************************************************************************)
EXTENDS ApiFeed, TLAPS

Values(q) == IF q \in OfToken THEN Nat ELSE [Tokens -> Nat]
Data      == Nat \cup [Tokens -> Nat] \cup {Nothing}
Message   == Tokens \cup {Nothing, Sync}
Zero      == [t \in Tokens |-> 0]
Databases == [Tokens -> Nat]

Stages   == {"idle", "version", "lookup", "query", "fill", "respond"}
Requests == [pc : Stages, query : Queries \cup {Nothing}, version : Nat, value : Data, floor : Data]

-----------------------------------------------------------------------------
(* Answers are ordered as the databases they come from.                    *)

LEMMA AnswerIsValue ==
    ASSUME NEW q \in Queries, NEW d \in Databases
    PROVE  Answer(q, d) \in Values(q)
  BY FeedAssumption DEF Answer, Values, Databases

LEMMA AnswersGrow ==
    ASSUME NEW q \in Queries, NEW d \in Databases, NEW e \in Databases,
           \A t \in Tokens : e[t] <= d[t]
    PROVE  AtLeast(q, Answer(q, d), Answer(q, e))
  BY FeedAssumption DEF Answer, AtLeast, Databases

LEMMA Reflexive ==
    ASSUME NEW q \in Queries, NEW a \in Values(q)
    PROVE  AtLeast(q, a, a)
  BY DEF Values, AtLeast

LEMMA Transitive ==
    ASSUME NEW q \in Queries, NEW a \in Values(q), NEW b \in Values(q), NEW c \in Values(q),
           AtLeast(q, a, b), AtLeast(q, b, c)
    PROVE  AtLeast(q, a, c)
  <1>1. CASE q \in OfToken
    BY <1>1 DEF Values, AtLeast
  <1>2. CASE q \notin OfToken
    <2>1. \A t \in Tokens : a[t] \in Nat /\ b[t] \in Nat /\ c[t] \in Nat
      BY <1>2 DEF Values
    <2> QED
      BY <1>2, <2>1 DEF AtLeast
  <1> QED
    BY <1>1, <1>2

LEMMA Antisymmetric ==
    ASSUME NEW q \in Queries, NEW a \in Values(q), NEW b \in Values(q),
           AtLeast(q, a, b), AtLeast(q, b, a)
    PROVE  a = b
  <1>1. CASE q \in OfToken
    BY <1>1 DEF Values, AtLeast
  <1>2. CASE q \notin OfToken
    <2>1. \A t \in Tokens : a[t] \in Nat /\ b[t] \in Nat /\ a[t] >= b[t] /\ b[t] >= a[t]
      BY <1>2 DEF Values, AtLeast
    <2>2. \A x, y \in Nat : x >= y /\ y >= x => x = y
      OBVIOUS
    <2>3. \A t \in Tokens : a[t] = b[t]
      BY <2>1, <2>2, Zenon
    <2> QED
      BY <1>2, <2>3 DEF Values
  <1> QED
    BY <1>1, <1>2

LEMMA NothingIsLess ==
    ASSUME NEW q \in Queries, NEW a \in Values(q)
    PROVE  AtLeast(q, a, Answer(q, Zero))
  BY FeedAssumption DEF Values, AtLeast, Answer, Zero

\* A commit that a query is refetched for changes its answer, so that nothing
\* asked for before it is the answer after it.
LEMMA CommitsShow ==
    ASSUME NEW q \in Queries, NEW d \in Databases, NEW e \in Databases, NEW t \in Tokens,
           e[t] < d[t], Refetches(q, t), NEW floor, AtLeast(q, Answer(q, e), floor)
    PROVE  floor # Answer(q, d)
  <1>1. CASE q \in OfToken
    <2>1. q \notin Lists
      BY <1>1 DEF OfToken, Lists
    <2>2. t = Opened
      BY <2>1 DEF Refetches
    <2> QED
      BY <1>1, <2>2 DEF Answer, AtLeast, Databases
  <1>2. CASE q \notin OfToken
    BY <1>2 DEF Answer, AtLeast, Databases
  <1> QED
    BY <1>1, <1>2

-----------------------------------------------------------------------------
(* Messages that are still to come.                                        *)

Asks(q, s) == \E i \in DOMAIN s : Refetches(q, s[i])

LEMMA AsksOfNone == \A q : ~ Asks(q, <<>>)
  BY DEF Asks

LEMMA AsksOfTail ==
    ASSUME NEW q, NEW s \in Seq(Message), s # <<>>
    PROVE  Asks(q, s) <=> Refetches(q, Head(s)) \/ Asks(q, Tail(s))
  <1>1. Len(s) \in Nat /\ Len(s) > 0 /\ DOMAIN s = 1 .. Len(s)
    OBVIOUS
  <1>2. /\ Head(s) = s[1] /\ Tail(s) \in Seq(Message) /\ DOMAIN Tail(s) = 1 .. Len(s) - 1
        /\ \A i \in 1 .. Len(s) - 1 : Tail(s)[i] = s[i + 1]
    BY <1>1
  <1>3. ASSUME Asks(q, s) PROVE Refetches(q, Head(s)) \/ Asks(q, Tail(s))
    <2>1. PICK i \in 1 .. Len(s) : Refetches(q, s[i])
      BY <1>1, <1>3 DEF Asks
    <2>2. i = 1 \/ (i - 1 \in 1 .. Len(s) - 1 /\ s[i] = Tail(s)[i - 1])
      BY <1>1, <1>2
    <2> QED
      BY <1>2, <2>1, <2>2 DEF Asks
  <1>4. ASSUME Asks(q, Tail(s)) PROVE Asks(q, s)
    <2>1. PICK i \in 1 .. Len(s) - 1 : Refetches(q, Tail(s)[i])
      BY <1>2, <1>4 DEF Asks
    <2>2. i + 1 \in DOMAIN s /\ s[i + 1] = Tail(s)[i]
      BY <1>1, <1>2
    <2> QED
      BY <2>1, <2>2 DEF Asks
  <1>5. ASSUME Refetches(q, Head(s)) PROVE Asks(q, s)
    BY <1>1, <1>2, <1>5 DEF Asks
  <1> QED
    BY <1>3, <1>4, <1>5

LEMMA AsksOfAppend ==
    ASSUME NEW q, NEW s \in Seq(Message), NEW m \in Message
    PROVE  Asks(q, Append(s, m)) <=> Asks(q, s) \/ Refetches(q, m)
  <1>1. /\ Len(s) \in Nat /\ DOMAIN s = 1 .. Len(s) /\ DOMAIN Append(s, m) = 1 .. Len(s) + 1
        /\ Append(s, m)[Len(s) + 1] = m
        /\ \A i \in 1 .. Len(s) : Append(s, m)[i] = s[i]
    OBVIOUS
  <1>2. \A i \in 1 .. Len(s) + 1 : i \in 1 .. Len(s) \/ i = Len(s) + 1
    BY <1>1
  <1> QED
    BY <1>1, <1>2 DEF Asks

-----------------------------------------------------------------------------
(* The invariant.                                                          *)

Known(q) == Answer(q, announced)
Now(q)   == Answer(q, db)

Types ==
    /\ db \in Databases /\ announced \in Databases
    /\ version \in Nat /\ page \in Queries /\ drops \in Nat
    /\ stale \in BOOLEAN /\ connected \in BOOLEAN
    /\ unversioned \in BOOLEAN /\ unheard \in BOOLEAN
    /\ indexer \in [pc : {"idle", "invalidate", "publish"}, token : Tokens \cup {Nothing},
                    messages : Seq(Message)]
    /\ inbox \in Seq(Message)
    /\ fetch \in Handlers \cup {Nothing}
    /\ handler \in [Handlers -> Requests]
    /\ DOMAIN cache \subseteq Queries \X (Nat \ {0})

\* What has been committed and not yet announced is one commit at most, which
\* the messages in hand are about.
IndexerInv ==
    /\ \A t \in Tokens : announced[t] <= db[t]
    /\ indexer.pc = "idle" <=> indexer.messages = <<>>
    /\ indexer.pc # "idle" => indexer.token \in Tokens
    /\ indexer.pc = "invalidate" =>
        /\ announced[indexer.token] < db[indexer.token]
        /\ \E i \in DOMAIN indexer.messages : indexer.messages[i] = indexer.token

\* The same for what the page shows, and: nothing it shows was announced at
\* the first version, unless a commit went without a version of its own.
VersionInv ==
    page # "search" /\ ~unversioned =>
        /\ Now(page) = Known(page) \/ (indexer.pc = "invalidate" /\ Refetches(page, indexer.token))
        /\ version > 1 \/ Known(page) = Answer(page, Zero)

CacheInv ==
    \A k \in DOMAIN cache :
        /\ k[2] <= VersionRead
        /\ cache[k] \in Values(k[1]) /\ AtLeast(k[1], Now(k[1]), cache[k])
        /\ k[2] = version /\ version > 1 => AtLeast(k[1], cache[k], Known(k[1]))

\* A request under way.
Asking(r) ==
    /\ r.query \in Queries
    /\ r.floor \in Values(r.query) /\ AtLeast(r.query, Known(r.query), r.floor)
    /\ r.pc \in {"version", "lookup", "fill"} => Cached(r.query)
Versioned(r) ==
    Cached(r.query) /\ r.pc # "version" =>
        /\ r.version \in 1 .. VersionRead
        /\ r.version = 1 /\ r.query = page /\ page # "search" /\ ~unversioned =>
                r.floor # Known(page) \/ Known(page) = Answer(page, Zero)
LooksUp(r) ==
    r.pc = "lookup" /\ r.version > 1 /\ <<r.query, r.version>> \in DOMAIN cache =>
        AtLeast(r.query, cache[<<r.query, r.version>>], r.floor)
Answers(r) ==
    /\ r.pc \in {"fill", "respond"} =>
        r.value \in Values(r.query) /\ AtLeast(r.query, Now(r.query), r.value)
    /\ r.pc = "fill" \/ (r.pc = "respond" /\ (Cached(r.query) => r.version > 1)) =>
        AtLeast(r.query, r.value, r.floor)
    /\ r.pc = "fill" /\ r.version = version /\ version > 1 =>
        AtLeast(r.query, r.value, Known(r.query))
Serves(r) == Asking(r) /\ Versioned(r) /\ LooksUp(r) /\ Answers(r)

\* What one request is about to put where another will look.
Feeds(g, h) ==
    /\ g.pc = "fill" /\ h.pc = "lookup"
    /\ g.query = h.query /\ g.version = h.version /\ h.version > 1

RequestInv ==
    /\ \A h \in Handlers : handler[h].pc # "idle" => Serves(handler[h])
    /\ \A g, h \in Handlers : Feeds(handler[g], handler[h]) =>
            AtLeast(handler[g].query, handler[g].value, handler[h].floor)

Pending == Asks(page, indexer.messages) \/ Asks(page, inbox)

Guaranteed ==
    ~unversioned /\ ~unheard /\ (page \in Lists \/ (page \in OfToken /\ drops = 0))

PageInv ==
    /\ connected \/ drops > 0
    /\ fetch # Nothing => handler[fetch].pc # "idle" /\ handler[fetch].query = page /\ ~stale
    /\ ~stale /\ fetch = Nothing => shown \in Values(page) /\ AtLeast(page, Now(page), shown)
    /\ Guaranteed => \/ Pending \/ stale
                     \/ fetch # Nothing /\ handler[fetch].floor = Known(page)
                     \/ fetch = Nothing /\ AtLeast(page, shown, Known(page))

IInv == Types /\ IndexerInv /\ VersionInv /\ CacheInv /\ RequestInv /\ PageInv

-----------------------------------------------------------------------------
LEMMA Announcements ==
    ASSUME IInv, NEW q \in Queries
    PROVE  /\ Known(q) \in Values(q) /\ Now(q) \in Values(q) /\ AtLeast(q, Now(q), Known(q))
           /\ \A a \in Values(q) : AtLeast(q, Known(q), a) => AtLeast(q, Now(q), a)
  <1>1. Known(q) \in Values(q) /\ Now(q) \in Values(q)
    BY AnswerIsValue DEF IInv, Types, Known, Now
  <1>2. AtLeast(q, Now(q), Known(q))
    BY AnswersGrow DEF IInv, Types, IndexerInv, Known, Now
  <1> QED
    BY <1>1, <1>2, Transitive

LEMMA ValuesAreData == \A q \in Queries : Values(q) \subseteq Data
  BY DEF Values, Data

LEMMA InitInv == Init => IInv
  <1> SUFFICES ASSUME Init PROVE IInv
    OBVIOUS
  <1>1. Types
    <2>1. Idle \in Requests
      BY DEF Idle, Requests, Stages, Data
    <2>2. <<>> \in Seq(Message) /\ <<Sync>> \in Seq(Message)
      BY DEF Message
    <2>3. DOMAIN cache = {}
      BY DEF Init
    <2>4. /\ stale \in BOOLEAN /\ connected \in BOOLEAN
          /\ unversioned \in BOOLEAN /\ unheard \in BOOLEAN
      BY DEF Init
    <2> QED
      BY <2>1, <2>2, <2>3, <2>4, FeedAssumption DEF Init, Types, Rest, Databases
  <1>2. IndexerInv
    BY DEF Init, IndexerInv, Rest
  <1>3. VersionInv
    BY DEF Init, VersionInv, Now, Known, Zero
  <1>4. CacheInv
    BY DEF Init, CacheInv
  <1>5. RequestInv
    BY DEF Init, RequestInv, Idle, Feeds
  <1>6. PageInv
    BY DEF Init, PageInv
  <1> QED
    BY <1>1, <1>2, <1>3, <1>4, <1>5, <1>6 DEF IInv

\* A step in which one request goes on and nothing it depends on changes.
LEMMA RequestStep ==
    ASSUME IInv, NEW h \in Handlers, NEW r \in Requests,
           handler' = [handler EXCEPT ![h] = r],
           UNCHANGED <<db, announced, version, page, unversioned, cache>>,
           r.pc # "idle" => Serves(r),
           \A g \in Handlers : g # h =>
                /\ Feeds(r, handler[g]) => AtLeast(r.query, r.value, handler[g].floor)
                /\ Feeds(handler[g], r) => AtLeast(handler[g].query, handler[g].value, r.floor)
    PROVE  CacheInv' /\ RequestInv'
  <1>1. CacheInv'
    BY DEF IInv, CacheInv, VersionRead, Known, Now
  <1>2. handler'[h] = r /\ \A g \in Handlers : g # h => handler'[g] = handler[g]
    BY DEF IInv, Types
  <1>3. \A q : Serves(q)' <=> Serves(q)
    BY DEF Serves, Asking, Versioned, LooksUp, Answers, Known, Now, VersionRead
  <1>4. ~ Feeds(r, r)
    BY DEF Feeds
  <1> QED
    BY <1>1, <1>2, <1>3, <1>4 DEF IInv, RequestInv

-----------------------------------------------------------------------------
(* The indexer.                                                            *)

\* The database moves ahead of what was announced; every answer given so far
\* remains one it contains.
LEMMA CommitInv ==
    ASSUME IInv, NEW event \in Events, NEW t \in Tokens, Commit(event, t)
    PROVE  IInv'
  <1>1. /\ indexer.pc = "idle" /\ db' = [db EXCEPT ![t] = @ + 1]
        /\ indexer' = [pc |-> "invalidate", token |-> t, messages |-> Messages(event, t)]
        /\ UNCHANGED <<version, cache, connected, inbox, page, shown, stale, fetch, handler, drops,
                       announced, unversioned, unheard>>
    BY DEF Commit, AfterCommit, browser, history
  <1>2. /\ db' \in Databases /\ \A u \in Tokens : db[u] <= db'[u]
        /\ \A u \in Tokens : u # t => db'[u] = db[u]
        /\ announced[t] < db'[t]
        /\ \A u \in Tokens : announced[u] <= db'[u]
    BY <1>1 DEF IInv, Types, IndexerInv, Databases
  <1>3. /\ Messages(event, t) \in Seq(Message) /\ Messages(event, t) # <<>>
        /\ \E i \in DOMAIN Messages(event, t) : Messages(event, t)[i] = t
    <2>1. event \in {"trade", "graduated", "fee"} /\ t \in Message /\ Nothing \in Message
      BY FeedAssumption DEF Message
    <2>2. /\ <<t, Nothing>> \in Seq(Message) /\ <<t, t>> \in Seq(Message) /\ <<t>> \in Seq(Message)
      BY <2>1
    <2>3. Messages(event, t) \in {<<t, Nothing>>, <<t, t>>, <<t>>}
      BY <2>1 DEF Messages
    <2>4. \A s \in {<<t, Nothing>>, <<t, t>>, <<t>>} : s # <<>> /\ 1 \in DOMAIN s /\ s[1] = t
      OBVIOUS
    <2> QED
      BY <2>2, <2>3, <2>4
  <1>4. Types'
    BY <1>1, <1>2, <1>3 DEF IInv, Types
  <1>5. IndexerInv'
    BY <1>1, <1>2, <1>3 DEF IndexerInv
  <1>6. \A q : Known(q)' = Known(q)
    BY <1>1 DEF Known
  <1>7. ASSUME NEW q \in Queries, NEW a \in Values(q), AtLeast(q, Now(q), a)
        PROVE  AtLeast(q, Now(q)', a)
    <2>1. AtLeast(q, Now(q)', Now(q))
      BY <1>2, AnswersGrow DEF IInv, Types, Now
    <2>2. Now(q)' \in Values(q) /\ Now(q) \in Values(q)
      BY <1>2, AnswerIsValue DEF IInv, Types, Now
    <2> QED
      BY <1>7, <2>1, <2>2, Transitive
  <1>8. VersionInv'
    <2>1. page # "search" => page \in Lists \cup OfToken
      BY DEF IInv, Types, Queries
    <2>2. page # "search" /\ ~ Refetches(page, t) => page \in OfToken /\ t # Opened
      BY <2>1 DEF Refetches
    <2>3. page # "search" /\ ~ Refetches(page, t) => Now(page)' = Now(page)
      BY <1>1, <1>2, <2>2, FeedAssumption DEF Now, Answer
    <2> QED
      BY <1>1, <1>6, <2>3 DEF IInv, VersionInv
  <1>9. CacheInv'
    BY <1>1, <1>6, <1>7 DEF IInv, Types, CacheInv, VersionRead
  <1>10. RequestInv'
    <2>1. ASSUME NEW r, Serves(r) PROVE Serves(r)'
      <3>1. Asking(r)' /\ Versioned(r)' /\ LooksUp(r)'
        BY <1>1, <1>6, <2>1 DEF Serves, Asking, Versioned, LooksUp, VersionRead
      <3>2. Answers(r)'
        BY <1>1, <1>6, <1>7, <2>1 DEF Serves, Asking, Answers
      <3> QED
        BY <3>1, <3>2 DEF Serves
    <2> QED
      BY <1>1, <2>1 DEF IInv, RequestInv, Feeds
  <1>11. PageInv'
    <2>1. Guaranteed' => Guaranteed
      BY <1>1 DEF Guaranteed
    <2>2. Pending => Pending'
      BY <1>1, AsksOfNone DEF IInv, IndexerInv, Pending
    <2> QED
      BY <1>1, <1>6, <1>7, <2>1, <2>2 DEF IInv, Types, PageInv
  <1> QED
    BY <1>4, <1>5, <1>8, <1>9, <1>10, <1>11 DEF IInv

\* What was the newest version is an old one, of which nothing more is asked
\* than was announced before.
LEMMA InvalidateInv ==
    ASSUME IInv, InvalidateApiCaches
    PROVE  IInv'
  <1> DEFINE t == indexer.token
  <1>1. /\ indexer.pc = "invalidate" /\ version' = version + 1
        /\ indexer' = [indexer EXCEPT !.pc = "publish"]
        /\ announced' = db
        /\ unversioned' = IF Refetches(page, t) THEN version = 0 ELSE unversioned
        /\ UNCHANGED <<db, cache, connected, inbox, page, shown, stale, fetch, handler, drops, unheard>>
    BY DEF InvalidateApiCaches, browser, bounds
  <1>2. /\ indexer'.pc = "publish" /\ indexer'.token = t /\ indexer'.messages = indexer.messages
        /\ t \in Tokens /\ announced[t] < db[t] /\ indexer.messages # <<>>
        /\ \E i \in DOMAIN indexer.messages : indexer.messages[i] = t
    BY <1>1 DEF IInv, Types, IndexerInv
  <1>3. Types'
    <2>1. unversioned' \in BOOLEAN
      BY <1>1 DEF IInv, Types
    <2>2. version' \in Nat /\ announced' \in Databases
      BY <1>1 DEF IInv, Types
    <2>3. /\ indexer' \in [pc : {"idle", "invalidate", "publish"}, token : Tokens \cup {Nothing},
                            messages : Seq(Message)]
      BY <1>1 DEF IInv, Types
    <2> QED
      BY <1>1, <2>1, <2>2, <2>3 DEF IInv, Types
  <1>4. IndexerInv'
    BY <1>1, <1>2 DEF IInv, Types, IndexerInv, Databases
  <1>5. \A q : Known(q)' = Now(q) /\ Now(q)' = Now(q)
    BY <1>1 DEF Known, Now
  <1>6. page # "search" /\ ~unversioned /\ ~Refetches(page, t) =>
            Now(page) = Known(page) /\ (version > 1 \/ Known(page) = Answer(page, Zero))
    BY DEF IInv, VersionInv
  <1>7. VersionInv'
    <2>1. version \in Nat /\ unversioned \in BOOLEAN
      BY DEF IInv, Types
    <2>2. CASE Refetches(page, t)
      <3>1. unversioned' = (version = 0)
        BY <1>1, <2>2
      <3>2. version' = version + 1
        BY <1>1
      <3>3. version # 0 => version' > 1
        BY <2>1, <3>2
      <3>4. ~unversioned' => version' > 1
        BY <3>1, <3>3, Zenon
      <3> QED
        BY <1>5, <3>4 DEF VersionInv
    <2>3. CASE ~Refetches(page, t)
      <3>1. unversioned' = unversioned
        BY <1>1, <2>3
      <3> QED
        BY <1>1, <1>5, <1>6, <2>1, <2>3, <3>1 DEF VersionInv
    <2> QED
      BY <2>2, <2>3
  <1>8. version \in Nat /\ VersionRead' = version + 1 /\ VersionRead \in Nat
        /\ VersionRead <= version + 1 /\ (version + 1 > 1 => VersionRead < version + 1)
    BY <1>1 DEF IInv, Types, VersionRead
  <1>9. CacheInv'
    <2>1. \A k \in DOMAIN cache : k[2] \in Nat
      BY DEF IInv, Types
    <2> QED
      BY <1>1, <1>5, <1>8, <2>1 DEF IInv, CacheInv
  <1>10. RequestInv'
    <2>1. ASSUME NEW r, Serves(r) PROVE Serves(r)'
      <3>1. Asking(r)'
        BY <1>5, <2>1, Announcements DEF Serves, Asking
      <3>2. Versioned(r)'
        <4>1. r.version \in 1 .. VersionRead => r.version \in 1 .. VersionRead'
          BY <1>8
        <4>2. ASSUME r.query = page, page # "search", ~unversioned', Refetches(page, t)
              PROVE  r.floor # Now(page)
          BY <1>2, <2>1, <4>2, CommitsShow DEF Serves, Asking, IInv, Types, Known, Now
        <4> QED
          BY <1>1, <1>5, <1>6, <2>1, <4>1, <4>2 DEF Serves, Versioned
      <3>3. LooksUp(r)'
        BY <1>1, <2>1 DEF Serves, LooksUp
      <3>4. Answers(r)'
        <4>1. r.pc = "fill" => r.version \in 1 .. VersionRead
          BY <2>1 DEF Serves, Asking, Versioned
        <4> QED
          BY <1>1, <1>5, <1>8, <2>1, <4>1 DEF Serves, Answers
      <3> QED
        BY <3>1, <3>2, <3>3, <3>4 DEF Serves
    <2> QED
      BY <1>1, <2>1 DEF IInv, RequestInv, Feeds
  <1>11. PageInv'
    <2>1. CASE Refetches(page, t)
      <3>1. Pending'
        BY <1>1, <1>2, <2>1 DEF Pending, Asks
      <3> QED
        BY <1>1, <1>5, <3>1 DEF IInv, PageInv
    <2>2. CASE ~Refetches(page, t)
      <3>1. Guaranteed' => Guaranteed /\ page # "search" /\ ~unversioned
        BY <1>1, <2>2 DEF Guaranteed, Lists, OfToken
      <3>2. Pending' <=> Pending
        BY <1>1, <1>2 DEF Pending
      <3> QED
        BY <1>1, <1>5, <1>6, <2>2, <3>1, <3>2 DEF IInv, PageInv
    <2> QED
      BY <2>1, <2>2
  <1> QED
    BY <1>3, <1>4, <1>7, <1>9, <1>10, <1>11 DEF IInv

\* A step of messages and connections: requests and caches do not notice.
LEMMA Unnoticed ==
    ASSUME IInv, UNCHANGED <<db, announced, version, cache, handler, page>>,
           unversioned => unversioned'
    PROVE  CacheInv' /\ RequestInv'
  <1>1. CacheInv'
    BY DEF IInv, CacheInv, VersionRead, Known, Now
  <1>2. ASSUME NEW r, Serves(r) PROVE Serves(r)'
    <2>1. Asking(r)' /\ LooksUp(r)' /\ Answers(r)'
      BY <1>2 DEF Serves, Asking, LooksUp, Answers, Known, Now
    <2>2. Versioned(r)'
      BY <1>2 DEF Serves, Versioned, Known, VersionRead
    <2> QED
      BY <2>1, <2>2 DEF Serves
  <1> QED
    BY <1>1, <1>2 DEF IInv, RequestInv, Feeds

LEMMA RestIsRecord ==
    /\ Rest \in [pc : {"idle", "invalidate", "publish"}, token : Tokens \cup {Nothing},
                 messages : Seq(Message)]
    /\ Rest.pc = "idle" /\ Rest.messages = <<>>
  BY DEF Rest

\* The head of the messages is on the connection, or a later one is still in
\* hand, or it is lost and counted as such.
LEMMA PublishInv ==
    ASSUME IInv, Publish
    PROVE  IInv'
  <1> DEFINE m == Head(indexer.messages)
             rest == Tail(indexer.messages)
  <1>1. /\ indexer.pc = "publish"
        /\ indexer' = IF rest = <<>> THEN Rest ELSE [indexer EXCEPT !.messages = rest]
        /\ UNCHANGED <<db, version, cache, connected, page, shown, stale, fetch, handler, drops,
                       announced, unversioned>>
    BY DEF Publish
  <1>2. \/ inbox' = Append(inbox, m) /\ (~unheard' => ~unheard \/ Refetches(page, m))
           /\ unheard' \in BOOLEAN
        \/ inbox' = inbox /\ (~unheard' => ~unheard /\ ~Refetches(page, m)) /\ unheard' \in BOOLEAN
    BY DEF Publish
  <1>3. /\ indexer.messages \in Seq(Message) /\ indexer.messages # <<>> /\ inbox \in Seq(Message)
        /\ indexer.token \in Tokens
    BY <1>1 DEF IInv, Types, IndexerInv
  <1>4. m \in Message /\ rest \in Seq(Message)
    BY <1>3
  <1>5. Asks(page, indexer.messages) <=> Refetches(page, m) \/ Asks(page, rest)
    BY <1>3, AsksOfTail
  <1> HIDE DEF m, rest
  <1>6. /\ indexer' \in [pc : {"idle", "invalidate", "publish"}, token : Tokens \cup {Nothing},
                         messages : Seq(Message)]
        /\ indexer'.messages = rest
        /\ indexer'.pc # "invalidate"
        /\ indexer'.pc = "idle" <=> rest = <<>>
        /\ indexer'.pc # "idle" => indexer'.token \in Tokens
    <2>1. indexer \in [pc : {"idle", "invalidate", "publish"}, token : Tokens \cup {Nothing},
                        messages : Seq(Message)]
      BY DEF IInv, Types
    <2>2. CASE rest = <<>>
      BY <1>1, <2>2, RestIsRecord
    <2>3. CASE rest # <<>>
      BY <1>1, <1>3, <1>4, <2>1, <2>3
    <2> QED
      BY <2>2, <2>3
  <1>7. inbox' \in Seq(Message)
    <2>1. Append(inbox, m) \in Seq(Message)
      BY <1>3, <1>4
    <2> QED
      BY <1>2, <1>3, <2>1
  <1>8. Types'
    <2>1. unheard' \in BOOLEAN
      BY <1>2
    <2> QED
      BY <1>1, <1>6, <1>7, <2>1 DEF IInv, Types
  <1>9. IndexerInv'
    BY <1>1, <1>6 DEF IInv, IndexerInv
  <1>10. VersionInv'
    BY <1>1 DEF IInv, VersionInv, Now, Known
  <1>11. CacheInv' /\ RequestInv'
    BY <1>1, Unnoticed
  <1>12. PageInv'
    <2>1. CASE inbox' = Append(inbox, m) /\ (~unheard' => ~unheard \/ Refetches(page, m))
      <3>1. Asks(page, inbox') <=> Asks(page, inbox) \/ Refetches(page, m)
        BY <1>3, <1>4, <2>1, AsksOfAppend
      <3>2. Pending \/ Refetches(page, m) => Pending'
        BY <1>1, <1>5, <1>6, <3>1 DEF Pending
      <3>3. Guaranteed' => Guaranteed \/ Pending'
        BY <1>1, <2>1, <3>2 DEF Guaranteed
      <3> QED
        BY <1>1, <3>2, <3>3 DEF IInv, PageInv, Known, Now
    <2>2. CASE inbox' = inbox /\ (~unheard' => ~unheard /\ ~Refetches(page, m))
      <3>1. Guaranteed' => Guaranteed /\ ~Refetches(page, m)
        BY <1>1, <2>2 DEF Guaranteed
      <3>2. Pending /\ ~Refetches(page, m) => Pending'
        BY <1>1, <1>5, <1>6, <2>2 DEF Pending
      <3> QED
        BY <1>1, <3>1, <3>2 DEF IInv, PageInv, Known, Now
    <2> QED
      BY <1>2, <2>1, <2>2
  <1> QED
    BY <1>8, <1>9, <1>10, <1>11, <1>12 DEF IInv

LEMMA IndexerFailsInv ==
    ASSUME IInv, IndexerFails
    PROVE  IInv'
  <1>1. /\ indexer' = Rest
        /\ UNCHANGED <<db, version, cache, connected, inbox, page, shown, stale, fetch, handler, drops,
                       announced>>
    BY DEF IndexerFails, browser
  <1>2. /\ unversioned' \in BOOLEAN /\ unheard' \in BOOLEAN
        /\ ~unversioned' => ~unversioned /\ ~(indexer.pc = "invalidate" /\ Refetches(page, indexer.token))
        /\ ~unheard' => ~unheard /\ ~Asks(page, indexer.messages)
    BY DEF IndexerFails, Asks
  <1>3. Types'
    BY <1>1, <1>2, RestIsRecord DEF IInv, Types
  <1>4. IndexerInv'
    BY <1>1, RestIsRecord DEF IInv, IndexerInv
  <1>5. VersionInv'
    BY <1>1, <1>2 DEF IInv, VersionInv, Now, Known
  <1>6. CacheInv' /\ RequestInv'
    BY <1>1, <1>2, Unnoticed
  <1>7. PageInv'
    <2>1. Guaranteed' => Guaranteed /\ ~Asks(page, indexer.messages)
      BY <1>1, <1>2 DEF Guaranteed
    <2>2. Pending /\ ~Asks(page, indexer.messages) => Pending'
      BY <1>1 DEF Pending
    <2> QED
      BY <1>1, <2>1, <2>2 DEF IInv, PageInv, Known, Now
  <1> QED
    BY <1>3, <1>4, <1>5, <1>6, <1>7 DEF IInv

-----------------------------------------------------------------------------
(* Connections and the page.                                               *)

LEMMA BrowserDropsInv ==
    ASSUME IInv, BrowserDrops
    PROVE  IInv'
  <1>1. /\ drops' = drops + 1 /\ connected' = FALSE /\ inbox' = <<>>
        /\ UNCHANGED <<db, indexer, version, cache, page, shown, stale, fetch, handler,
                       announced, unversioned>>
    BY DEF BrowserDrops
  <1>2. unheard' \in BOOLEAN /\ (~unheard' => ~unheard /\ ~Asks(page, inbox))
    BY DEF BrowserDrops, Asks
  <1>3. drops \in Nat /\ drops' \in Nat /\ drops' > 0
    BY <1>1 DEF IInv, Types
  <1>4. Types'
    <2>1. <<>> \in Seq(Message)
      OBVIOUS
    <2> QED
      BY <1>1, <1>2, <1>3, <2>1 DEF IInv, Types
  <1>5. IndexerInv' /\ VersionInv'
    BY <1>1 DEF IInv, IndexerInv, VersionInv, Now, Known
  <1>6. CacheInv' /\ RequestInv'
    BY <1>1, Unnoticed
  <1>7. PageInv'
    <2>1. Guaranteed' => Guaranteed /\ ~Asks(page, inbox)
      BY <1>1, <1>2, <1>3 DEF Guaranteed
    <2>2. Pending /\ ~Asks(page, inbox) => Pending'
      BY <1>1 DEF Pending
    <2> QED
      BY <1>1, <1>3, <2>1, <2>2 DEF IInv, PageInv, Known, Now
  <1> QED
    BY <1>4, <1>5, <1>6, <1>7 DEF IInv

\* Only lists are refetched by sync.required, and only they are guaranteed
\* after a broken connection.
LEMMA BrowserConnectsInv ==
    ASSUME IInv, BrowserConnects
    PROVE  IInv'
  <1>1. /\ ~connected /\ connected' = TRUE /\ inbox' = <<Sync>> /\ unheard' = FALSE
        /\ UNCHANGED <<db, indexer, version, cache, page, shown, stale, fetch, handler, drops,
                       announced, unversioned>>
    BY DEF BrowserConnects, bounds
  <1>2. <<Sync>> \in Seq(Message) /\ 1 \in DOMAIN <<Sync>> /\ <<Sync>>[1] = Sync
    BY DEF Message
  <1>3. Types'
    <2>1. connected' \in BOOLEAN /\ unheard' \in BOOLEAN
      BY <1>1
    <2> QED
      BY <1>1, <1>2, <2>1 DEF IInv, Types
  <1>4. IndexerInv' /\ VersionInv'
    BY <1>1 DEF IInv, IndexerInv, VersionInv, Now, Known
  <1>5. CacheInv' /\ RequestInv'
    BY <1>1, Unnoticed
  <1>6. PageInv'
    <2>1. drops > 0
      BY <1>1 DEF IInv, PageInv
    <2>2. Guaranteed' => page \in Lists
      BY <1>1, <2>1 DEF Guaranteed
    <2>3. page \in Lists => Pending'
      BY <1>1, <1>2 DEF Pending, Asks, Refetches
    <2> QED
      BY <1>1, <2>1, <2>2, <2>3 DEF IInv, PageInv, Known, Now
  <1> QED
    BY <1>3, <1>4, <1>5, <1>6 DEF IInv

\* A message that names the query is answered by fetching again, or finds a
\* first load that was asked for after its commit, or is lost on one that was
\* not.
LEMMA ReceiveInv ==
    ASSUME IInv, Receive
    PROVE  IInv'
  <1> DEFINE m == Head(inbox)
  <1>1. /\ inbox # <<>> /\ inbox' = Tail(inbox)
        /\ UNCHANGED <<db, indexer, version, cache, connected, page, shown, handler, drops,
                       announced, unversioned>>
    BY DEF Receive, bounds
  <1>2. \/ stale' = TRUE /\ fetch' = Nothing
        \/ ~Restarts(m) /\ UNCHANGED <<stale, fetch>>
    BY DEF Receive
  <1>3. /\ unheard' \in BOOLEAN
        /\ ~unheard' => ~unheard /\ (Refetches(page, m) /\ FirstLoad => handler[fetch].floor = Known(page))
    BY DEF Receive, Known
  <1>4. inbox \in Seq(Message) /\ Tail(inbox) \in Seq(Message)
    BY <1>1 DEF IInv, Types
  <1>5. Asks(page, inbox) <=> Refetches(page, m) \/ Asks(page, inbox')
    BY <1>1, <1>4, AsksOfTail
  <1> HIDE DEF m
  <1>6. Types'
    <2>1. stale' \in BOOLEAN /\ fetch' \in Handlers \cup {Nothing}
      BY <1>2 DEF IInv, Types
    <2> QED
      BY <1>1, <1>3, <1>4, <2>1 DEF IInv, Types
  <1>7. IndexerInv' /\ VersionInv'
    BY <1>1 DEF IInv, IndexerInv, VersionInv, Now, Known
  <1>8. CacheInv' /\ RequestInv'
    BY <1>1, Unnoticed
  <1>9. PageInv'
    <2>1. CASE stale' = TRUE /\ fetch' = Nothing
      BY <1>1, <2>1 DEF IInv, PageInv
    <2>2. CASE ~Restarts(m) /\ UNCHANGED <<stale, fetch>>
      <3>1. Guaranteed' => Guaranteed
        BY <1>1, <1>3 DEF Guaranteed
      <3>2. Guaranteed' /\ Refetches(page, m) => fetch # Nothing /\ handler[fetch].floor = Known(page)
        BY <1>3, <2>2 DEF Guaranteed, Restarts, FirstLoad
      <3>3. Pending /\ ~Refetches(page, m) => Pending'
        BY <1>1, <1>5 DEF Pending
      <3> QED
        BY <1>1, <2>2, <3>1, <3>2, <3>3 DEF IInv, PageInv, Known, Now
    <2> QED
      BY <1>2, <2>1, <2>2
  <1> QED
    BY <1>6, <1>7, <1>8, <1>9 DEF IInv

-----------------------------------------------------------------------------
(* Requests.                                                               *)

\* What is the same in every step of a request.
LEMMA RestHolds ==
    ASSUME IInv, handler' \in [Handlers -> Requests], stale' \in BOOLEAN,
           fetch' \in Handlers \cup {Nothing}, DOMAIN cache' \subseteq Queries \X (Nat \ {0}),
           UNCHANGED <<db, indexer, version, connected, inbox, page, drops, announced,
                       unversioned, unheard>>
    PROVE  /\ Types' /\ IndexerInv' /\ VersionInv'
           /\ Guaranteed' <=> Guaranteed
           /\ Pending' <=> Pending
           /\ \A q : Known(q)' = Known(q) /\ Now(q)' = Now(q)
  <1>1. Types'
    BY DEF IInv, Types
  <1>2. IndexerInv'
    BY DEF IInv, IndexerInv
  <1>3. \A q : Known(q)' = Known(q) /\ Now(q)' = Now(q)
    BY DEF Known, Now
  <1>4. VersionInv'
    BY <1>3 DEF IInv, VersionInv
  <1> QED
    BY <1>1, <1>2, <1>3, <1>4 DEF Guaranteed, Pending

\* A request at `stage` for the query q.
Started(a, stage, q, floor) ==
    a \in Requests /\ a.pc = stage /\ a.query = q /\ a.floor = floor

LEMMA AskedIsRequest ==
    ASSUME IInv, NEW q \in Queries
    PROVE  /\ Asked(q) \in Requests /\ Serves(Asked(q))
           /\ Asked(q).pc \in {"version", "query"} /\ Asked(q).query = q /\ Asked(q).floor = Known(q)
  <1> DEFINE r == Asked(q)
  <1>1. Known(q) \in Values(q) /\ Known(q) \in Data
    BY Announcements, ValuesAreData
  <1>2. ASSUME NEW stage \in Stages, NEW floor \in Data
        PROVE  Started([Idle EXCEPT !.pc = stage, !.query = q, !.floor = floor], stage, q, floor)
    <2>1. Idle \in Requests
      BY DEF Idle, Requests, Stages, Data
    <2> QED
      BY <2>1 DEF Started, Requests
  <1>3. /\ r \in Requests /\ r.pc = IF Cached(q) THEN "version" ELSE "query"
        /\ r.query = q /\ r.floor = Known(q)
    <2> DEFINE stage == IF Cached(q) THEN "version" ELSE "query"
    <2>1. stage \in Stages
      BY DEF Stages
    <2>2. r = [Idle EXCEPT !.pc = stage, !.query = q, !.floor = Known(q)]
      BY DEF Asked, Known
    <2> HIDE DEF stage, r
    <2>3. Started(r, stage, q, Known(q))
      BY <1>1, <1>2, <2>1, <2>2
    <2> QED
      BY <2>3 DEF Started, stage
  <1> HIDE DEF r
  <1>4. r.pc \in {"version", "query"} /\ (Cached(q) => r.pc = "version") /\ (r.pc = "version" => Cached(q))
    BY <1>3
  <1>5. Asking(r)
    BY <1>1, <1>3, <1>4, Reflexive DEF Asking
  <1>6. Versioned(r) /\ LooksUp(r) /\ Answers(r)
    BY <1>3, <1>4 DEF Versioned, LooksUp, Answers
  <1> QED
    BY <1>3, <1>4, <1>5, <1>6 DEF Serves, r

LEMMA FreeIsIdle ==
    ASSUME NEW h \in Handlers, h = Free
    PROVE  handler[h].pc = "idle"
  <1> DEFINE idle == {g \in Handlers : handler[g].pc = "idle"}
  <1>1. CASE idle = {}
    BY <1>1, FeedAssumption DEF Free
  <1>2. CASE idle # {}
    <2>1. h = CHOOSE g \in idle : TRUE
      BY <1>2 DEF Free
    <2>2. h \in idle
      BY <1>2, <2>1
    <2> QED
      BY <2>2
  <1> QED
    BY <1>1, <1>2

LEMMA StartFetchInv ==
    ASSUME IInv, NEW h \in Handlers, StartFetch(h)
    PROVE  IInv'
  <1> DEFINE r == Asked(page)
  <1>1. /\ stale' = FALSE /\ fetch' = h /\ handler' = [handler EXCEPT ![h] = r]
        /\ UNCHANGED <<db, indexer, version, cache, connected, inbox, page, shown, drops,
                       announced, unversioned, unheard>>
    BY DEF StartFetch, bounds, history
  <1>2. page \in Queries
    BY DEF IInv, Types
  <1>3. /\ r \in Requests /\ Serves(r)
        /\ r.pc \in {"version", "query"} /\ r.query = page /\ r.floor = Known(page)
    BY <1>2, AskedIsRequest
  <1> HIDE DEF r
  <1>4. handler' \in [Handlers -> Requests] /\ handler'[h] = r
    BY <1>1, <1>3 DEF IInv, Types
  <1>5. CacheInv' /\ RequestInv'
    BY <1>1, <1>3, RequestStep DEF Feeds
  <1>6. /\ Types' /\ IndexerInv' /\ VersionInv'
        /\ \A q : Known(q)' = Known(q) /\ Now(q)' = Now(q)
    BY <1>1, <1>4, RestHolds DEF IInv, Types
  <1>7. PageInv'
    <2>1. h # Nothing
      BY FeedAssumption
    <2> QED
      BY <1>1, <1>3, <1>4, <1>6, <2>1 DEF IInv, PageInv
  <1> QED
    BY <1>5, <1>6, <1>7 DEF IInv

\* The page is not served by a request that a visitor can be given.
LEMMA VisitInv ==
    ASSUME IInv, NEW h \in Handlers, Visit(h)
    PROVE  IInv'
  <1> DEFINE r == Asked(page)
  <1>1. /\ handler' = [handler EXCEPT ![h] = r] /\ h = Free
        /\ UNCHANGED <<db, indexer, version, cache, connected, inbox, page, shown, stale, fetch, drops,
                       announced, unversioned, unheard>>
    BY DEF Visit, browser, history
  <1>2. page \in Queries
    BY DEF IInv, Types
  <1>3. r \in Requests /\ Serves(r) /\ r.pc \in {"version", "query"}
    BY <1>2, AskedIsRequest
  <1> HIDE DEF r
  <1>4. /\ handler' \in [Handlers -> Requests]
        /\ \A g \in Handlers : g # h => handler'[g] = handler[g]
    BY <1>1, <1>3 DEF IInv, Types
  <1>5. CacheInv' /\ RequestInv'
    BY <1>1, <1>3, RequestStep DEF Feeds
  <1>6. /\ Types' /\ IndexerInv' /\ VersionInv'
        /\ Guaranteed' <=> Guaranteed
        /\ Pending' <=> Pending
        /\ \A q : Known(q)' = Known(q) /\ Now(q)' = Now(q)
    BY <1>1, <1>4, RestHolds DEF IInv, Types
  <1>7. PageInv'
    <2>1. fetch # Nothing => fetch \in Handlers /\ fetch # h
      BY <1>1, FreeIsIdle DEF IInv, Types, PageInv
    <2> QED
      BY <1>1, <1>4, <1>6, <2>1 DEF IInv, PageInv
  <1> QED
    BY <1>5, <1>6, <1>7 DEF IInv

\* A step within a request.
LEMMA ServingInv ==
    ASSUME IInv, NEW h \in Handlers, NEW r \in Requests,
           handler[h].pc # "idle", handler' = [handler EXCEPT ![h] = r],
           UNCHANGED <<db, indexer, version, cache, connected, inbox, page, shown, stale, fetch, drops,
                       announced, unversioned, unheard>>,
           r.pc # "idle", r.query = handler[h].query, r.floor = handler[h].floor,
           Serves(r),
           \A g \in Handlers : g # h =>
                /\ Feeds(r, handler[g]) => AtLeast(r.query, r.value, handler[g].floor)
                /\ Feeds(handler[g], r) => AtLeast(handler[g].query, handler[g].value, r.floor)
    PROVE  IInv'
  <1>1. /\ handler' \in [Handlers -> Requests] /\ handler'[h] = r
        /\ \A g \in Handlers : g # h => handler'[g] = handler[g]
    BY DEF IInv, Types
  <1>2. CacheInv' /\ RequestInv'
    BY RequestStep
  <1>3. /\ Types' /\ IndexerInv' /\ VersionInv'
        /\ Guaranteed' <=> Guaranteed
        /\ Pending' <=> Pending
        /\ \A q : Known(q)' = Known(q) /\ Now(q)' = Now(q)
    BY <1>1, RestHolds DEF IInv, Types
  <1>4. PageInv'
    <2>1. fetch # Nothing => fetch \in Handlers
      BY DEF IInv, Types
    <2>2. fetch # Nothing => /\ handler'[fetch].pc # "idle"
                             /\ handler'[fetch].query = handler[fetch].query
                             /\ handler'[fetch].floor = handler[fetch].floor
      BY <1>1, <2>1 DEF IInv, PageInv
    <2> QED
      BY <1>3, <2>2 DEF IInv, PageInv
  <1> QED
    BY <1>2, <1>3, <1>4 DEF IInv

LEMMA Underway ==
    ASSUME IInv, NEW h \in Handlers, handler[h].pc # "idle"
    PROVE  /\ handler[h] \in Requests /\ Serves(handler[h])
           /\ handler[h].query \in Queries /\ handler[h].floor \in Values(handler[h].query)
           /\ \A a \in Values(handler[h].query) :
                AtLeast(handler[h].query, a, Known(handler[h].query)) =>
                    AtLeast(handler[h].query, a, handler[h].floor)
  <1>1. handler[h] \in Requests /\ Serves(handler[h])
    BY DEF IInv, Types, RequestInv
  <1>2. /\ handler[h].query \in Queries /\ handler[h].floor \in Values(handler[h].query)
        /\ AtLeast(handler[h].query, Known(handler[h].query), handler[h].floor)
    BY <1>1 DEF Serves, Asking
  <1> QED
    BY <1>1, <1>2, Announcements, Transitive

\* The version is read before anything else: what is under it, or is about to
\* be, contains all that was announced so far.
LEMMA GetVersionInv ==
    ASSUME IInv, NEW h \in Handlers, GetVersion(h)
    PROVE  IInv'
  <1> DEFINE old == handler[h]
             r == [old EXCEPT !.pc = "lookup", !.version = VersionRead]
  <1>1. /\ old.pc = "version" /\ handler' = [handler EXCEPT ![h] = r]
        /\ UNCHANGED <<db, indexer, version, cache, connected, inbox, page, shown, stale, fetch, drops,
                       announced, unversioned, unheard>>
    BY DEF GetVersion, Serving, browser, bounds, history
  <1>2. /\ old \in Requests /\ Serves(old) /\ old.query \in Queries
        /\ \A a \in Values(old.query) :
                AtLeast(old.query, a, Known(old.query)) => AtLeast(old.query, a, old.floor)
    BY <1>1, Underway
  <1>3. VersionRead \in Nat /\ VersionRead >= 1 /\ (VersionRead > 1 => VersionRead = version)
        /\ (version > 1 => VersionRead > 1)
    BY DEF IInv, Types, VersionRead
  <1>4. /\ r \in Requests /\ r.pc = "lookup" /\ r.version = VersionRead
        /\ r.query = old.query /\ r.floor = old.floor
    BY <1>2, <1>3 DEF Requests, Stages
  <1>5. Asking(old) /\ Cached(old.query)
    BY <1>1, <1>2 DEF Serves, Asking
  <1> HIDE DEF old, r
  <1>6. Asking(r)
    BY <1>4, <1>5 DEF Asking
  <1>7. Versioned(r)
    <2>1. VersionRead = 1 /\ page # "search" /\ ~unversioned => Known(page) = Answer(page, Zero)
      BY <1>3 DEF IInv, VersionInv
    <2> QED
      BY <1>3, <1>4, <2>1 DEF Versioned
  <1>8. LooksUp(r)
    <2> SUFFICES ASSUME r.version > 1, <<r.query, r.version>> \in DOMAIN cache
                 PROVE  AtLeast(r.query, cache[<<r.query, r.version>>], r.floor)
      BY DEF LooksUp
    <2> DEFINE k == <<r.query, r.version>>
    <2>1. k \in DOMAIN cache /\ k[1] = r.query /\ k[2] = r.version
      OBVIOUS
    <2> HIDE DEF k
    <2>2. k[2] = version /\ version > 1
      BY <1>3, <1>4, <2>1
    <2>3. cache[k] \in Values(r.query) /\ AtLeast(r.query, cache[k], Known(r.query))
      BY <2>1, <2>2 DEF IInv, CacheInv
    <2> QED
      BY <1>2, <1>4, <2>3 DEF k
  <1>9. Answers(r)
    BY <1>4 DEF Answers
  <1>10. ASSUME NEW g \in Handlers, Feeds(handler[g], r)
         PROVE  AtLeast(handler[g].query, handler[g].value, r.floor)
    <2>1. /\ handler[g].pc = "fill" /\ handler[g].query = r.query
          /\ handler[g].version = version /\ version > 1
      BY <1>3, <1>4, <1>10 DEF Feeds
    <2>2. Serves(handler[g])
      BY <2>1, Underway
    <2> QED
      BY <1>2, <1>4, <2>1, <2>2 DEF Serves, Answers
  <1>11. \A g \in Handlers : ~ Feeds(r, handler[g])
    BY <1>4 DEF Feeds
  <1>12. /\ handler[h].pc # "idle" /\ r.query = handler[h].query /\ r.floor = handler[h].floor
         /\ r.pc # "idle" /\ Serves(r)
    BY <1>1, <1>4, <1>6, <1>7, <1>8, <1>9 DEF Serves, old
  <1> QED
    BY <1>1, <1>4, <1>10, <1>11, <1>12, ServingInv

\* A hit answers what some request put under this version, a miss goes on.
LEMMA GetJsonInv ==
    ASSUME IInv, NEW h \in Handlers, GetJson(h)
    PROVE  IInv'
  <1> DEFINE old == handler[h]
             hit == [old EXCEPT !.pc = "respond", !.value = cache[Entry(h)]]
             miss == [old EXCEPT !.pc = "query"]
  <1>1. /\ old.pc = "lookup"
        /\ UNCHANGED <<db, indexer, version, cache, connected, inbox, page, shown, stale, fetch, drops,
                       announced, unversioned, unheard>>
        /\ \/ Entry(h) \in DOMAIN cache /\ handler' = [handler EXCEPT ![h] = hit]
           \/ handler' = [handler EXCEPT ![h] = miss]
    BY DEF GetJson, Serving, browser, bounds, history
  <1>2. /\ old \in Requests /\ Serves(old) /\ old.query \in Queries /\ Cached(old.query)
    BY <1>1, Underway DEF Serves, Asking
  <1>3. CASE Entry(h) \in DOMAIN cache /\ handler' = [handler EXCEPT ![h] = hit]
    <2>1. /\ Entry(h) = <<old.query, old.version>> /\ Entry(h)[1] = old.query
          /\ cache[Entry(h)] \in Values(old.query)
          /\ AtLeast(old.query, Now(old.query), cache[Entry(h)])
      <3>1. Entry(h) = <<old.query, old.version>> /\ Entry(h)[1] = old.query
        BY DEF Entry
      <3> QED
        BY <1>3, <3>1 DEF IInv, CacheInv
    <2>2. old.version > 1 => AtLeast(old.query, cache[Entry(h)], old.floor)
      BY <1>1, <1>2, <1>3, <2>1 DEF Serves, LooksUp
    <2>3. /\ hit \in Requests /\ hit.pc = "respond" /\ hit.query = old.query
          /\ hit.floor = old.floor /\ hit.version = old.version /\ hit.value = cache[Entry(h)]
      <3>1. cache[Entry(h)] \in Data
        BY <1>2, <2>1, ValuesAreData
      <3> QED
        BY <1>2, <3>1 DEF Requests, Stages
    <2> HIDE DEF old, hit
    <2>4. Asking(hit) /\ Versioned(hit) /\ LooksUp(hit)
      BY <1>1, <1>2, <2>3 DEF Serves, Asking, Versioned, LooksUp
    <2>5. Answers(hit)
      BY <1>2, <2>1, <2>2, <2>3 DEF Answers
    <2>6. \A g \in Handlers : ~Feeds(hit, handler[g]) /\ ~Feeds(handler[g], hit)
      BY <2>3 DEF Feeds
    <2>7. /\ handler[h].pc # "idle" /\ hit.query = handler[h].query /\ hit.floor = handler[h].floor
          /\ hit.pc # "idle" /\ Serves(hit)
      BY <1>1, <2>3, <2>4, <2>5 DEF Serves, old
    <2> QED
      BY <1>1, <1>3, <2>3, <2>6, <2>7, ServingInv
  <1>4. CASE handler' = [handler EXCEPT ![h] = miss]
    <2>1. /\ miss \in Requests /\ miss.pc = "query" /\ miss.query = old.query
          /\ miss.floor = old.floor /\ miss.version = old.version
      BY <1>2 DEF Requests, Stages
    <2> HIDE DEF old, miss
    <2>2. Asking(miss) /\ Versioned(miss) /\ LooksUp(miss) /\ Answers(miss)
      BY <1>1, <1>2, <2>1 DEF Serves, Asking, Versioned, LooksUp, Answers
    <2>3. \A g \in Handlers : ~Feeds(miss, handler[g]) /\ ~Feeds(handler[g], miss)
      BY <2>1 DEF Feeds
    <2>4. /\ handler[h].pc # "idle" /\ miss.query = handler[h].query /\ miss.floor = handler[h].floor
          /\ miss.pc # "idle" /\ Serves(miss)
      BY <1>1, <2>1, <2>2 DEF Serves, old
    <2> QED
      BY <1>1, <1>4, <2>1, <2>3, <2>4, ServingInv
  <1> QED
    BY <1>1, <1>3, <1>4

\* The database contains all that was announced, and so all that anybody who
\* is looking for the same answer may ask for.
LEMMA QueryDatabaseInv ==
    ASSUME IInv, NEW h \in Handlers, QueryDatabase(h)
    PROVE  IInv'
  <1> DEFINE old == handler[h]
             stage == IF Cached(old.query) THEN "fill" ELSE "respond"
             r == [old EXCEPT !.pc = stage, !.value = Answer(old.query, db)]
  <1>1. /\ old.pc = "query" /\ handler' = [handler EXCEPT ![h] = r]
        /\ UNCHANGED <<db, indexer, version, cache, connected, inbox, page, shown, stale, fetch, drops,
                       announced, unversioned, unheard>>
    BY DEF QueryDatabase, Serving, browser, bounds, history
  <1>2. /\ old \in Requests /\ Serves(old) /\ old.query \in Queries
        /\ old.floor \in Values(old.query)
    BY <1>1, Underway
  <1>3. /\ Now(old.query) \in Values(old.query) /\ Now(old.query) \in Data
        /\ AtLeast(old.query, Now(old.query), Now(old.query))
        /\ AtLeast(old.query, Now(old.query), Known(old.query))
        /\ AtLeast(old.query, Now(old.query), old.floor)
    BY <1>1, <1>2, Announcements, ValuesAreData, Underway, Reflexive
  <1>4. stage \in Stages /\ stage \in {"fill", "respond"} /\ (stage = "fill" <=> Cached(old.query))
    BY DEF Stages
  <1>5. /\ r \in Requests /\ r.pc = stage /\ r.query = old.query /\ r.version = old.version
        /\ r.floor = old.floor /\ r.value = Now(old.query)
    <2> HIDE DEF stage
    <2>1. r = [old EXCEPT !.pc = stage, !.value = Now(old.query)]
      BY DEF Now
    <2> HIDE DEF r
    <2> QED
      BY <1>2, <1>3, <1>4, <2>1 DEF Requests
  <1> HIDE DEF old, stage, r
  <1>6. Asking(r) /\ Versioned(r) /\ LooksUp(r)
    BY <1>1, <1>2, <1>4, <1>5 DEF Serves, Asking, Versioned, LooksUp
  <1>7. Answers(r)
    BY <1>3, <1>4, <1>5 DEF Answers
  <1>8. ASSUME NEW g \in Handlers, Feeds(r, handler[g])
        PROVE  AtLeast(r.query, r.value, handler[g].floor)
    <2>1. handler[g].pc = "lookup" /\ handler[g].query = r.query
      BY <1>8 DEF Feeds
    <2>2. /\ handler[g].floor \in Values(r.query) /\ AtLeast(r.query, Known(r.query), handler[g].floor)
      BY <2>1, Underway DEF Serves, Asking
    <2> QED
      BY <1>2, <1>5, <2>2, Announcements
  <1>9. \A g \in Handlers : ~Feeds(handler[g], r)
    BY <1>4, <1>5 DEF Feeds
  <1>10. /\ handler[h].pc # "idle" /\ r.query = handler[h].query /\ r.floor = handler[h].floor
         /\ r.pc # "idle" /\ Serves(r)
    BY <1>1, <1>4, <1>5, <1>6, <1>7 DEF Serves, old
  <1> QED
    BY <1>1, <1>5, <1>8, <1>9, <1>10, ServingInv

\* The entry is under the version that was read first: if that is still the
\* current one, nothing was announced since.
LEMMA SetJsonInv ==
    ASSUME IInv, NEW h \in Handlers, SetJson(h)
    PROVE  IInv'
  <1> DEFINE old == handler[h]
             r == [old EXCEPT !.pc = "respond"]
             key == <<old.query, old.version>>
  <1>1. /\ old.pc = "fill" /\ handler' = [handler EXCEPT ![h] = r]
        /\ cache' = [k \in DOMAIN cache \cup {key} |-> IF k = key THEN old.value ELSE cache[k]]
        /\ UNCHANGED <<db, indexer, version, connected, inbox, page, shown, stale, fetch, drops,
                       announced, unversioned, unheard>>
    BY DEF SetJson, Serving, FilledKey, Entry, browser, bounds, history
  <1>2. old \in Requests /\ Serves(old) /\ old.query \in Queries /\ Cached(old.query)
    BY <1>1, Underway DEF Serves, Asking
  <1>3. /\ old.version \in 1 .. VersionRead /\ VersionRead \in Nat
        /\ old.value \in Values(old.query) /\ AtLeast(old.query, Now(old.query), old.value)
        /\ AtLeast(old.query, old.value, old.floor)
        /\ old.version = version /\ version > 1 => AtLeast(old.query, old.value, Known(old.query))
    BY <1>1, <1>2 DEF Serves, Versioned, Answers, IInv, Types, VersionRead
  <1>4. /\ r \in Requests /\ r.pc = "respond" /\ r.query = old.query /\ r.version = old.version
        /\ r.floor = old.floor /\ r.value = old.value
    BY <1>2 DEF Requests, Stages
  <1>5. /\ handler' \in [Handlers -> Requests] /\ handler'[h] = r
        /\ \A g \in Handlers : g # h => handler'[g] = handler[g]
    BY <1>1, <1>4 DEF IInv, Types
  <1>6. /\ DOMAIN cache' = DOMAIN cache \cup {key} /\ cache'[key] = old.value
        /\ \A k \in DOMAIN cache : k # key => cache'[k] = cache[k]
        /\ key[1] = old.query /\ key[2] = old.version
    BY <1>1
  <1>7. key \in Queries \X (Nat \ {0})
    BY <1>2, <1>3
  <1> HIDE DEF r, old
  <1>8. /\ Types' /\ IndexerInv' /\ VersionInv'
        /\ Guaranteed' <=> Guaranteed
        /\ Pending' <=> Pending
        /\ \A q : Known(q)' = Known(q) /\ Now(q)' = Now(q)
    <2>1. DOMAIN cache' \subseteq Queries \X (Nat \ {0})
      BY <1>6, <1>7 DEF IInv, Types
    <2> QED
      BY <1>1, <1>5, <2>1, RestHolds DEF IInv, Types
  <1>9. VersionRead' = VersionRead
    BY <1>1 DEF VersionRead
  <1>10. CacheInv'
    <2> SUFFICES ASSUME NEW k \in DOMAIN cache'
                 PROVE  /\ k[2] <= VersionRead
                        /\ cache'[k] \in Values(k[1]) /\ AtLeast(k[1], Now(k[1]), cache'[k])
                        /\ k[2] = version /\ version > 1 => AtLeast(k[1], cache'[k], Known(k[1]))
      BY <1>1, <1>8, <1>9 DEF CacheInv
    <2>1. CASE k = key
      <3> HIDE DEF key
      <3> QED
        BY <1>3, <1>6, <2>1
    <2>2. CASE k # key
      <3> HIDE DEF key
      <3> QED
        BY <1>6, <2>2 DEF IInv, CacheInv
    <2> QED
      BY <2>1, <2>2
  <1>11. ASSUME NEW x, x = r
         PROVE  Serves(x)'
    <2>1. Asking(x)' /\ Versioned(x)' /\ LooksUp(x)'
      BY <1>1, <1>2, <1>4, <1>8, <1>9, <1>11 DEF Serves, Asking, Versioned, LooksUp
    <2>2. Answers(x)'
      BY <1>1, <1>3, <1>4, <1>8, <1>11 DEF Answers
    <2> QED
      BY <2>1, <2>2 DEF Serves
  <1>12. Serves(handler[h])'
    BY <1>5, <1>11 DEF Serves, Asking, Versioned, LooksUp, Answers
  <1>13. ASSUME NEW g \in Handlers, g # h, handler[g].pc # "idle"
         PROVE  Serves(handler[g])'
    <2>1. Serves(handler[g])
      BY <1>13, Underway
    <2>2. handler'[g] = handler[g]
      BY <1>5, <1>13
    <2>3. Asking(handler[g])' /\ Versioned(handler[g])' /\ Answers(handler[g])'
      BY <1>1, <1>8, <1>9, <2>1, <2>2 DEF Serves, Asking, Versioned, Answers
    <2>4. LooksUp(handler[g])'
      <3> DEFINE o == handler[g]
                 k == <<o.query, o.version>>
      <3> SUFFICES ASSUME o.pc = "lookup", o.version > 1, k \in DOMAIN cache'
                   PROVE  AtLeast(o.query, cache'[k], o.floor)
        BY <2>2 DEF LooksUp
      <3>1. CASE k = key
        <4>1. old.query = o.query /\ old.version = o.version
          BY <3>1
        <4>2. Feeds(old, o)
          BY <1>1, <4>1 DEF Feeds
        <4>3. AtLeast(old.query, old.value, o.floor)
          BY <1>13, <4>2 DEF IInv, RequestInv, old
        <4> QED
          BY <1>6, <3>1, <4>1, <4>3
      <3>2. CASE k # key
        <4>1. k \in DOMAIN cache /\ cache'[k] = cache[k]
          BY <1>6, <3>2
        <4> QED
          BY <2>1, <4>1 DEF Serves, LooksUp
      <3> QED
        BY <3>1, <3>2
    <2> QED
      BY <2>3, <2>4 DEF Serves
  <1>14. RequestInv'
    <2>1. \A g \in Handlers : handler'[g].pc # "idle" => Serves(handler[g])'
      BY <1>5, <1>12, <1>13
    <2>2. \A g \in Handlers : ~Feeds(r, handler'[g]) /\ ~Feeds(handler'[g], r)
      BY <1>4 DEF Feeds
    <2> QED
      BY <1>5, <2>1, <2>2 DEF IInv, RequestInv, Feeds
  <1>15. PageInv'
    <2>1. fetch # Nothing => fetch \in Handlers
      BY DEF IInv, Types
    <2>2. fetch # Nothing => /\ handler'[fetch].pc # "idle"
                             /\ handler'[fetch].query = handler[fetch].query
                             /\ handler'[fetch].floor = handler[fetch].floor
      BY <1>4, <1>5, <2>1 DEF IInv, PageInv, old
    <2> QED
      BY <1>1, <1>8, <2>2 DEF IInv, PageInv
  <1> QED
    BY <1>8, <1>10, <1>14, <1>15 DEF IInv

\* A request that ends takes nothing with it.
LEMMA EndedRequest ==
    ASSUME IInv, NEW h \in Handlers, handler' = [handler EXCEPT ![h] = Idle],
           UNCHANGED <<db, announced, version, page, unversioned, cache>>
    PROVE  /\ CacheInv' /\ RequestInv' /\ handler' \in [Handlers -> Requests]
           /\ \A g \in Handlers : g # h => handler'[g] = handler[g]
  <1>1. Idle \in Requests /\ Idle.pc = "idle"
    BY DEF Idle, Requests, Stages, Data
  <1>2. \A g \in Handlers : ~Feeds(Idle, handler[g]) /\ ~Feeds(handler[g], Idle)
    BY <1>1 DEF Feeds
  <1> QED
    BY <1>1, <1>2, RequestStep DEF IInv, Types

\* What the page is shown is what was asked for: the announced database, if
\* no commit was announced since it asked.
LEMMA RespondInv ==
    ASSUME IInv, NEW h \in Handlers, Respond(h)
    PROVE  IInv'
  <1> DEFINE old == handler[h]
  <1>1. /\ old.pc = "respond" /\ handler' = [handler EXCEPT ![h] = Idle]
        /\ UNCHANGED <<db, indexer, version, cache, connected, inbox, page, stale, drops,
                       announced, unversioned, unheard>>
        /\ \/ fetch = h /\ shown' = old.value /\ fetch' = Nothing
           \/ fetch # h /\ UNCHANGED <<shown, fetch>>
    BY DEF Respond, Serving, bounds, history
  <1>2. /\ Serves(old) /\ old.query \in Queries /\ old.value \in Values(old.query)
        /\ AtLeast(old.query, Now(old.query), old.value)
    BY <1>1, Underway DEF Serves, Answers
  <1> HIDE DEF old
  <1>3. /\ CacheInv' /\ RequestInv' /\ handler' \in [Handlers -> Requests]
        /\ \A g \in Handlers : g # h => handler'[g] = handler[g]
    BY <1>1, EndedRequest
  <1>4. /\ Types' /\ IndexerInv' /\ VersionInv'
        /\ Guaranteed' <=> Guaranteed
        /\ Pending' <=> Pending
        /\ \A q : Known(q)' = Known(q) /\ Now(q)' = Now(q)
    <2>1. fetch' \in Handlers \cup {Nothing} /\ stale' \in BOOLEAN
      BY <1>1 DEF IInv, Types
    <2> QED
      BY <1>1, <1>3, <2>1, RestHolds DEF IInv, Types
  <1>5. CASE fetch = h
    <2>1. shown' = old.value /\ fetch' = Nothing /\ h # Nothing
      BY <1>1, <1>5, FeedAssumption
    <2>2. old.query = page
      BY <1>5, <2>1 DEF IInv, PageInv, old
    <2>3. ASSUME Guaranteed, old.floor = Known(page)
          PROVE  AtLeast(page, old.value, Known(page))
      <3>1. CASE Cached(page) => old.version > 1
        BY <1>1, <1>2, <2>2, <2>3, <3>1 DEF Serves, Answers
      <3>2. CASE Cached(page) /\ ~(old.version > 1)
        <4>1. old.version \in 1 .. VersionRead /\ VersionRead \in Nat
          BY <1>1, <1>2, <2>2, <3>2 DEF Serves, Versioned, IInv, Types, VersionRead
        <4>2. old.version = 1
          BY <3>2, <4>1
        <4>3. page # "search" /\ ~unversioned
          BY <2>3 DEF Guaranteed, Lists, OfToken
        <4>4. Known(page) = Answer(page, Zero)
          BY <1>1, <1>2, <2>2, <2>3, <3>2, <4>2, <4>3 DEF Serves, Versioned
        <4> QED
          BY <1>2, <2>2, <4>4, NothingIsLess
      <3> QED
        BY <3>1, <3>2
    <2>4. Guaranteed /\ ~Pending /\ ~stale => old.floor = Known(page)
      BY <1>5, <2>1 DEF IInv, PageInv, old
    <2>5. PageInv'
      BY <1>1, <1>2, <1>4, <2>1, <2>2, <2>3, <2>4 DEF IInv, PageInv
    <2> QED
      BY <1>3, <1>4, <2>5 DEF IInv
  <1>6. CASE fetch # h
    <2>1. UNCHANGED <<shown, fetch>>
      BY <1>1, <1>6
    <2>2. fetch # Nothing => fetch \in Handlers /\ handler'[fetch] = handler[fetch]
      BY <1>3, <1>6 DEF IInv, Types
    <2>3. PageInv'
      BY <1>1, <1>4, <2>1, <2>2 DEF IInv, PageInv
    <2> QED
      BY <1>3, <1>4, <2>3 DEF IInv
  <1> QED
    BY <1>5, <1>6

LEMMA RequestFailsInv ==
    ASSUME IInv, NEW h \in Handlers, RequestFails(h)
    PROVE  IInv'
  <1>1. /\ handler' = [handler EXCEPT ![h] = Idle]
        /\ UNCHANGED <<db, indexer, version, cache, connected, inbox, page, shown, drops,
                       announced, unversioned, unheard>>
        /\ \/ fetch = h /\ fetch' = Nothing /\ stale' = TRUE
           \/ fetch # h /\ UNCHANGED <<fetch, stale>>
    BY DEF RequestFails, history
  <1>2. /\ CacheInv' /\ RequestInv' /\ handler' \in [Handlers -> Requests]
        /\ \A g \in Handlers : g # h => handler'[g] = handler[g]
    BY <1>1, EndedRequest
  <1>3. /\ Types' /\ IndexerInv' /\ VersionInv'
        /\ Guaranteed' <=> Guaranteed
        /\ Pending' <=> Pending
        /\ \A q : Known(q)' = Known(q) /\ Now(q)' = Now(q)
    <2>1. fetch' \in Handlers \cup {Nothing} /\ stale' \in BOOLEAN
      BY <1>1 DEF IInv, Types
    <2> QED
      BY <1>1, <1>2, <2>1, RestHolds DEF IInv, Types
  <1>4. CASE fetch = h
    <2>1. fetch' = Nothing /\ stale'
      BY <1>1, <1>4
    <2>2. PageInv'
      BY <1>1, <1>3, <2>1 DEF IInv, PageInv
    <2> QED
      BY <1>2, <1>3, <2>2 DEF IInv
  <1>5. CASE fetch # h
    <2>1. UNCHANGED <<stale, fetch>>
      BY <1>1, <1>5
    <2>2. fetch # Nothing => fetch \in Handlers /\ handler'[fetch] = handler[fetch]
      BY <1>2, <1>5 DEF IInv, Types
    <2>3. PageInv'
      BY <1>1, <1>3, <2>1, <2>2 DEF IInv, PageInv
    <2> QED
      BY <1>2, <1>3, <2>3 DEF IInv
  <1> QED
    BY <1>4, <1>5

-----------------------------------------------------------------------------
LEMMA NextInv == IInv /\ [Next]_vars => IInv'
  <1> SUFFICES ASSUME IInv, [Next]_vars PROVE IInv'
    OBVIOUS
  <1>1. CASE \E event \in Events, t \in Tokens : Commit(event, t)
    BY <1>1, CommitInv
  <1>2. CASE InvalidateApiCaches \/ Publish \/ IndexerFails
    BY <1>2, InvalidateInv, PublishInv, IndexerFailsInv
  <1>3. CASE BrowserDrops \/ BrowserConnects \/ Receive
    BY <1>3, BrowserDropsInv, BrowserConnectsInv, ReceiveInv
  <1>4. ASSUME NEW h \in Handlers, StartFetch(h) \/ Visit(h) \/ RequestFails(h)
        PROVE  IInv'
    BY <1>4, StartFetchInv, VisitInv, RequestFailsInv
  <1>5. ASSUME NEW h \in Handlers, Serve(h)
        PROVE  IInv'
    BY <1>5, GetVersionInv, GetJsonInv, QueryDatabaseInv, SetJsonInv, RespondInv DEF Serve
  <1>6. CASE UNCHANGED vars
    <2>1. /\ UNCHANGED <<db, indexer, version, cache, connected, inbox, page, shown, stale, fetch>>
          /\ UNCHANGED <<handler, drops, announced, unversioned, unheard>>
      BY <1>6 DEF vars, browser, bounds, history
    <2>2. CacheInv' /\ RequestInv'
      BY <2>1, Unnoticed
    <2>3. /\ Types' /\ IndexerInv' /\ VersionInv'
          /\ Guaranteed' <=> Guaranteed
          /\ Pending' <=> Pending
          /\ \A q : Known(q)' = Known(q) /\ Now(q)' = Now(q)
      BY <2>1, RestHolds DEF IInv, Types
    <2>4. PageInv'
      BY <2>1, <2>3 DEF IInv, PageInv
    <2> QED
      BY <2>2, <2>3, <2>4 DEF IInv
  <1> QED
    BY <1>1, <1>2, <1>3, <1>4, <1>5, <1>6 DEF Next

LEMMA Invariance == Spec => []IInv
  <1> QED
    BY InitInv, NextInv, PTL DEF Spec

\* The records of the indexer, the browser, the cache and the requests keep
\* their shape; in particular the page never waits for a request that has
\* ended or serves another query.
THEOREM TypeCorrect == Spec => []TypeOK
  <1>1. IInv => TypeOK
    BY DEF IInv, Types, IndexerInv, PageInv, TypeOK, Databases
  <1> QED
    BY <1>1, Invariance, PTL

\* Under the current version there is no entry from before the last
\* announcement (getVersion before the query, setJson under that version,
\* invalidateApiCaches after the commit), however many requests fill the cache
\* and however slowly.
THEOREM CacheIsFresh == Spec => []FreshUnderVersion
  <1>1. IInv => FreshUnderVersion
    BY DEF IInv, CacheInv, FreshUnderVersion, Known
  <1> QED
    BY <1>1, Invariance, PTL

\* No request answers with less than had been announced when it came in.
THEOREM NoAnswerFromBefore == Spec => []AnswersCoverAnnounced
  <1>1. ASSUME IInv, NEW h \in Handlers, handler[h].pc = "respond"
        PROVE  \/ handler[h].version = 1 /\ Cached(handler[h].query)
               \/ AtLeast(handler[h].query, handler[h].value, handler[h].floor)
    <2>1. Serves(handler[h])
      BY <1>1, Underway
    <2>2. Cached(handler[h].query) => handler[h].version \in 1 .. VersionRead /\ VersionRead \in Nat
      BY <1>1, <2>1 DEF Serves, Versioned, IInv, Types, VersionRead
    <2>3. Cached(handler[h].query) => handler[h].version = 1 \/ handler[h].version > 1
      BY <2>2
    <2> QED
      BY <1>1, <2>1, <2>3 DEF Serves, Answers
  <1>2. IInv => AnswersCoverAnnounced
    BY <1>1 DEF AnswersCoverAnnounced
  <1> QED
    BY <1>2, Invariance, PTL

\* An open page shows the database when nothing is under way, whatever commits,
\* messages, reconnects, abandoned and failed requests came before: all that
\* can leave it behind is an announcement that was lost where nobody notices.
THEOREM PageIsCurrent == Spec => []CurrentWhenQuiet
  <1>1. ASSUME IInv, Quiet, Guaranteed
        PROVE  shown = Answer(page, db)
    <2>1. page \in Queries /\ page # "search" /\ ~unversioned
      BY <1>1 DEF IInv, Types, Guaranteed, Lists, OfToken
    <2>2. Now(page) = Known(page)
      BY <1>1, <2>1 DEF IInv, VersionInv, Quiet
    <2>3. ~Pending
      BY <1>1, AsksOfNone DEF IInv, IndexerInv, Quiet, Pending
    <2>4. shown \in Values(page) /\ AtLeast(page, Now(page), shown) /\ AtLeast(page, shown, Now(page))
      BY <1>1, <2>2, <2>3 DEF IInv, PageInv, Quiet
    <2>5. shown = Now(page)
      BY <1>1, <2>1, <2>4, Announcements, Antisymmetric
    <2> QED
      BY <2>5 DEF Now
  <1>2. IInv => CurrentWhenQuiet
    BY <1>1 DEF CurrentWhenQuiet, Guaranteed
  <1> QED
    BY <1>2, Invariance, PTL
=============================================================================
