---------------------------- MODULE ScrapeService ----------------------------
(***************************************************************************)
(* ujin/scrape/service.py: concurrent scrapes of one URL through the host  *)
(* cooldown, the cache, the conditional GET, the escalation from HTTP to   *)
(* the renderer to sitemap and feed, and the cache write; with the cache's *)
(* copy on disk over stops, crashes and restarts.                          *)
(*                                                                         *)
(* A request's step runs from one await to the next:                       *)
(*   "idle" --Begin--> "direct" | "http" | "obscura" | "browser"           *)
(*          --...--> "sitemap" --> "feed" --> "idle" (answered or failed)  *)
(*                                                                         *)
(* "links", "auto" and "article" are themselves; "record" stands for every *)
(* other mode that extracts one record from the body (structured, tables,  *)
(* images, metadata, feeds, contacts), "multi" for scrape_multi.  The page *)
(* is its html, which the server's ETag names, and the data its scripts    *)
(* show in it: an HTTP answer is the html alone, a rendering shows both,   *)
(* and either may become anything, what it was before included.  What a    *)
(* link set looks like is only its fingerprint.                            *)
(***************************************************************************)
EXTENDS Integers, FiniteSets, SequencesExt, Orders

CONSTANTS
  Requests,
  Modes, Renders,       \* the modes and render pins that can be asked for
  Confs,                \* the configurations to look at: the host's override strategy and
                        \* whether it has an rss_url, whether a browser is wired, whether
                        \* strategies are learned; what the page may become, and what each
                        \* caller asks for
  Sites,                \* model bound: all the pages there can be
  LinksOf,              \* the links of each body
  MaxEntries,           \* ScrapeCache
  MaxExp,               \* HostPolicy: the exponent the cooldown grows to (3 in the code)
  StatBound,            \* model bound: outcomes counted per backend
  MayCrash, NoEntry

NoData == 0
Served(html) == [html |-> html, data |-> NoData]      \* the body of an HTTP answer
Bodies == Sites \cup {Served(page.html) : page \in Sites}
NoTag == 0
NoBody == Served(NoTag)
Backends == {"http", "obscura", "browser"}

ASSUME ScrapeAssumption ==
  /\ Modes \subseteq {"links", "auto", "article", "record", "multi"}
  /\ Renders \subseteq {"auto", "http", "obscura", "browser"}
  /\ Confs \subseteq [override : {"auto", "http", "obscura", "browser", "sitemap_news", "rss"},
                     rss : BOOLEAN, browser : BOOLEAN, learn : BOOLEAN,
                     pages : SUBSET Sites, asks : [Requests -> SUBSET (Modes \X Renders)]]
  /\ Sites \subseteq [html : Nat \ {0}, data : Nat \ {0}] /\ LinksOf \in [Bodies -> Nat]
  /\ MaxEntries \in Nat \ {0} /\ MaxExp \in Nat /\ StatBound \in Nat
  /\ MayCrash \in BOOLEAN

VARIABLES
  conf,      \* the configuration, fixed from the start
  site,      \* the page: its html and the data shown in it
  cache,     \* ScrapeCache._store, oldest use first: [key, payload, tag, of]
  disk,      \* DiskCache rows in rowid order
  failures,  \* HostPolicy: consecutive_failures (beyond MaxExp + 1 nothing changes)
  cooldown,  \* HostPolicy: base cooldowns left
  stat,      \* StrategyFeedback: successes and attempts per backend
  req        \* the state of each request

vars == <<conf, site, cache, disk, failures, cooldown, stat, req>>
policy == <<failures, cooldown>>

Fp(mode, p) ==
  IF mode \in {"article", "record"} /\ p.from = "page" THEN <<p.from, p.v>>
  ELSE <<p.from, LinksOf[p.v]>>
Fresh == [pc |-> "idle", mode |-> "links", strat |-> "auto", cached |-> NoEntry,
          body |-> NoBody, thin |-> FALSE, tag |-> NoTag, torn |-> FALSE, tried |-> {}]

-----------------------------------------------------------------------------
(* ScrapeCache: entries in order of use *)

Holds(c, key) == \E i \in DOMAIN c : c[i].key = key
Where(c, key) == CHOOSE i \in DOMAIN c : c[i].key = key
Entry(c, key) == c[Where(c, key)]
Without(c, key) == IF Holds(c, key) THEN RemoveAt(c, Where(c, key)) ELSE c

\* get: an entry past its TTL is dropped (Expire drops it the moment it would be)
Got(c, key) == IF Holds(c, key) THEN Entry(c, key) ELSE NoEntry
Touched(c, key) == IF Holds(c, key) THEN Append(Without(c, key), Entry(c, key)) ELSE c

Put(c, e) ==
  LET more == Append(Without(c, e.key), e) IN
  IF Len(more) > MaxEntries THEN Tail(more) ELSE more

-----------------------------------------------------------------------------
(* HostPolicy *)

RecordSuccess == failures' = 0 /\ cooldown' = 0

RecordFailure ==
  LET f == IF failures <= MaxExp THEN failures + 1 ELSE failures IN
  /\ failures' = f
  /\ cooldown' = 2 ^ (f - 1)

-----------------------------------------------------------------------------
(* StrategyFeedback *)

Attempt(backend, ok) ==
  IF conf.learn /\ stat[backend].n < StatBound
  THEN [stat EXCEPT ![backend] = [s |-> @.s + (IF ok THEN 1 ELSE 0), n |-> @.n + 1]]
  ELSE stat

\* highest success rate, then most attempts, then the name ("browser" < "http" < "obscura")
Rank == [browser |-> 0, http |-> 1, obscura |-> 2]
Better(a, b) ==
  LET x == stat[a].s * stat[b].n  y == stat[b].s * stat[a].n IN
  \/ x > y
  \/ x = y /\ stat[a].n > stat[b].n
  \/ x = y /\ stat[a].n = stat[b].n /\ Rank[a] < Rank[b]

Known == {b \in Backends : stat[b].n > 0}
Recommended == CHOOSE b \in Known : \A other \in Known \ {b} : Better(b, other)

\* the service has no site store, so no recommendation is ever penalized
Biased ==
  IF ~conf.learn \/ Known = {} \/ (Recommended = "browser" /\ ~conf.browser)
  THEN "auto" ELSE Recommended

\* a render pin beats the host's override, which beats what was learned
Strategy(render) ==
  LET s == IF render # "auto" THEN render ELSE conf.override IN
  IF s = "auto" THEN Biased ELSE s

-----------------------------------------------------------------------------
Init ==
  /\ conf \in Confs /\ site \in conf.pages /\ cache = <<>> /\ disk = <<>>
  /\ failures = 0 /\ cooldown = 0
  /\ stat = [b \in Backends |-> [s |-> 0, n |-> 0]]
  /\ req = [r \in Requests |-> Fresh]

-----------------------------------------------------------------------------
(* The beginning of a request *)

At(r, leg) == req[r].pc = leg

\* r goes on to await `leg`; what no later leg reads is forgotten
To(q, leg) ==
  [q EXCEPT !.pc = leg, !.tried = @ \cup {leg},
            !.cached = IF leg \in {"direct", "http"} THEN @ ELSE NoEntry,
            !.tag = IF leg \in {"sitemap", "feed"} /\ q.body = NoBody THEN NoTag ELSE @,
            !.torn = IF leg \in {"sitemap", "feed"} /\ q.body = NoBody THEN FALSE ELSE @]
Ready(r) == req[r].pc \in {"idle", "failed"}

FirstLeg(s) == IF s \in {"browser", "obscura"} THEN s ELSE "http"
Direct(mode) == conf.override \in {"sitemap_news", "rss"} /\ mode \notin {"article", "multi"}

\* a host in cooldown is served from the cache, or refused, unless the caller forces
BeginCooled(r) ==
  \E mode \in Modes, render \in Renders :
    /\ <<mode, render>> \in conf.asks[r]
    /\ Ready(r) /\ cooldown > 0 /\ mode # "multi"
    /\ cache' = Touched(cache, mode)
    /\ req' = [req EXCEPT ![r] = Fresh]
    /\ UNCHANGED <<conf, site, disk, policy, stat>>

\* scrape_multi never looks at cooldown or cache
Begin(r) ==
  \E mode \in Modes, render \in Renders, force \in BOOLEAN :
    LET uses == ~force /\ mode # "multi"
        s == IF mode = "multi" THEN (IF render # "auto" THEN render ELSE conf.override)
             ELSE Strategy(render)
        q == [Fresh EXCEPT !.mode = mode, !.strat = s,
                           !.cached = IF uses THEN Got(cache, mode) ELSE NoEntry] IN
    /\ <<mode, render>> \in conf.asks[r]
    /\ Ready(r)
    /\ cooldown = 0 \/ force \/ mode = "multi"
    /\ cache' = IF uses THEN Touched(cache, mode) ELSE cache
    /\ req' = [req EXCEPT ![r] = To(q, IF Direct(mode) THEN "direct" ELSE FirstLeg(s))]
    /\ UNCHANGED <<conf, site, disk, policy, stat>>

-----------------------------------------------------------------------------
(* The end of a request *)

\* what a request's etag says of its body: it is the answer that carried the etag, or a
\* rendering after it, the html still being the same ("shell") or another by then ("torn")
Of(q) ==
  IF q.tag = NoTag \/ q.body.data = NoData THEN "answer"
  ELSE IF q.torn THEN "torn" ELSE "shell"

\* MUTANT: an etag seen earlier is kept for new content
FinalizeKeepsTag(mode, p, tag, of) ==
  LET prior == Got(cache, mode)
      same == prior # NoEntry /\ Fp(mode, prior.payload) = Fp(mode, p)
      keeps == prior # NoEntry /\ prior.tag # NoTag IN
  Put(Touched(cache, mode),
      [key |-> mode, payload |-> IF same THEN prior.payload ELSE p,
       tag |-> IF keeps THEN prior.tag ELSE tag, of |-> IF keeps THEN prior.of ELSE of])

\* _finalize_links: unchanged content keeps the prior payload, and its etag when the
\* answer carried none
Finalize(mode, p, tag, of) ==
  LET prior == Got(cache, mode)
      same == prior # NoEntry /\ Fp(mode, prior.payload) = Fp(mode, p)
      keeps == same /\ tag = NoTag IN
  Put(Touched(cache, mode),
      [key |-> mode, payload |-> IF same THEN prior.payload ELSE p,
       tag |-> IF keeps THEN prior.tag ELSE tag, of |-> IF keeps THEN prior.of ELSE of])

\* what a caller is shown of an entry: a record that was answered with links is empty
ResultFromCache(e) ==
  IF e.key = "record" /\ e.payload.from = "feed" THEN <<>> ELSE Fp(e.key, e.payload)

\* the entry every other mode writes
Stored(mode, p, tag, of) == Put(cache, [key |-> mode, payload |-> p, tag |-> tag, of |-> of])

Answer(r, q) ==
  LET p == [from |-> "page", v |-> q.body] IN
  /\ RecordSuccess
  /\ cache' = IF q.mode \in {"article", "record"} THEN Stored(q.mode, p, q.tag, Of(q))
              ELSE Finalize(q.mode, p, q.tag, Of(q))
  /\ req' = [req EXCEPT ![r] = Fresh]

\* scrape_multi extracts every mode it was asked for from one body, caches nothing and
\* leaves a failure unrecorded
MultiEnds(r, q) ==
  /\ IF q.body # NoBody THEN RecordSuccess ELSE UNCHANGED policy
  /\ req' = [req EXCEPT ![r] = Fresh]
  /\ UNCHANGED cache

Fail(r, q) ==
  /\ RecordFailure
  /\ req' = [req EXCEPT ![r] = [Fresh EXCEPT !.pc = "failed", !.mode = q.mode, !.strat = q.strat,
                                            !.tried = q.tried]]
  /\ UNCHANGED cache

\* MUTANT: sitemap and feed are tried only for thin pages, not when there is no body
WantsAltThinOnly(q) == q.mode = "links" /\ q.body # NoBody /\ q.thin

\* the altpath chain: no body in the link modes, or too few links in "links"
WantsAlt(q) ==
  \/ q.mode \in {"links", "auto"} /\ q.body = NoBody
  \/ q.mode = "links" /\ q.thin

\* what happens when _fetch_html has returned, q being the request by then
AfterFetch(r, q) ==
  \/ WantsAlt(q) /\ req' = [req EXCEPT ![r] = To(q, "sitemap")] /\ UNCHANGED <<cache, policy>>
  \/ q.mode = "multi" /\ MultiEnds(r, q)
  \/ q.mode # "multi" /\ ~WantsAlt(q) /\ q.body # NoBody /\ Answer(r, q)
  \/ q.mode # "multi" /\ ~WantsAlt(q) /\ q.body = NoBody /\ Fail(r, q)

\* links from the sitemap or the feed win over a thin page; they carry no etag
AltWins(r, q) ==
  /\ RecordSuccess
  /\ cache' = Finalize(q.mode, [from |-> "feed", v |-> site], NoTag, "answer")
  /\ req' = [req EXCEPT ![r] = Fresh]

-----------------------------------------------------------------------------
(* The legs *)

\* an override's sitemap or feed: links, filtered and stored without touching the
\* host policy, or nothing and the ordinary chain
DirectAnswer(r) ==
  /\ At(r, "direct")
  /\ \/ /\ cache' = Finalize(req[r].mode, [from |-> "feed", v |-> site], NoTag, "answer")
        /\ req' = [req EXCEPT ![r] = Fresh]
     \/ /\ req' = [req EXCEPT ![r] = To(req[r], FirstLeg(req[r].strat))]
        /\ UNCHANGED cache
  /\ UNCHANGED <<conf, site, disk, policy, stat>>

SentTag(q) == IF q.cached = NoEntry THEN NoTag ELSE q.cached.tag

\* 304: the captured entry is the answer; neither cache nor host policy is touched
HttpNotModified(r) ==
  /\ At(r, "http") /\ SentTag(req[r]) = site.html
  /\ stat' = Attempt("http", TRUE)
  /\ req' = [req EXCEPT ![r] = Fresh]
  /\ UNCHANGED <<conf, site, cache, disk, policy>>

\* 200 with a body that is enough
HttpBody(r) ==
  /\ At(r, "http") /\ SentTag(req[r]) # site.html
  /\ stat' = Attempt("http", TRUE)
  /\ AfterFetch(r, [req[r] EXCEPT !.body = Served(site.html), !.tag = site.html])
  /\ UNCHANGED <<conf, site, disk>>

\* 200 with too few links: the renderer is next unless the strategy is pinned, but
\* its etag stays with the request
HttpThin(r) ==
  LET q == [req[r] EXCEPT !.body = Served(site.html), !.thin = TRUE, !.tag = site.html] IN
  /\ At(r, "http") /\ SentTag(req[r]) # site.html /\ req[r].mode = "links"
  /\ stat' = Attempt("http", FALSE)
  /\ IF req[r].strat = "http" THEN AfterFetch(r, q)
     ELSE /\ req' = [req EXCEPT ![r] = To([q EXCEPT !.body = NoBody, !.thin = FALSE], "obscura")]
          /\ UNCHANGED <<cache, policy>>
  /\ UNCHANGED <<conf, site, disk>>

\* an exception, an error status, or a 200 without a body, which has an etag
HttpFails(r) ==
  /\ At(r, "http")
  /\ stat' = Attempt("http", FALSE)
  /\ \E tag \in {NoTag, site.html} :
       LET q == [req[r] EXCEPT !.tag = tag] IN
       IF req[r].strat = "http" THEN AfterFetch(r, q)
       ELSE req' = [req EXCEPT ![r] = To(q, "obscura")] /\ UNCHANGED <<cache, policy>>
  /\ UNCHANGED <<conf, site, disk>>

\* the rendered page, data and all, may have as few links as the body had; whatever etag
\* the HTTP answer left stays with it
Rendered(r, backend) ==
  /\ At(r, backend)
  /\ stat' = Attempt(backend, TRUE)
  /\ \E thin \in BOOLEAN : AfterFetch(r, [req[r] EXCEPT !.body = site, !.thin = thin])
  /\ UNCHANGED <<conf, site, disk>>

\* without a wired browser the leg ends at once and is not counted
RenderFails(r, backend) ==
  /\ At(r, backend)
  /\ stat' = IF backend = "browser" /\ ~conf.browser THEN stat ELSE Attempt(backend, FALSE)
  /\ AfterFetch(r, [req[r] EXCEPT !.body = NoBody])
  /\ UNCHANGED <<conf, site, disk>>

AfterSitemap(r) == IF conf.rss THEN "feed" ELSE "none"

AltAnswers(r) ==
  /\ At(r, "sitemap") \/ At(r, "feed")
  /\ AltWins(r, req[r])
  /\ UNCHANGED <<conf, site, disk, stat>>

\* the chain is exhausted: a thin page is still an answer
AltFails(r) ==
  LET q == req[r] IN
  /\ \/ At(r, "sitemap") /\ AfterSitemap(r) = "feed"
        /\ req' = [req EXCEPT ![r] = To(q, "feed")] /\ UNCHANGED <<cache, policy>>
     \/ /\ At(r, "feed") \/ (At(r, "sitemap") /\ AfterSitemap(r) = "none")
        /\ IF q.body # NoBody THEN Answer(r, q) ELSE Fail(r, q)
  /\ UNCHANGED <<conf, site, disk, stat>>

-----------------------------------------------------------------------------
(* The site, time, stops and crashes *)

\* a new html tears the requests that wait for a rendering of the one they have the etag of
Torn(q, html) == html # site.html /\ q.tag # NoTag /\ q.body = NoBody

PublishPage ==
  \E page \in conf.pages \ {site} :
    /\ site' = page
    /\ req' = [r \in Requests |->
                 IF Torn(req[r], page.html) THEN [req[r] EXCEPT !.torn = TRUE] ELSE req[r]]
    /\ UNCHANGED <<conf, cache, disk, policy, stat>>

\* a base cooldown goes by
Cool ==
  /\ cooldown > 0 /\ cooldown' = cooldown - 1
  /\ UNCHANGED <<conf, site, cache, disk, failures, stat, req>>

\* an entry passes its TTL, whatever the TTL is
Expire ==
  \E i \in DOMAIN cache :
    /\ cache' = Without(cache, cache[i].key)
    /\ UNCHANGED <<conf, site, disk, policy, stat, req>>

\* flush_from upserts: a row keeps its place, the keys without one follow in the cache's
\* order, and rows whose entries are gone stay
Flushed(c) ==
  LET new == {i \in DOMAIN c : ~Holds(disk, c[i].key)}
      places == InOrder(new, Ascending(new)) IN
  [i \in DOMAIN disk |-> IF Holds(c, disk[i].key) THEN Entry(c, disk[i].key) ELSE disk[i]]
    \o [i \in DOMAIN places |-> c[places[i]]]

\* a restart puts every row, the key being the table's primary key, as if it had just been
\* fetched: the last MaxEntries of them stay
Loaded(rows) ==
  IF Len(rows) <= MaxEntries THEN rows ELSE SubSeq(rows, Len(rows) - MaxEntries + 1, Len(rows))

Restart(rows) ==
  /\ disk' = rows
  /\ cache' = Loaded(rows)
  /\ failures' = 0 /\ cooldown' = 0
  /\ req' = [r \in Requests |-> Fresh]
  /\ UNCHANGED <<conf, site, stat>>

\* a clean stop waits for the requests in flight and flushes the cache
Stop == (\A r \in Requests : Ready(r)) /\ cache # <<>> /\ Restart(Flushed(cache))
Crash == MayCrash /\ Restart(disk)

-----------------------------------------------------------------------------
Leg(r) ==
  \/ DirectAnswer(r)
  \/ HttpNotModified(r) \/ HttpBody(r) \/ HttpThin(r) \/ HttpFails(r)
  \/ \E b \in {"obscura", "browser"} : RenderFails(r, b)
  \/ Rendered(r, "obscura")
  \/ conf.browser /\ Rendered(r, "browser")
  \/ AltAnswers(r) \/ AltFails(r)

ServiceNext ==
  \/ \E r \in Requests : BeginCooled(r) \/ Begin(r) \/ Leg(r)
  \/ PublishPage \/ Cool \/ Expire

Next == ServiceNext \/ Stop \/ Crash

Spec == Init /\ [][Next]_vars

-----------------------------------------------------------------------------
(* Properties *)

\* An etag is only ever kept with content of the html it names: in the cache, on disk and
\* in the entries requests captured before their fetch, content that came with its etag
\* is exactly that html's links or article, and content a renderer showed after a thin or
\* empty answer is that html's with some data, unless the html was another by the time it
\* was rendered.  So no order of fetches, renderings, unchanged answers, evictions,
\* flushes, restarts and returns of an old page makes a 304 serve another html's content;
\* that a shell's data has not changed since is what no 304 can tell.
Confirmed(e) ==
  LET shows(v) == ResultFromCache(e) = Fp(e.key, [from |-> "page", v |-> v]) IN
  \/ e.tag = NoTag
  \/ e.of = "answer" /\ shows(Served(e.tag))
  \/ e.of = "shell" /\ \E page \in Sites : page.html = e.tag /\ shows(page)
  \/ e.of = "torn"

RevalidationIsSound ==
  /\ \A c \in {cache, disk} : \A i \in DOMAIN c : Confirmed(c[i])
  /\ \A r \in Requests : req[r].cached # NoEntry => Confirmed(req[r].cached)

\* A scrape fails only after every leg its strategy allows had its turn in that very
\* request, and no other leg had: the override's sitemap or feed, then the pinned or
\* learned backend alone or else HTTP and the renderer, then, for links, the sitemap and
\* the override's feed.  A learned outcome narrows the chain exactly as a pin does.
BackendsOf(strat) == IF strat \in Backends THEN {strat} ELSE {"http", "obscura"}

Chain(mode, strat) ==
  (IF Direct(mode) THEN {"direct"} ELSE {})
  \cup BackendsOf(strat)
  \cup (IF mode \in {"links", "auto"} THEN {"sitemap"} \cup (IF conf.rss THEN {"feed"} ELSE {}) ELSE {})

EscalationComplete ==
  \A r \in Requests :
    req[r].pc = "failed" => req[r].tried = Chain(req[r].mode, req[r].strat)

=============================================================================
