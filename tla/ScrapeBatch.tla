---------------------------- MODULE ScrapeBatch -----------------------------
(***************************************************************************)
(* ScrapeService.scrape_urls (ujin/scrape/service.py): the URLs of a batch *)
(* are scraped concurrently, so many at a time.  In combined mode          *)
(* each scrape fetches the page and the pinned feed side by side, merges   *)
(* their links, and reads the articles of some in parallel before it       *)
(* scores them against the headlines of all scrapes (BreakingScorer).      *)
(* A page's own scrape is ScrapeService's subject; here it has an outcome. *)
(***************************************************************************)
EXTENDS Headlines

CONSTANTS
  Batches,     \* the requests: [mode, urls, topN, width]: width at a time
  Pages,       \* of each homepage, the pages it may show
  Feeds,       \* of each homepage, what its pinned feed may hold; {}: no feed is pinned
  Summaries,   \* of each URL, what its article may open with, NoText among it
  Denied,      \* URLs the hosts' topic filters drop
  MaxTime,     \* bound
  NoBatch, Waiting, Failed

\* at least one at a time (max(1, concurrency)); pages and feeds are lists, of URLs Canon knows
ASSUME BatchAssumption ==
  /\ NoBatch \notin Batches
  /\ \A b \in Batches : /\ b.mode \in {"links", "combined"} /\ b.topN \in Nat /\ b.width \in Nat \ {0}
                       /\ b.urls \in Seq(DOMAIN Pages)
  /\ DOMAIN Feeds = DOMAIN Pages
  /\ \A list \in UNION {Pages[h] \cup Feeds[h] : h \in DOMAIN Pages} :
       list \in Seq({list[k] : k \in DOMAIN list}) /\ \A k \in DOMAIN list : list[k].href \in DOMAIN Canon

VARIABLES
  now,
  ring,     \* the headlines of the corroboration store
  batch,    \* the request under way, or NoBatch
  stage,    \* of each of its URLs: "queued", "fetching", "enriching" or "done"
  html, rss,  \* what the two fetches brought: links, Failed or Waiting
  merged,   \* links
  asked,    \* URLs whose articles are read
  got,      \* the summaries read so far
  results   \* of each URL: [url, kind, links, scores]

batchVars == <<now, ring, batch, stage, html, rss, merged, asked, got, results>>

Slots == IF batch = NoBatch THEN {} ELSE DOMAIN batch.urls

BatchInit ==
  /\ now = 0 /\ ring = <<>> /\ batch = NoBatch
  /\ stage = <<>> /\ html = <<>> /\ rss = <<>> /\ merged = <<>> /\ asked = <<>> /\ got = <<>>
  /\ results = <<>>

BeginBatch(b) ==
  /\ batch = NoBatch /\ batch' = b
  /\ stage' = [i \in DOMAIN b.urls |-> "queued"]
  /\ html' = [i \in DOMAIN b.urls |-> Waiting] /\ rss' = [i \in DOMAIN b.urls |-> Waiting]
  /\ merged' = [i \in DOMAIN b.urls |-> <<>>] /\ asked' = [i \in DOMAIN b.urls |-> {}]
  /\ got' = [i \in DOMAIN b.urls |-> <<>>]
  /\ results' = [i \in DOMAIN b.urls |-> Waiting]
  /\ UNCHANGED <<now, ring>>

\* MUTANT: the slot is given back before the articles are read
BusyFetching == {i \in Slots : stage[i] = "fetching"}

\* the holders of the semaphore
Busy == {i \in Slots : stage[i] \in {"fetching", "enriching"}}

\* the semaphore lets the URLs in in their order
Admit(i) ==
  /\ stage[i] = "queued" /\ \A k \in 1 .. i - 1 : stage[k] # "queued"
  /\ Cardinality(Busy) < batch.width
  /\ stage' = [stage EXCEPT ![i] = "fetching"]
  /\ rss' = IF batch.mode = "combined" /\ Feeds[batch.urls[i]] # {} THEN rss
            ELSE [rss EXCEPT ![i] = <<>>]
  /\ UNCHANGED <<now, ring, batch, html, merged, asked, got, results>>

\* the links of a page, through _filter_named_links
Allowed(kept, link) == IF link.url \in Denied THEN kept ELSE Append(kept, link)
Filtered(links) == Folded(Allowed, <<>>, links)

\* the scrape of the page ends: it is scored and its headlines are added, unless it was cached
HtmlArrives(i) ==
  /\ stage[i] = "fetching" /\ html[i] = Waiting
  /\ \E page \in Pages[batch.urls[i]], cached \in BOOLEAN :
       LET links == Filtered(Extract(page)) IN
         /\ html' = [html EXCEPT ![i] = links]
         /\ ring' = IF cached THEN ring ELSE ScoreLinks(ring, links, now).ring
  /\ UNCHANGED <<now, batch, stage, rss, merged, asked, got, results>>

HtmlFails(i) ==
  /\ stage[i] = "fetching" /\ html[i] = Waiting
  /\ html' = [html EXCEPT ![i] = Failed]
  /\ UNCHANGED <<now, ring, batch, stage, rss, merged, asked, got, results>>

RssEnds(i) ==
  /\ stage[i] = "fetching" /\ rss[i] = Waiting
  /\ \E feed \in Feeds[batch.urls[i]] \cup {Failed} : rss' = [rss EXCEPT ![i] = feed]
  /\ UNCHANGED <<now, ring, batch, stage, html, merged, asked, got, results>>

OrNone(fetched) == IF fetched = Failed THEN <<>> ELSE fetched

\* the scrape of the i-th URL is over
Finish(i, links) ==
  LET scored == ScoreLinks(ring, links, now) IN
    /\ ring' = scored.ring
    /\ stage' = [stage EXCEPT ![i] = "done"]
    /\ results' = [results EXCEPT ![i] =
         [url |-> batch.urls[i], kind |-> IF links = <<>> THEN "empty" ELSE "links",
          links |-> links, scores |-> scored.scores]]

\* one mode: the page's result, or the error, isolated
PlainEnds(i) ==
  /\ stage[i] = "fetching" /\ batch.mode = "links" /\ html[i] # Waiting
  /\ stage' = [stage EXCEPT ![i] = "done"]
  /\ results' = [results EXCEPT ![i] =
       [url |-> batch.urls[i], kind |-> IF html[i] = Failed THEN "error" ELSE "links",
        links |-> OrNone(html[i]), scores |-> <<>>]]
  /\ UNCHANGED <<now, ring, batch, html, rss, merged, asked, got>>

\* both fetches are over: the articles of some of the merged links are read
MergeTo(i, links) ==
  /\ stage[i] = "fetching" /\ batch.mode = "combined" /\ Waiting \notin {html[i], rss[i]}
  /\ LET only == HtmlOnly(links, batch.topN)
     IN IF only = {}
        THEN Finish(i, links) /\ UNCHANGED <<merged, asked>>
        ELSE /\ stage' = [stage EXCEPT ![i] = "enriching"]
             /\ merged' = [merged EXCEPT ![i] = links]
             /\ asked' = [asked EXCEPT ![i] = only]
             /\ UNCHANGED <<ring, results>>
  /\ UNCHANGED <<now, batch, html, rss, got>>

\* whatever the fetches brought
Merge(i) == MergeTo(i, Merged(OrNone(rss[i]), OrNone(html[i])))

\* a failure is silent
ArticleEnds(i, url) ==
  /\ stage[i] = "enriching" /\ url \in asked[i] \ DOMAIN got[i]
  /\ \E summary \in Summaries[url] : got' = [got EXCEPT ![i] =
       [u \in DOMAIN @ \cup {url} |-> IF u = url THEN summary ELSE @[u]]]
  /\ UNCHANGED <<now, ring, batch, stage, html, rss, merged, asked, results>>

Enrich(i) ==
  /\ stage[i] = "enriching" /\ asked[i] \subseteq DOMAIN got[i]
  /\ Finish(i, Enriched(merged[i], got[i]))
  /\ UNCHANGED <<now, batch, html, rss, merged, asked, got>>

Return ==
  /\ batch # NoBatch /\ \A i \in Slots : stage[i] = "done"
  /\ batch' = NoBatch
  /\ stage' = <<>> /\ html' = <<>> /\ rss' = <<>> /\ merged' = <<>> /\ asked' = <<>> /\ got' = <<>>
  /\ results' = <<>>
  /\ UNCHANGED <<now, ring>>

Tick ==
  /\ now < MaxTime /\ now' = now + 1
  /\ UNCHANGED <<ring, batch, stage, html, rss, merged, asked, got, results>>

-----------------------------------------------------------------------------
Step(i) ==
  \/ Admit(i) \/ HtmlArrives(i) \/ HtmlFails(i) \/ RssEnds(i) \/ PlainEnds(i) \/ Merge(i)
  \/ \E url \in asked[i] : ArticleEnds(i, url)
  \/ Enrich(i)

Begin == \E b \in Batches : BeginBatch(b)
Progress == (\E i \in Slots : Step(i)) \/ Return

BatchNext == Begin \/ Progress \/ Tick

BatchSpec == BatchInit /\ [][BatchNext]_batchVars

-----------------------------------------------------------------------------
(* Properties *)

KeptUrls(feed) == {IF Canon[item.href] = NoUrl THEN item.href ELSE Canon[item.href] :
                     item \in {feed[k] : k \in {n \in DOMAIN feed : ~ Junk(feed[n].text)}}} \ Slop

\* The merge loses and invents nothing, whichever fetch fails and whatever the articles bring:
\* a result has each headline of the page and of the feed once, those of the feed with the
\* summary of the feed, even one an article was read for meanwhile.
SourcesAreMerged ==
  \A i \in Slots : stage[i] = "done" /\ batch.mode = "combined" =>
    LET feed == OrNone(rss[i])  page == OrNone(html[i])  links == results[i].links IN
      /\ UrlsOf(links) = KeptUrls(feed) \cup UrlsOf(page)
      /\ Len(links) = Cardinality(UrlsOf(links))
      /\ \A k \in DOMAIN links : links[k].url \in KeptUrls(feed) =>
           \E n \in DOMAIN feed : /\ Canon[feed[n].href] \in {links[k].url, NoUrl}
                                  /\ links[k].summary = feed[n].summary
                                  /\ links[k].text = feed[n].text

\* the headlines known when the k-th link of a result is looked up, those of its earlier links
\* among them, and the time of the last one before the result
Known(links, k) ==
  {ring[n] : n \in DOMAIN ring} \cup
    {[text |-> links[m].text, host |-> HostOf[links[m].url], ts |-> now] : m \in 1 .. k - 1}
LastHeard == IF ring = <<>> THEN now ELSE ring[Len(ring)].ts
Backing(links, k) ==
  {e.host : e \in {h \in Known(links, k) : h.ts >= LastHeard - Window /\ Alike(links[k].text, h.text)}}
Earned(links, scores) ==
  \A k \in DOMAIN scores : scores[k] > 0 =>
    Cardinality({HostOf[links[k].url]} \cup Backing(links, k)) >= MinHosts

\* A score above zero is earned: at least MinHosts hosts, the link's own among them, showed a
\* headline like it before it was scored, none of them longer than a window before the last
\* headline that came in, however often one page was read again.
CorroboratedByHosts ==
  [][\A i \in DOMAIN results' : i \in DOMAIN results /\ results[i] = Waiting /\ results'[i] # Waiting =>
       Earned(results'[i].links, results'[i].scores)]_batchVars

\* What is in flight is bounded for the whole batch: a place among the concurrent scrapes is
\* kept until the last article is read, and stands for a page and a feed, or for topN articles.
FetchesBounded ==
  LET pages == {i \in Slots : stage[i] = "fetching" /\ html[i] = Waiting}
      feeds == {i \in Slots : stage[i] = "fetching" /\ rss[i] = Waiting}
      articles == UNION {{<<i, url>> : url \in asked[i] \ DOMAIN got[i]} :
                           i \in {k \in Slots : stage[k] = "enriching"}}
  IN batch # NoBatch =>
       Cardinality(pages) + Cardinality(feeds) + Cardinality(articles)
         <= batch.width * (IF batch.topN > 2 THEN batch.topN ELSE 2)
=============================================================================
