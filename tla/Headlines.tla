----------------------------- MODULE Headlines ------------------------------
(***************************************************************************)
(* The links of a homepage (ujin/extract/links.py), the ring of headlines  *)
(* that corroborate one another (ujin/trends/corroboration.py, its scorer) *)
(* and the merge of a feed with a page (service.py, _scrape_combined).     *)
(*                                                                         *)
(* A text is a sequence of words, without stop words and short ones.       *)
(***************************************************************************)
EXTENDS Integers, Sequences, FiniteSets, SequencesExt, Folding

CONSTANTS
  Canon,       \* normalize_url: of each href, the URL, or NoUrl
  NoUrl,
  HostOf,      \* of each URL
  Slop,        \* the URLs of other verticals
  MinWords,    \* of a headline
  MaxLinks,    \* taken from a page
  Near,        \* percent: the Jaccard threshold
  MinHosts, MaxHosts,
  Window, MaxEntries,
  NoText

ASSUME HeadlinesAssumption ==
  /\ {MinWords, MaxLinks, Near, MinHosts, MaxHosts, MaxEntries} \subseteq Nat \ {0}
  /\ MinHosts <= MaxHosts /\ Window \in Nat

Junk(text) == Len(text) < MinWords

-----------------------------------------------------------------------------
(* Extraction *)

Link(url, text, summary, seen) == [url |-> url, text |-> text, summary |-> summary, seen |-> seen]

UrlsOf(links) == {links[i].url : i \in DOMAIN links}
At(links, url) == CHOOSE i \in DOMAIN links : links[i].url = url

\* dict assignment: a key keeps its place
Assign(links, link) ==
  IF link.url \in UrlsOf(links) THEN [links EXCEPT ![At(links, link.url)] = link]
  ELSE Append(links, link)

\* the longer text of two anchors wins, while there is room
Consider(links, anchor) ==
  LET url == Canon[anchor.href]
      worse == url \in UrlsOf(links) /\ Len(links[At(links, url)].text) >= Len(anchor.text)
  IN IF \/ Len(links) >= MaxLinks \/ anchor.chrome \/ url = NoUrl \/ url \in Slop
        \/ Junk(anchor.text) \/ worse
     THEN links
     ELSE Assign(links, Link(url, anchor.text, NoText, {}))

Extract(page) == Folded(Consider, <<>>, page)

-----------------------------------------------------------------------------
(* Corroboration *)

Shingles(text) ==
  LET words == {<<text[i]>> : i \in DOMAIN text}
  IN IF Len(text) < 2 THEN words
     ELSE words \cup {<<text[i], text[i + 1]>> : i \in 1 .. Len(text) - 1}

Alike(a, b) ==
  LET both == Cardinality(Shingles(a) \cap Shingles(b))
  IN both > 0 /\ both * 100 >= Near * Cardinality(Shingles(a) \cup Shingles(b))

\* deque(maxlen), then _evict_old
Recent(ring, ts) ==
  LET old == {i \in DOMAIN ring : \A k \in 1 .. i : ring[k].ts < ts - Window}
  IN SubSeq(ring, Cardinality(old) + 1, Len(ring))
Added(ring, text, host, ts) ==
  IF text = <<>> THEN ring
  ELSE LET full == Append(ring, [text |-> text, host |-> host, ts |-> ts])
       IN Recent(SubSeq(full, Len(full) - (IF Len(full) > MaxEntries THEN MaxEntries ELSE Len(full)) + 1,
                        Len(full)), ts)

\* MUTANT: counts headlines, not hosts
CountOfEntries(ring, text, host) ==
  1 + Cardinality({i \in DOMAIN ring : Alike(text, ring[i].text)})

Count(ring, text, host) ==
  Cardinality({host} \cup {ring[i].host : i \in {k \in DOMAIN ring : Alike(text, ring[k].text)}})

\* lookup_score, in percent: it evicts nothing
LookupScore(ring, text, host) ==
  LET n == Count(ring, text, host)
  IN IF text = <<>> \/ n < MinHosts THEN 0
     ELSE IF n >= MaxHosts THEN 100
     ELSE 50 + ((n - MinHosts) * 50) \div (MaxHosts - MinHosts)

\* score_links: each link is looked up, then added
Scored(acc, link) ==
  [ring |-> Added(acc.ring, link.text, HostOf[link.url], acc.ts), ts |-> acc.ts,
   scores |-> Append(acc.scores, LookupScore(acc.ring, link.text, HostOf[link.url]))]
ScoreLinks(ring, links, ts) == Folded(Scored, [ring |-> ring, ts |-> ts, scores |-> <<>>], links)

-----------------------------------------------------------------------------
(* The combined strategy *)

\* a feed item
FromRss(links, item) ==
  LET url == IF Canon[item.href] = NoUrl THEN item.href ELSE Canon[item.href]
      known == {i \in DOMAIN links : links[i].url = url}
      text == IF item.text = <<>> /\ known # {} THEN links[At(links, url)].text ELSE item.text
  IN IF url \in Slop \/ Junk(item.text) THEN links
     ELSE Assign(links, Link(url, text, item.summary, {"rss"}))

\* MUTANT: the page wins over the feed
FromHtmlFirst(links, link) == Assign(links, [link EXCEPT !.seen = {"html"}])

\* a link of the page: the feed wins on metadata
FromHtml(links, link) ==
  IF link.url \notin UrlsOf(links) THEN Append(links, [link EXCEPT !.seen = {"html"}])
  ELSE LET i == At(links, link.url)
       IN [links EXCEPT ![i] = Link(@.url, IF @.text = <<>> THEN link.text ELSE @.text, @.summary,
                                    @.seen \cup {"html"})]

Merged(feed, links) == Folded(FromHtml, Folded(FromRss, <<>>, feed), links)

\* html_only: the first n links only the page has
HtmlOnly(links, n) ==
  LET only == {i \in DOMAIN links : links[i].seen = {"html"} /\ links[i].summary = NoText}
  IN {links[i].url : i \in {k \in only : Cardinality({m \in only : m <= k}) <= n}}

\* the summaries the articles gave
Enriched(links, got) ==
  [i \in DOMAIN links |->
     IF links[i].url \in DOMAIN got /\ got[links[i].url] # NoText
     THEN [links[i] EXCEPT !.summary = got[links[i].url], !.seen = @ \cup {"article"}]
     ELSE links[i]]
=============================================================================
