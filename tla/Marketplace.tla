---------------------------- MODULE Marketplace ----------------------------
(***************************************************************************)
(* ujin/poll/marketplace.py over ujin/poll/amazon.py: a sweep searches a   *)
(* sample of terms concurrently, each through a chain of engines, fetches  *)
(* the detail page of every product it finds there and that no earlier     *)
(* sweep surfaced lately, combines the terms' rows and remembers the ids   *)
(* in one JSON file (_SeenStore).  The file's times are wall-clock times;  *)
(* ages stand for them here.                                               *)
(***************************************************************************)
EXTENDS Integers, FiniteSets, SequencesExt, Folding

CONSTANTS
  Products,      \* source ids a search may surface
  Searches,      \* what the terms of a sweep may meet: per term, the page of each engine in turn,
                 \* a sequence of products, Bare (a page without any) or NoPage
  MaxResults,    \* rows kept per term
  Ttl,           \* detail_cache_ttl_secs, in ticks
  Bare, NoPage, NoSweep, NoRows

ASSUME MarketAssumption ==
  /\ MaxResults \in Nat \ {0} /\ Ttl \in Nat \ {0}
  /\ Searches \subseteq Seq(Seq(Seq(Products) \cup {Bare, NoPage}))

VARIABLES
  surfaced,       \* _seen.seen: ticks since each id was marked; Ttl means expired or unknown
  surfacedDisk,   \* the same in the file
  sweep,      \* the ids whose details the sweep under way skips, or NoSweep
  rows,       \* prev of the target: the rows compared with, or NoRows
  enriched,   \* history: ticks since each product's details were last fetched
  fetched,    \* history: the products whose details the last sweep fetched
  lost        \* history: whether a restart lost marks: a sweep or the writing of its file was cut off

marketVars == <<surfaced, surfacedDisk, sweep, rows, enriched, fetched, lost>>

Expired == [p \in Products |-> Ttl]
Aged(ages) == [p \in Products |-> IF ages[p] < Ttl THEN ages[p] + 1 ELSE Ttl]

MarketInit ==
  /\ surfaced = Expired /\ surfacedDisk = Expired /\ enriched = Expired
  /\ sweep = NoSweep /\ rows = NoRows /\ fetched = {} /\ lost = FALSE

FreshIds == {p \in Products : surfaced[p] < Ttl}

\* _render: the first engine whose page has products, else the last page there was;
\* an engine that fails or finds nothing gives no page
Rendered(pages) ==
  LET good == {k \in DOMAIN pages : pages[k] \notin {NoPage, Bare}}
      first == CHOOSE k \in good : \A m \in good : k <= m
  IN IF good # {} THEN pages[first] ELSE IF Bare \in Range(pages) THEN Bare ELSE NoPage

\* what AmazonSearchPollable.poll makes of the page: its first rows
Found(pg) ==
  IF pg \in {NoPage, Bare} THEN <<>>
  ELSE SubSeq(pg, 1, IF Len(pg) < MaxResults THEN Len(pg) ELSE MaxResults)

\* the rows of a term, with the details that arrived: each term fetches those of its own rows
TermRows(found, details) == [k \in DOMAIN found |-> [id |-> found[k], full |-> found[k] \in details]]

\* the rows of all terms, the first one of each source id
IdsOf(list) == {list[k].id : k \in DOMAIN list}
AddedRow(out, row) == IF row.id \in IdsOf(out) THEN out ELSE Append(out, row)
AddedRows(out, found) == Folded(AddedRow, out, found)
Combined(results) == Folded(AddedRows, <<>>, results)

SweepBegin ==
  /\ sweep = NoSweep
  /\ sweep' = FreshIds /\ fetched' = {}
  /\ UNCHANGED <<surfaced, surfacedDisk, rows, enriched, lost>>

\* MUTANT: an id is remembered only when its details were fetched, and forgotten otherwise
MarkedOnly(ids) == [p \in Products |-> IF p \in ids \ sweep THEN 0 ELSE Ttl]

\* mark: every id the sweep surfaced, skipped ones and ones whose detail page failed included
MarkSeen(ids) == [p \in Products |-> IF p \in ids THEN 0 ELSE surfaced[p]]

\* the rows of a sweep: detailed[k] are the products whose details arrived for term k
Results(pages, detailed) ==
  [k \in DOMAIN pages |-> TermRows(Found(Rendered(pages[k])), detailed[k])]
SweepRows(pages, detailed) == Combined(Results(pages, detailed))

\* every term has its page, and some of its rows have the details asked for; the rows are then
\* compared (decide_changed), also when there are none, and become the previous ones
SweepEnd(pages, detailed) ==
  /\ sweep # NoSweep /\ sweep' = NoSweep
  /\ \A k \in DOMAIN pages : detailed[k] \subseteq ToSet(Found(Rendered(pages[k]))) \ sweep
  /\ fetched' = UNION {detailed[k] : k \in DOMAIN pages}
  /\ enriched' = [p \in Products |-> IF p \in fetched' THEN 0 ELSE enriched[p]]
  /\ rows' = SweepRows(pages, detailed)
  /\ surfaced' = MarkSeen(IdsOf(rows'))
  /\ surfacedDisk' \in {surfaced', surfacedDisk}   \* OSError: logged
  /\ UNCHANGED lost

MarketTick ==
  /\ surfaced' = Aged(surfaced) /\ surfacedDisk' = Aged(surfacedDisk) /\ enriched' = Aged(enriched)
  /\ UNCHANGED <<sweep, rows, fetched, lost>>

\* a restart: the file is read, expired ids left out
MarketRestart ==
  /\ surfaced' = surfacedDisk /\ sweep' = NoSweep /\ rows' = NoRows /\ fetched' = {}
  /\ lost' = (lost \/ sweep # NoSweep \/ surfaced # surfacedDisk)
  /\ UNCHANGED <<surfacedDisk, enriched>>

-----------------------------------------------------------------------------
(* Properties *)

\* What the cache is for: a sweep fetches no detail page that an earlier one fetched within
\* the TTL, whatever restarts lie between, unless one of them lost marks.  (Terms of one
\* sweep that find the same product each fetch its page.)
DetailsFetchedOncePerTtl ==
  [][(sweep # NoSweep /\ sweep' = NoSweep /\ ~lost) => \A p \in fetched' : enriched[p] = Ttl]_marketVars

=============================================================================
