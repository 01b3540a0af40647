---------------------------- MODULE PagePollable ----------------------------
(***************************************************************************)
(* The pollables that compare a fetched page with the previous result:     *)
(* "site" (ujin/poll/site.py with ujin/diff), "http" (http.py), "rss"      *)
(* (rss.py) and "plain" (api.py, graphql.py, browser.py, command.py: no    *)
(* validators, one value to compare).  A poll reads the previous result    *)
(* before it awaits the fetch.  A page is what each selector finds on it,  *)
(* Empty for no match; its ETag is the page itself.  A feed is read as its *)
(* entries in their order: what is found in each place is the entry's      *)
(* link, Empty for an entry without one.                                   *)
(***************************************************************************)
EXTENDS Integers, FiniteSets, SequencesExt, Folding

CONSTANTS
  Selectors, Watched,   \* what is on the page, and the selectors a site pollable watches
  Contents, Empty,      \* what a selector may find
  Places,               \* the selectors in the order in which a feed has its entries
  Snapshots,                \* what the page may be
  NoPrev, NoTag, NoPoll,
  MaxEdits              \* bound: edits of the page

\* what a poll may compare
Fingerprints == [Selectors -> Contents] \cup [Watched -> Contents] \cup Seq(Contents)
Blank == [s \in Selectors |-> Empty]

ASSUME PageAssumption ==
  /\ Watched \subseteq Selectors /\ Empty \in Contents /\ MaxEdits \in Nat
  /\ NoPrev \notin [Selectors -> Contents] \cup [Watched -> Contents]
  /\ Places \in Seq(Selectors) /\ Snapshots \subseteq [Selectors -> Contents]
  /\ NoPrev \notin Seq(Contents)
  /\ NoPrev \notin [fp : Fingerprints, regions : [Watched -> Contents] \cup {<<>>},
                    tag : [Selectors -> Contents] \cup {NoTag}]

VARIABLES
  page,      \* the page now (the server's side)
  edits,     \* how often it was edited
  held,      \* prev of the target: the last ok result, or NoPrev
  asking,    \* the previous result the poll under way was given, or NoPoll
  reported,  \* history: the fingerprint of the last result with changed = TRUE, or NoPrev
  notice     \* history: what the last such result said had changed, and was compared with

pageVars == <<page, edits, held, asking, reported, notice>>

NoNotice == [changed |-> {}, added |-> {}, removed |-> {}, was |-> NoPrev]

PageInit ==
  /\ page = Blank /\ edits = 0
  /\ held = NoPrev /\ asking = NoPoll /\ reported = NoPrev /\ notice = NoNotice

PageEdit(new) ==
  /\ edits < MaxEdits /\ edits' = edits + 1
  /\ page # new /\ page' = new
  /\ UNCHANGED <<held, asking, reported, notice>>

\* region_fingerprints: one per watched selector, that of the empty text when it finds nothing
Regions(kind) == IF kind = "site" THEN [s \in Watched |-> page[s]] ELSE <<>>

\* parse_feed: the links of a feed's entries as they come, repetitions included; an entry
\* without one is left out
AddedLink(links, link) == IF link = Empty THEN links ELSE Append(links, link)
FeedUrls == Folded(AddedLink, <<>>, [n \in DOMAIN Places |-> page[Places[n]]])

\* what a path digs out of a document
Slice == [s \in Watched |-> page[s]]

\* what is compared: the regions, the body, the list of URLs or the slice
FingerprintOf(kind) ==
  CASE kind = "site" -> Regions(kind)
    [] kind = "http" -> page
    [] kind = "rss" -> FeedUrls
    [] kind = "plain" -> Slice

\* decide_changed
Differs(fp, prev) == prev = NoPrev \/ prev.fp # fp

\* ChangeDetector.diff
Diff(old, new) ==
  [NoNotice EXCEPT !.changed = {s \in DOMAIN new \cap DOMAIN old : old[s] # new[s]},
                   !.added = DOMAIN new \ DOMAIN old,
                   !.removed = DOMAIN old \ DOMAIN new]

\* new_urls of a feed, without their order: those the previous payload did not have
NewUrls(prev) == ToSet(FeedUrls) \ (IF prev = NoPrev THEN {} ELSE ToSet(prev.fp))

PagePoll ==
  /\ asking = NoPoll
  /\ asking' = held
  /\ UNCHANGED <<page, edits, held, reported, notice>>

\* an exception, a timeout, 429, 5xx, a GraphQL error, a command that fails: prev stays
PageFails ==
  /\ asking # NoPoll
  /\ asking' = NoPoll
  /\ UNCHANGED <<page, edits, held, reported, notice>>

Tag(prev) == IF prev = NoPrev THEN NoTag ELSE prev.tag

\* MUTANT: a 304 forgets the regions it was compared with
KeptNothing(prev) == [prev EXCEPT !.regions = <<>>]

\* the result of a 304: fingerprint, regions and validators of the previous one
Kept(prev) == prev

\* 304, where the pollable sends validators
PageNotModified(kind) ==
  /\ asking # NoPoll /\ kind \in {"site", "http"}
  /\ Tag(asking) = page
  /\ held' = Kept(asking)
  /\ asking' = NoPoll
  /\ UNCHANGED <<page, edits, reported, notice>>

\* any other answer is content, an error page with a 4xx status too; servers may leave out the ETag
Result(kind, tag) == [fp |-> FingerprintOf(kind), regions |-> Regions(kind), tag |-> tag]
OldRegions == IF asking = NoPrev THEN <<>> ELSE asking.regions
PageChanged(kind) == Differs(FingerprintOf(kind), asking)
Told(kind) ==
  IF kind = "rss" THEN [NoNotice EXCEPT !.added = NewUrls(asking)]
  ELSE Diff(OldRegions, Regions(kind))
PageAnswers(kind) ==
  /\ asking # NoPoll
  /\ \E tag \in IF kind \in {"plain", "rss"} THEN {NoTag} ELSE {NoTag, page} : held' = Result(kind, tag)
  /\ IF PageChanged(kind)
     THEN /\ reported' = FingerprintOf(kind)
          /\ notice' = [Told(kind) EXCEPT !.was = reported]
     ELSE UNCHANGED <<reported, notice>>
  /\ asking' = NoPoll
  /\ UNCHANGED <<page, edits>>

\* a restart: the target starts without a previous result
PageRestart ==
  /\ held' = NoPrev /\ asking' = NoPoll /\ reported' = NoPrev /\ notice' = NoNotice
  /\ UNCHANGED <<page, edits>>

-----------------------------------------------------------------------------
(* Properties *)

\* A site's notice names exactly the watched selectors whose content is not what was last
\* reported, as changed ones after the first report: one that finds nothing has the
\* fingerprint of the empty text.  A feed's names the URLs that were not in the list last
\* reported, which are none when that list was only reordered, repeated or cut.  And nothing
\* is told twice or not at all: what the next poll compares with is what was last reported,
\* and every report is of something else than the one before.
NoticeIsExact(kind) ==
  /\ held = NoPrev <=> reported = NoPrev
  /\ held # NoPrev => held.fp = reported
  /\ notice.was = NoPrev \/ notice.was # reported
  /\ reported # NoPrev =>
    CASE kind = "site" ->
           IF notice.was = NoPrev THEN notice.added = Watched /\ notice.changed = {}
           ELSE /\ notice.changed = {s \in Watched : notice.was[s] # reported[s]}
                /\ notice.added = {} /\ notice.removed = {}
      [] kind = "rss" -> notice.added = ToSet(reported) \ (IF notice.was = NoPrev THEN {} ELSE ToSet(notice.was))
      [] OTHER -> TRUE
=============================================================================
