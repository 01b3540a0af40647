----------------------------- MODULE PartProofs -----------------------------
(***************************************************************************)
(* Proofs about the parts of a job flow, each on its own: the pollables    *)
(* that remember something, which are the learned search terms (Harvest),  *)
(* the details fetched lately (Marketplace) and the page compared with the *)
(* last one (PagePollable), the sinks with their spool (JobPipeline), and  *)
(* the files that say what the jobs are (JobFiles).  Then about the flow   *)
(* (JobFlow), in which a step of a part is a step of its specification     *)
(* here and every other step leaves its variables alone, and about the     *)
(* batch of scrapes (ScrapeBatch).                                         *)
(***************************************************************************)
EXTENDS JobFlow, ScrapeBatch, FiniteSetTheorems, SequenceTheorems, TLAPS

\* The loop over the fragments a job file includes: they are merged into the bare one.  Facts
\* about numbers are cited by way of it, too.
MergeAfter(bare, merger, frag) == DeepMerge(merger, frag)
NodeSoFar(bare, n, merger) == IsNode(merger) /\ (n = 0 => merger = bare)
Loop == INSTANCE FoldProofs WITH Op <- MergeAfter, Good <- NodeSoFar

HarvestNext ==
  \/ \E terms, bankTerms \in SUBSET Words : HarvestBegin(terms, bankTerms)
  \/ \E titles \in Seq(Words) : HarvestEnd(titles)
  \/ HarvestRestart
HarvestSpec == HarvestInit /\ [][HarvestNext]_harvestVars

MarketNext ==
  \/ SweepBegin \/ MarketTick \/ MarketRestart
  \/ \E pages \in Searches : \E detailed \in [DOMAIN pages -> SUBSET Products] : SweepEnd(pages, detailed)
MarketSpec == MarketInit /\ [][MarketNext]_marketVars

-----------------------------------------------------------------------------
(* Learned terms *)

Terms == [pool : SUBSET Words, used : SUBSET Words]

\* A term in the pool was never drawn, in memory or in the file; what was drawn is marked as
\* used, unless a restart forgot it.
HarvestInv ==
  /\ store \in Terms /\ storeDisk \in Terms
  /\ store.pool \cap store.used = {} /\ storeDisk.pool \cap storeDisk.used = {}
  /\ searched \in [Words -> Nat] /\ torn \in BOOLEAN
  /\ ~ torn => \A w \in Words : (searched[w] > 0 => w \in store.used) /\ searched[w] <= 1

\* Learning adds words that are new, and draws none.
LEMMA LearnedIsNew ==
  ASSUME HarvestInv, NEW titles \in Seq(Words)
  PROVE  /\ Learned(titles) \in Terms /\ Learned(titles).used = store.used
         /\ Learned(titles).pool \cap store.used = {}
<1> DEFINE new == ToSet(titles) \ (store.used \cup store.pool)
<1>1. ToSet(titles) \subseteq Words
  BY DEF ToSet
<1>2. PICK fit \in SUBSET new : Learned(titles) = [store EXCEPT !.pool = store.pool \cup fit]
  BY DEF Learned
<1> QED BY <1>1, <1>2 DEF HarvestInv, Terms

LEMMA HarvestKeeps == HarvestInv /\ [HarvestNext]_harvestVars => HarvestInv'
<1> SUFFICES ASSUME HarvestInv, [HarvestNext]_harvestVars PROVE HarvestInv'
  OBVIOUS
<1>1. ASSUME NEW terms \in SUBSET Words, NEW bankTerms \in SUBSET Words, HarvestBegin(terms, bankTerms)
      PROVE  HarvestInv'
  <2>1. store' = [pool |-> store.pool \ terms, used |-> store.used \cup terms] /\ terms \subseteq store.pool
    BY <1>1 DEF HarvestBegin, Drawn
  <2>2. \A w \in Words : searched'[w] = IF w \in terms THEN Smaller(searched[w] + 1, 2) ELSE searched[w]
    BY <1>1 DEF HarvestBegin
  <2>3. searched' \in [Words -> Nat]
    BY <1>1 DEF HarvestBegin, HarvestInv, Smaller
  <2>4. ASSUME ~ torn, NEW w \in Words
        PROVE  (searched'[w] > 0 => w \in store'.used) /\ searched'[w] <= 1
    BY <2>1, <2>2, <2>4 DEF HarvestInv, Terms, Smaller
  <2>5. UNCHANGED <<storeDisk, torn>>
    BY <1>1 DEF HarvestBegin
  <2> QED BY <2>1, <2>3, <2>4, <2>5 DEF HarvestInv, Terms
<1>2. ASSUME NEW titles \in Seq(Words), HarvestEnd(titles) PROVE HarvestInv'
  BY <1>2, LearnedIsNew DEF HarvestEnd, HarvestInv
<1>3. CASE HarvestRestart
  BY <1>3 DEF HarvestRestart, HarvestInv
<1>4. CASE UNCHANGED harvestVars
  BY <1>4 DEF harvestVars, HarvestInv
<1> QED BY <1>1, <1>2, <1>3, <1>4 DEF HarvestNext

\* For any vocabulary, pool size and titles a learned term is searched once, unless a restart
\* lost what a sweep had drawn (poll/amazon.py: _HarvestStore).
THEOREM TermsSearchedOnce == HarvestSpec => []HarvestedOnce
<1>1. HarvestInit => HarvestInv
  <2> SUFFICES ASSUME HarvestInit PROVE HarvestInv
    OBVIOUS
  <2>1. store \in Terms /\ store.pool = {} /\ storeDisk = store
    BY DEF HarvestInit, Terms
  <2>2. searched \in [Words -> Nat] /\ \A w \in Words : ~ (searched[w] > 0) /\ searched[w] <= 1
    BY DEF HarvestInit
  <2>3. torn \in BOOLEAN
    BY DEF HarvestInit
  <2>4. store.pool \cap store.used = {}
    BY <2>1
  <2> QED BY <2>1, <2>2, <2>3, <2>4, Zenon DEF HarvestInv
<1>2. HarvestInv => HarvestedOnce
  BY DEF HarvestInv, HarvestedOnce
<1> QED BY <1>1, <1>2, HarvestKeeps, PTL DEF HarvestSpec

-----------------------------------------------------------------------------
(* What a page is said to show *)

Kinds == {"site", "http", "rss", "plain"}

\* Between two answers the previous result is what was last reported; a poll compares with it.
Agrees(kind) ==
  /\ page \in [Selectors -> Contents]
  /\ asking # NoPoll => asking = held
  /\ held # NoPrev => held.regions = IF kind = "site" THEN reported ELSE <<>>
  /\ kind = "site" /\ reported # NoPrev => DOMAIN reported = Watched
PageInv(kind) == Agrees(kind) /\ NoticeIsExact(kind)

\* A feed's links are read off its places.
LinkAfter(p, links, link) == AddedLink(links, link)
LinksSoFar(p, n, links) == links \in Seq(Contents)
Linking == INSTANCE FoldProofs WITH Op <- LinkAfter, Good <- LinksSoFar

LEMMA FeedTypes == ASSUME page \in [Selectors -> Contents] PROVE FeedUrls \in Seq(Contents)
<1> DEFINE list == [n \in DOMAIN Places |-> page[Places[n]]]
           links == Linking!Looped(list, <<>>, list)
<1>1. Places \in Seq(Selectors)
  BY PageAssumption DEF PageAssumption
<1>2. list \in Seq(Contents)
  BY <1>1
<1>3. Len(list) \in Nat /\ \A n \in 1 .. Len(list) : list[n] \in Contents
  <2> HIDE DEF list
  <2> QED BY <1>2
<1> HIDE DEF list
<1>4. LinksSoFar(list, 0, <<>>)
  BY DEF LinksSoFar
<1>5. \A x : \A n \in 1 .. Len(list) : LinksSoFar(list, n - 1, x) => LinksSoFar(list, n, LinkAfter(list, x, list[n]))
  BY <1>3 DEF LinksSoFar, LinkAfter, AddedLink
<1>6. LinksSoFar(list, Len(list), links)
  BY <1>3, <1>4, <1>5, Linking!FoldKeeps
<1>7. links = FeedUrls
  BY Zenon DEF LinkAfter, FeedUrls, list, Linking!Looped, Linking!Folded, Folded
<1> QED BY <1>6, <1>7 DEF LinksSoFar

LEMMA ResultTypes ==
  ASSUME NEW kind \in Kinds, page \in [Selectors -> Contents], NEW tag \in {NoTag, page}
  PROVE  FingerprintOf(kind) # NoPrev /\ Result(kind, tag) # NoPrev
<1>1. Slice \in [Watched -> Contents] /\ FeedUrls \in Seq(Contents)
  BY PageAssumption, FeedTypes DEF PageAssumption, Slice
<1>2. Regions(kind) \in [Watched -> Contents] \cup {<<>>} /\ (kind = "site" => Regions(kind) \in [Watched -> Contents])
  BY PageAssumption DEF PageAssumption, Regions
<1>3. FingerprintOf(kind) \in Fingerprints
  BY <1>1, <1>2 DEF Kinds, FingerprintOf, Fingerprints
<1>4. tag \in [Selectors -> Contents] \cup {NoTag}
  OBVIOUS
<1>5. FingerprintOf(kind) # NoPrev
  BY <1>3, PageAssumption DEF PageAssumption, Fingerprints
<1>6. Result(kind, tag) \in [fp : Fingerprints, regions : [Watched -> Contents] \cup {<<>>},
                            tag : [Selectors -> Contents] \cup {NoTag}]
  BY <1>2, <1>3, <1>4 DEF Result
<1> QED BY <1>5, <1>6, PageAssumption DEF PageAssumption

\* A result that differs from the last one is told of as what it adds to it.
LEMMA AnswerIsTold ==
  ASSUME NEW kind \in Kinds, PageInv(kind), PageAnswers(kind)
  PROVE  PageInv(kind)'
<1> DEFINE fp == FingerprintOf(kind)
<1>1. PICK tag \in {NoTag, page} : held' = Result(kind, tag)
  BY DEF PageAnswers
<1>2. held' # NoPrev /\ fp # NoPrev
  BY <1>1, ResultTypes DEF PageInv, Agrees
<1>3. held'.fp = fp /\ held'.regions = Regions(kind) /\ (kind = "site" => fp = Regions(kind))
      /\ (kind # "site" => Regions(kind) = <<>>) /\ (kind = "site" => DOMAIN fp = Watched)
  BY <1>1 DEF Result, FingerprintOf, Regions
<1>4. asking = held /\ asking' = NoPoll /\ page' = page
  BY DEF PageAnswers, PageInv, Agrees
<1>5. CASE ~ PageChanged(kind)
  <2>1. held # NoPrev /\ held.fp = fp /\ UNCHANGED <<reported, notice>>
    BY <1>4, <1>5 DEF PageChanged, Differs, PageAnswers
  <2>2. reported = fp
    BY <2>1 DEF PageInv, NoticeIsExact
  <2> HIDE DEF fp
  <2> QED BY <1>2, <1>3, <1>4, <2>1, <2>2 DEF PageInv, Agrees, NoticeIsExact
<1>6. CASE PageChanged(kind)
  <2>1. reported' = fp /\ notice' = [Told(kind) EXCEPT !.was = reported]
    BY <1>6 DEF PageAnswers
  <2>2. reported = NoPrev \/ reported # fp
    BY <1>4, <1>6 DEF PageChanged, Differs, PageInv, NoticeIsExact
  <2>3. notice'.was = reported
    BY <2>1 DEF Told, Diff, NoNotice
  <2>4. Agrees(kind)'
    <3> HIDE DEF fp
    <3> QED BY <1>2, <1>3, <1>4, <2>1 DEF PageInv, Agrees
  <2>5. ASSUME kind = "rss"
        PROVE  notice'.added = ToSet(fp) \ (IF notice'.was = NoPrev THEN {} ELSE ToSet(notice'.was))
    <3>1. notice'.added = NewUrls(held)
      BY <1>4, <2>1, <2>5 DEF Told, NoNotice
    <3>2. fp = FeedUrls
      BY <2>5 DEF FingerprintOf
    <3> QED BY <2>3, <3>1, <3>2 DEF NewUrls, PageInv, NoticeIsExact
  <2>6. ASSUME kind = "site"
        PROVE  IF notice'.was = NoPrev THEN notice'.added = Watched /\ notice'.changed = {}
               ELSE /\ notice'.changed = {s \in Watched : notice'.was[s] # fp[s]}
                    /\ notice'.added = {} /\ notice'.removed = {}
    <3> DEFINE old == IF held = NoPrev THEN <<>> ELSE held.regions
    <3>1. /\ notice'.changed = {s \in DOMAIN fp \cap DOMAIN old : old[s] # fp[s]}
          /\ notice'.added = DOMAIN fp \ DOMAIN old /\ notice'.removed = DOMAIN old \ DOMAIN fp
      <4> HIDE DEF fp
      <4> QED BY <1>3, <1>4, <2>1, <2>6 DEF Told, Diff, NoNotice, OldRegions
    <3>2. CASE reported = NoPrev
      <4>1. DOMAIN old = {}
        BY <3>2 DEF PageInv, NoticeIsExact
      <4> HIDE DEF old, fp
      <4> QED BY <1>3, <2>3, <2>6, <3>1, <3>2, <4>1
    <3>3. CASE reported # NoPrev
      <4>1. old = reported /\ DOMAIN old = Watched
        BY <2>6, <3>3 DEF PageInv, Agrees, NoticeIsExact
      <4> HIDE DEF old, fp
      <4> QED BY <1>3, <2>3, <2>6, <3>1, <3>3, <4>1
    <3> QED BY <3>2, <3>3
  <2> HIDE DEF fp
  <2> QED BY <1>2, <1>3, <2>1, <2>2, <2>3, <2>4, <2>5, <2>6 DEF PageInv, NoticeIsExact
<1> QED BY <1>5, <1>6

PageNext(kind) ==
  \/ PagePoll \/ PageFails \/ PageNotModified(kind) \/ PageAnswers(kind) \/ PageRestart
  \/ \E new \in Snapshots : PageEdit(new)
PageSpec(kind) == PageInit /\ [][PageNext(kind)]_pageVars

LEMMA PageStarts == ASSUME NEW kind \in Kinds, PageInit PROVE PageInv(kind)
BY PageAssumption DEF PageAssumption, PageInit, PageInv, Agrees, NoticeIsExact, Blank, NoNotice

LEMMA PageKeeps ==
  ASSUME NEW kind \in Kinds, PageInv(kind), [PageNext(kind)]_pageVars
  PROVE  PageInv(kind)'
<1> USE DEF PageInv, Agrees, NoticeIsExact
<1>1. CASE PagePoll \/ PageFails \/ UNCHANGED pageVars
  BY <1>1 DEF PagePoll, PageFails, pageVars
<1>2. CASE PageNotModified(kind)
  BY <1>2 DEF PageNotModified, Kept
<1>3. CASE PageRestart
  BY <1>3 DEF PageRestart, NoNotice
<1>4. ASSUME NEW new \in Snapshots, PageEdit(new) PROVE PageInv(kind)'
  BY <1>4, PageAssumption DEF PageEdit, PageAssumption
<1> QED BY <1>1, <1>2, <1>3, <1>4, AnswerIsTold DEF PageNext

\* Whatever is on the page, a notice names exactly what is new since the last one, over 304s,
\* failed polls, edits under way and restarts (poll/site.py, http.py, rss.py; diff/detector.py).
THEOREM NoticesExact ==
  ASSUME NEW kind \in Kinds
  PROVE  PageSpec(kind) => []NoticeIsExact(kind)
<1>1. PageInit => PageInv(kind)
  BY PageStarts
<1>2. PageInv(kind) /\ [PageNext(kind)]_pageVars => PageInv(kind)'
  BY PageKeeps
<1>3. PageInv(kind) => NoticeIsExact(kind)
  BY DEF PageInv
<1> QED BY <1>1, <1>2, <1>3, PTL DEF PageSpec
-----------------------------------------------------------------------------
(* The sinks *)

\* A step of the pipeline; a delivery brings any events of E, whatever the stages remembered.
SinkNext(E) ==
  \/ \E j \in Jobs : PostOK(j) \/ PostRefused(j) \/ PostFails(j) \/ CsvAppend(j) \/ NextEvent(j)
  \/ \E j \in Jobs : \E run : run.events \in Seq(E) /\ Deliver(j, run)
  \/ \E b \in {"up", "down", "refuses"} : BackendTurns(b)
  \/ PipeRestart

Emits(E) == [at : {"off", "replay", "post"}, name : Nat, body : E \cup {<<>>}, tries : Int, rest : Seq(Nat)]

\* every file has a name of its own, one of the first n
File(E) == [name : Nat, body : E]
Named(E, files, n) ==
  /\ files \in Seq(File(E)) /\ n \in Nat
  /\ \A k \in DOMAIN files : files[k].name <= n
  /\ \A k, i \in DOMAIN files : files[k].name = files[i].name => k = i

\* what an emit w that is under way for an event holds
Holds(E, w, event) ==
  /\ w.at = "post" => w.body = event
  /\ w.at = "replay" => /\ w.name <= names /\ w.body \in E
                        /\ \A k \in DOMAIN spool : spool[k].name = w.name => spool[k].body = w.body

Safe == settled \cup Spooled
\* an event is safe, or a webhook has still to emit it
Stays(e) == e \in Safe \/ \E j \in Jobs : conf[j].web /\ \E k \in DOMAIN todo[j] : todo[j][k] = e

\* An event that the webhook is done with is safe.
SinkInv(E) ==
  /\ Named(E, spool, names)
  /\ todo \in [Jobs -> Seq(E)] /\ web \in [Jobs -> Emits(E)]
  /\ \A j \in Jobs : conf[j].web \in BOOLEAN
  /\ \A j \in Jobs : /\ web[j].at # "off" => todo[j] # <<>> /\ Holds(E, web[j], Head(todo[j]))
                     /\ web[j].at = "off" /\ todo[j] # <<>> /\ conf[j].web => Head(todo[j]) \in Safe
  /\ \A e \in owed : Stays(e)

LEMMA InSpool == ASSUME NEW k \in DOMAIN spool PROVE spool[k].body \in Safe
BY DEF Safe, Spooled

LEMMA FilesNamed ==
  ASSUME NEW E, NEW files, NEW n, Named(E, files, n)
  PROVE  /\ DOMAIN files = 1 .. Len(files) /\ Len(files) \in Nat
         /\ \A k \in DOMAIN files : /\ files[k] \in File(E) /\ files[k].name \in Nat /\ files[k].name <= n
                                   /\ files[k].body \in E
<1>1. files \in Seq(File(E))
  BY DEF Named
<1>2. \A k \in DOMAIN files : files[k] \in File(E)
  BY <1>1
<1> QED BY <1>1, <1>2 DEF Named, File

\* Files keep their names when some go.
LEMMA SomeGo ==
  ASSUME NEW E, NEW files, NEW n, Named(E, files, n), NEW rest \in Seq(File(E)),
         NEW from \in [DOMAIN rest -> DOMAIN files],
         \A k \in DOMAIN rest : rest[k] = files[from[k]],
         \A k, i \in DOMAIN rest : from[k] = from[i] => k = i
  PROVE  Named(E, rest, n)
BY DEF Named

\* What follows the first m elements.
LEMMA TheRest ==
  ASSUME NEW S, NEW s \in Seq(S), NEW m \in 0 .. Len(s)
  PROVE  LET rest == SubSeq(s, m + 1, Len(s)) IN
         rest \in Seq(S) /\ Len(rest) = Len(s) - m /\ \A i \in 1 .. Len(s) - m : rest[i] = s[m + i]
<1> DEFINE rest == SubSeq(s, m + 1, Len(s))
<1>1. rest \in Seq(S) /\ Len(rest) = Len(s) - m
  OBVIOUS
<1>2. ASSUME NEW i \in 1 .. Len(s) - m PROVE rest[i] = s[m + i]
  <2>1. (m + 1) + i - 1 = m + i
    OBVIOUS
  <2>2. rest[i] = s[(m + 1) + i - 1]
    OBVIOUS
  <2> QED BY <2>1, <2>2
<1> QED BY <1>1, <1>2

LEMMA OneRemoved ==
  ASSUME NEW E, NEW files, NEW n, Named(E, files, n), NEW k \in DOMAIN files
  PROVE  /\ Named(E, RemoveAt(files, k), n)
         /\ \A i \in DOMAIN RemoveAt(files, k) : \E m \in DOMAIN files : RemoveAt(files, k)[i] = files[m]
         /\ \A m \in DOMAIN files : m = k \/ \E i \in DOMAIN RemoveAt(files, k) : RemoveAt(files, k)[i] = files[m]
<1> DEFINE rest == RemoveAt(files, k)
           from == [i \in DOMAIN rest |-> IF i < k THEN i ELSE i + 1]
<1>1. files \in Seq(File(E)) /\ Len(files) \in Nat /\ DOMAIN files = 1 .. Len(files) /\ k \in 1 .. Len(files)
  BY DEF Named
<1>2. /\ rest \in Seq(File(E)) /\ Len(rest) = Len(files) - 1
      /\ \A i \in 1 .. Len(rest) : rest[i] = IF i < k THEN files[i] ELSE files[i + 1]
  <2> DEFINE before == SubSeq(files, 1, k - 1)
             after == SubSeq(files, k + 1, Len(files))
  <2>1. before \in Seq(File(E)) /\ Len(before) = k - 1 /\ \A i \in 1 .. k - 1 : before[i] = files[i]
    BY <1>1
  <2>2. after \in Seq(File(E)) /\ Len(after) = Len(files) - k /\ \A i \in 1 .. Len(files) - k : after[i] = files[k + i]
    BY <1>1, TheRest, SMTT(30)
  <2>3. rest = before \o after
    BY DEF RemoveAt
  <2> HIDE DEF rest, before, after
  <2>4. /\ rest \in Seq(File(E)) /\ Len(rest) = Len(before) + Len(after)
        /\ \A i \in 1 .. Len(before) + Len(after) :
             rest[i] = IF i <= Len(before) THEN before[i] ELSE after[i - Len(before)]
    BY <2>1, <2>2, <2>3, ConcatProperties
  <2>5. Len(before) + Len(after) = Len(files) - 1
    BY <1>1, <2>1, <2>2
  <2>6. ASSUME NEW i \in 1 .. Len(rest) PROVE rest[i] = IF i < k THEN files[i] ELSE files[i + 1]
    <3>1. CASE i < k
      BY <1>1, <2>1, <2>2, <2>4, <3>1
    <3>2. CASE ~ (i < k)
      <4>1. i - (k - 1) \in 1 .. Len(files) - k /\ k + (i - (k - 1)) = i + 1
        BY <1>1, <2>4, <2>5, <3>2
      <4>2. rest[i] = after[i - (k - 1)]
        BY <1>1, <2>1, <2>2, <2>4, <3>2
      <4> QED BY <2>2, <3>2, <4>1, <4>2
    <3> QED BY <3>1, <3>2
  <2> QED BY <2>4, <2>5, <2>6
<1>3. DOMAIN rest = 1 .. Len(files) - 1
  BY <1>1, <1>2
<1> HIDE DEF rest
<1>4. \A i \in DOMAIN rest : from[i] \in DOMAIN files /\ rest[i] = files[from[i]]
  <2> SUFFICES ASSUME NEW i \in DOMAIN rest PROVE from[i] \in DOMAIN files /\ rest[i] = files[from[i]]
    OBVIOUS
  <2>1. from[i] = IF i < k THEN i ELSE i + 1
    OBVIOUS
  <2>2. i \in 1 .. Len(rest) /\ i \in 1 .. Len(files) - 1
    BY <1>1, <1>2, <1>3
  <2> HIDE DEF from
  <2>3. from[i] \in DOMAIN files
    BY <1>1, <2>1, <2>2
  <2> QED BY <1>2, <2>1, <2>2, <2>3
<1>5. \A i, m \in DOMAIN rest : from[i] = from[m] => i = m
  BY <1>1, <1>3
<1>6. from \in [DOMAIN rest -> DOMAIN files]
  BY <1>4
<1>7. ASSUME NEW m \in DOMAIN files, m # k PROVE \E i \in DOMAIN rest : rest[i] = files[m]
  <2>1. CASE m < k
    <3>1. m \in 1 .. Len(rest) /\ m \in DOMAIN rest
      BY <1>1, <1>2, <1>3, <2>1
    <3> QED BY <1>2, <2>1, <3>1
  <2>2. CASE m > k
    <3>1. m - 1 \in DOMAIN rest /\ ~ (m - 1 < k)
      BY <1>1, <1>3, <2>2
    <3>2. rest[m - 1] = files[(m - 1) + 1] /\ (m - 1) + 1 = m
      BY <1>1, <1>2, <1>3, <3>1
    <3> QED BY <3>1, <3>2
  <2> QED BY <1>1, <1>7, <2>1, <2>2
<1> HIDE DEF from
<1>8. Named(E, rest, n)
  BY <1>2, <1>4, <1>5, <1>6, SomeGo
<1> QED BY <1>4, <1>6, <1>7, <1>8 DEF rest

LEMMA OldestRemoved ==
  ASSUME NEW E, NEW files, NEW n, Named(E, files, n), NEW m \in 0 .. Len(files)
  PROVE  LET rest == SubSeq(files, m + 1, Len(files)) IN
         /\ Named(E, rest, n)
         /\ \A i \in DOMAIN rest : \E k \in DOMAIN files : rest[i] = files[k]
         /\ \A k \in DOMAIN files : k \in 1 .. m \/ \E i \in DOMAIN rest : rest[i] = files[k]
<1> DEFINE rest == SubSeq(files, m + 1, Len(files))
           from == [i \in DOMAIN rest |-> m + i]
<1>1. files \in Seq(File(E)) /\ Len(files) \in Nat /\ DOMAIN files = 1 .. Len(files)
  BY DEF Named
<1>2. /\ rest \in Seq(File(E)) /\ Len(rest) = Len(files) - m
      /\ \A i \in 1 .. Len(files) - m : rest[i] = files[m + i]
  BY <1>1, TheRest
<1> HIDE DEF rest
<1>3. DOMAIN rest = 1 .. Len(files) - m
  BY <1>1, <1>2
<1>4. \A i \in DOMAIN rest : from[i] \in DOMAIN files /\ rest[i] = files[from[i]]
  BY <1>1, <1>2, <1>3
<1>5. \A i, k \in DOMAIN rest : from[i] = from[k] => i = k
  BY <1>1, <1>3
<1>6. from \in [DOMAIN rest -> DOMAIN files]
  BY <1>4
<1>7. ASSUME NEW k \in DOMAIN files, k \notin 1 .. m PROVE \E i \in DOMAIN rest : rest[i] = files[k]
  <2>1. k - m \in DOMAIN rest /\ m + (k - m) = k
    BY <1>1, <1>3, <1>7
  <2> QED BY <1>2, <1>3, <2>1
<1> HIDE DEF from
<1>8. Named(E, rest, n)
  BY <1>2, <1>4, <1>5, <1>6, SomeGo
<1> QED BY <1>4, <1>6, <1>7, <1>8 DEF rest

\* A step of one webhook emit: files go whose bodies are settled, none but a new one comes.
LEMMA EmitStep ==
  ASSUME NEW E, SinkInv(E), NEW j \in Jobs, NEW w \in Emits(E), web' = [web EXCEPT ![j] = w],
         UNCHANGED <<todo, owed, conf>>,
         Named(E, spool', names'), names' \in Nat, names' >= names, Safe \subseteq Safe',
         \A k \in DOMAIN spool' : spool'[k].name <= names => \E n \in DOMAIN spool : spool'[k] = spool[n],
         w.at # "off" => todo[j] # <<>> /\ Holds(E, w, Head(todo[j])),
         w.at = "off" /\ todo[j] # <<>> /\ conf[j].web => Head(todo[j]) \in Safe'
  PROVE  SinkInv(E)'
<1>1. ASSUME NEW i \in Jobs, NEW v \in Emits(E), NEW e, Holds(E, v, e)
      PROVE  Holds(E, v, e)'
  <2>1. v.name \in Nat /\ names \in Nat
    BY DEF Emits, SinkInv, Named
  <2> QED BY <1>1, <2>1 DEF Holds
<1>2. ASSUME NEW i \in Jobs
      PROVE  /\ web'[i].at # "off" => todo'[i] # <<>> /\ Holds(E, web[i], Head(todo[i]))' 
             /\ web'[i].at = "off" /\ todo'[i] # <<>> /\ conf'[i].web => Head(todo'[i]) \in Safe'
  <2>1. CASE i = j
    <3>1. web'[i] = w
      BY <2>1 DEF SinkInv
    <3>2. w.at # "off" => Holds(E, w, Head(todo[j]))'
      BY <1>1
    <3> QED BY <2>1, <3>1, <3>2 DEF Holds
  <2>2. CASE i # j
    <3>1. web'[i] = web[i] /\ web[i] \in Emits(E)
      BY <2>2 DEF SinkInv
    <3>2. web[i].at # "off" => Holds(E, web[i], Head(todo[i])) /\ todo[i] # <<>>
      BY DEF SinkInv
    <3>3. ASSUME web[i].at # "off" PROVE Holds(E, web[i], Head(todo[i]))'
      <4>1. PICK v \in Emits(E) : v = web[i]
        BY <3>1
      <4>2. PICK e : e = Head(todo[i])
        OBVIOUS
      <4>3. Holds(E, v, e)'
        BY <1>1, <3>2, <3>3, <4>1, <4>2
      <4>4. v = web'[i] /\ e = Head(todo'[i])
        BY <3>1, <4>1, <4>2
      <4> QED BY <4>3, <4>4 DEF Holds
    <3> QED BY <2>2, <3>1, <3>2, <3>3 DEF SinkInv
  <2> QED BY <2>1, <2>2
<1>3. web' \in [Jobs -> Emits(E)]
  BY DEF SinkInv
<1>4. \A e \in owed' : Stays(e)'
  BY DEF SinkInv, Stays
<1> QED BY <1>2, <1>3, <1>4 DEF SinkInv

LEMMA PostingHolds ==
  ASSUME NEW E, NEW body \in E
  PROVE  LET w == Posting(body) IN w \in Emits(E) /\ w.at # "off" /\ Holds(E, w, body)
<1>1. Retries \in Int /\ <<>> \in Seq(Nat)
  BY PipelineAssumption DEF PipelineAssumption
<1>2. Posting(body) \in Emits(E)
  BY <1>1 DEF Emits, Posting
<1> QED BY <1>2 DEF Posting, Holds

\* What an emit sets out to do holds.
LEMMA SetsOut ==
  ASSUME NEW E, Named(E, spool, names), NEW files \in Seq(Nat), NEW body \in E
  PROVE  LET w == Replaying(files, body) IN w \in Emits(E) /\ w.at # "off" /\ Holds(E, w, body)
<1> DEFINE w == Replaying(files, body)
<1>0. Retries \in Nat /\ <<>> \in Seq(Nat)
  BY PipelineAssumption DEF PipelineAssumption
<1>1. CASE \A k \in DOMAIN files : files[k] \notin Names
  <2>1. w = Posting(body)
    BY <1>1 DEF Replaying
  <2> QED BY <2>1, PostingHolds
<1>2. ASSUME NEW m \in DOMAIN files, files[m] \in Names PROVE w \in Emits(E) /\ w.at # "off" /\ Holds(E, w, body)
  <2> DEFINE k == CHOOSE k \in DOMAIN files : files[k] \in Names /\ \A i \in 1 .. k - 1 : files[i] \notin Names
  <2>1. k \in DOMAIN files /\ files[k] \in Names
    <3> DEFINE there == {i \in 1 .. Len(files) : files[i] \in Names}
    <3>0. there \subseteq Nat /\ m \in there
      BY <1>2
    <3> HIDE DEF there
    <3>1. \E i \in there : \A n \in there : i <= n
      BY <3>0, Loop!LeastOfNat
    <3>2. PICK i \in there : \A n \in there : i <= n
      BY <3>1
    <3>3. i \in DOMAIN files /\ files[i] \in Names /\ \A n \in 1 .. i - 1 : files[n] \notin Names
      BY <3>2 DEF there
    <3> QED BY <3>3
  <2>2. w = [at |-> "replay", name |-> files[k], body |-> BodyOf(files[k]), tries |-> Retries,
             rest |-> SubSeq(files, k + 1, Len(files))]
    BY <1>2 DEF Replaying
  <2> HIDE DEF k
  <2>3. k \in 1 .. Len(files)
    BY <2>1
  <2>4. Place(files[k]) \in DOMAIN spool /\ spool[Place(files[k])].name = files[k]
    BY <2>1 DEF Names, Place
  <2>5. SubSeq(files, k + 1, Len(files)) \in Seq(Nat) /\ files[k] \in Nat /\ files[k] <= names
    <3>1. files[k] \in Nat /\ files[k] <= names
      BY <2>4, FilesNamed
    <3> QED BY <2>3, <3>1, TheRest, SMTT(30)
  <2>6. BodyOf(files[k]) \in E /\ \A n \in DOMAIN spool : spool[n].name = files[k] => spool[n].body = BodyOf(files[k])
    <3>1. PICK n \in DOMAIN spool : n = Place(files[k]) /\ spool[n].name = files[k]
      BY <2>4
    <3>2. BodyOf(files[k]) = spool[n].body /\ spool[n] \in File(E)
      BY <3>1 DEF BodyOf, Named
    <3> QED BY <3>1, <3>2 DEF Named, File
  <2> HIDE DEF w
  <2> QED BY <1>0, <2>2, <2>5, <2>6 DEF Emits, Holds
<1> QED BY <1>1, <1>2

\* The head of a new backlog is with the webhook.
LEMMA EmittingHolds ==
  ASSUME NEW E, SinkInv(E), NEW j \in Jobs, NEW events \in Seq(E), Emitting(j, events),
         UNCHANGED <<spool, names, conf>>
  PROVE  /\ todo' = [todo EXCEPT ![j] = events] /\ todo' \in [Jobs -> Seq(E)]
         /\ \E w \in Emits(E) : /\ web' = [web EXCEPT ![j] = w]
                                /\ w.at # "off" => events # <<>> /\ Holds(E, w, Head(events))
                                /\ w.at = "off" => events = <<>> \/ ~ conf[j].web
<1>1. todo' = [todo EXCEPT ![j] = events] /\ todo' \in [Jobs -> Seq(E)]
  BY DEF Emitting, SinkInv
<1>2. CASE events = <<>> \/ ~ conf[j].web
  <2>1. web' = [web EXCEPT ![j] = Off]
    BY <1>2 DEF Emitting
  <2>2. Off \in Emits(E) /\ Off.at = "off"
    BY DEF Off, Emits
  <2> QED BY <1>1, <1>2, <2>1, <2>2
<1>3. CASE ~ (events = <<>> \/ ~ conf[j].web)
  <2>1. web' = [web EXCEPT ![j] = Replaying(Listing, Head(events))]
    BY <1>3 DEF Emitting
  <2>2. Head(events) \in E
    BY <1>3
  <2>3. Listing \in Seq(Nat)
    <3>1. DOMAIN spool = 1 .. Len(spool) /\ \A k \in DOMAIN spool : spool[k].name \in Nat /\ spool[k].name <= names
      BY FilesNamed DEF SinkInv
    <3>2. Len(spool) \in Nat /\ Listing \in [1 .. Len(spool) -> Nat]
      BY <3>1 DEF Listing, SinkInv, Named
    <3> QED BY <3>2, SeqDef
  <2>4. Named(E, spool, names)
    BY DEF SinkInv
  <2> QED BY <1>1, <1>3, <2>1, <2>2, <2>3, <2>4, SetsOut
<1> QED BY <1>2, <1>3

\* An attempt that is over settles its body, or leaves it in the spool.
LEMMA OutcomeKeeps ==
  ASSUME NEW E, SinkInv(E), NEW j \in Jobs, web[j].at # "off", NEW outcome \in {"ok", "perm", "retry"},
         Outcome(j, outcome), UNCHANGED <<todo, owed, conf>>
  PROVE  SinkInv(E)'
<1>0. /\ Named(E, spool, names) /\ todo[j] # <<>> /\ Head(todo[j]) \in E
      /\ web[j] \in Emits(E) /\ Holds(E, web[j], Head(todo[j])) /\ names \in Nat /\ spool \in Seq(File(E))
  BY DEF SinkInv, Named
<1>off. Off \in Emits(E) /\ Off.at = "off"
  BY DEF Off, Emits
<1>post. LET w == Posting(Head(todo[j])) IN w \in Emits(E) /\ w.at # "off" /\ Holds(E, w, Head(todo[j]))
  BY <1>0, PostingHolds
<1>same. spool' = spool /\ names' = names =>
           /\ Named(E, spool', names') /\ names' \in Nat /\ names' >= names
           /\ \A k \in DOMAIN spool' : spool'[k].name <= names => \E n \in DOMAIN spool : spool'[k] = spool[n]
  BY <1>0
<1>1. CASE web[j].at = "replay"
  <2>1. /\ spool' = Removed(web[j].name, outcome) /\ names' = names
        /\ web' = [web EXCEPT ![j] = IF outcome = "retry" THEN Posting(Head(todo[j]))
                                                          ELSE Replaying(Rest(j), Head(todo[j]))]
        /\ settled' = IF outcome = "retry" THEN settled ELSE settled \cup {web[j].body}
    BY <1>1 DEF Outcome
  <2>2. CASE outcome = "retry"
    <3>1. spool' = spool /\ settled' = settled
      BY <2>1, <2>2 DEF Removed
    <3> DEFINE w == Posting(Head(todo[j]))
    <3>2. w \in Emits(E) /\ w.at # "off" /\ Holds(E, w, Head(todo[j]))
      BY <1>post
    <3>3. web' = [web EXCEPT ![j] = w]
      BY <2>1, <2>2
    <3>4. Safe' = Safe
      BY <3>1 DEF Safe, Spooled
    <3> HIDE DEF w
    <3> QED BY <1>0, <1>same, <2>1, <3>1, <3>2, <3>3, <3>4, EmitStep
  <2>3. CASE outcome # "retry"
    <3> DEFINE w == Replaying(Rest(j), Head(todo[j]))
    <3>1. web' = [web EXCEPT ![j] = w] /\ settled' = settled \cup {web[j].body}
      BY <2>1, <2>3
    <3>2. w \in Emits(E) /\ w.at # "off" /\ Holds(E, w, Head(todo[j]))
      <4>1. Rest(j) \in Seq(Nat)
        BY <1>0 DEF Rest, Emits
      <4> QED BY <1>0, <4>1, SetsOut
    <3>3. /\ Named(E, spool', names)
          /\ \A k \in DOMAIN spool' : \E n \in DOMAIN spool : spool'[k] = spool[n]
          /\ \A n \in DOMAIN spool : spool[n].name = web[j].name \/ \E k \in DOMAIN spool' : spool'[k] = spool[n]
      <4>1. CASE web[j].name \notin Names
        BY <1>0, <2>1, <2>3, <4>1 DEF Removed
      <4>2. CASE web[j].name \in Names
        <5>1. spool' = RemoveAt(spool, Place(web[j].name))
          BY <2>1, <2>3, <4>2 DEF Removed
        <5>2. Place(web[j].name) \in DOMAIN spool /\ spool[Place(web[j].name)].name = web[j].name
          BY <4>2 DEF Names, Place
        <5> QED BY <1>0, <5>1, <5>2, OneRemoved
      <4> QED BY <4>1, <4>2
    <3>4. Safe \subseteq Safe'
      <4> SUFFICES ASSUME NEW e \in Safe PROVE e \in Safe'
        OBVIOUS
      <4>1. CASE e \in settled
        BY <3>1, <4>1 DEF Safe
      <4>2. ASSUME NEW n \in DOMAIN spool, e = spool[n].body PROVE e \in Safe'
        <5>1. CASE spool[n].name = web[j].name
          BY <1>0, <1>1, <3>1, <4>2, <5>1 DEF Holds, Safe
        <5>2. CASE spool[n].name # web[j].name
          BY <3>3, <4>2, <5>2 DEF Safe, Spooled
        <5> QED BY <5>1, <5>2
      <4> QED BY <4>1, <4>2 DEF Safe, Spooled
    <3> HIDE DEF w
    <3>5. /\ Named(E, spool', names') /\ names' \in Nat /\ names' >= names
          /\ \A k \in DOMAIN spool' : spool'[k].name <= names => \E n \in DOMAIN spool : spool'[k] = spool[n]
      BY <1>0, <2>1, <3>3
    <3> QED BY <1>0, <3>1, <3>2, <3>4, <3>5, EmitStep
  <2> QED BY <2>2, <2>3
<1>2. CASE web[j].at = "post"
  <2>1. web' = [web EXCEPT ![j] = Off] /\ web[j].body = Head(todo[j])
    BY <1>0, <1>2 DEF Outcome, Holds
  <2>2. CASE settled' = settled \cup {web[j].body} /\ UNCHANGED <<spool, names>>
    <3>1. Safe \subseteq Safe' /\ Head(todo[j]) \in Safe'
      BY <2>1, <2>2 DEF Safe, Spooled
    <3> QED BY <1>off, <1>same, <2>1, <2>2, <3>1, EmitStep
  <2>3. ASSUME ~ (settled' = settled \cup {web[j].body} /\ UNCHANGED <<spool, names>>)
        PROVE  SinkInv(E)'
    <3> DEFINE over == Len(spool) - SpoolMax + 1
               n == IF over > 0 THEN over ELSE 0
               kept == SubSeq(spool, n + 1, Len(spool))
               evicted == {spool[k].body : k \in 1 .. n}
               new == [name |-> names + 1, body |-> web[j].body]
    <3>1. \/ names' = names + 1 /\ spool' = Append(kept, new) /\ settled' = settled \cup evicted
          \/ spool' = kept /\ settled' = settled \cup evicted \cup {web[j].body} /\ names' = names
      BY <1>2, <2>3 DEF Outcome
    <3>2. n \in 0 .. Len(spool)
      BY <1>0, PipelineAssumption DEF PipelineAssumption
    <3> HIDE DEF over, n
    <3>3. /\ Named(E, kept, names)
          /\ \A i \in DOMAIN kept : \E k \in DOMAIN spool : kept[i] = spool[k]
          /\ \A k \in DOMAIN spool : k \in 1 .. n \/ \E i \in DOMAIN kept : kept[i] = spool[k]
      <4>1. Named(E, spool, names)
        BY <1>0
      <4> QED BY <3>2, <4>1, OldestRemoved
    <3>4. ASSUME NEW e \in Safe PROVE e \in settled \cup evicted \/ \E i \in DOMAIN kept : kept[i].body = e
      <4>1. CASE e \in settled
        BY <4>1
      <4>2. ASSUME NEW k \in DOMAIN spool, spool[k].body = e
            PROVE  e \in settled \cup evicted \/ \E i \in DOMAIN kept : kept[i].body = e
        <5> HIDE DEF kept
        <5> QED BY <3>3, <4>2
      <4> QED BY <3>4, <4>1, <4>2 DEF Safe, Spooled
    <3> HIDE DEF kept, evicted
    <3>5. CASE spool' = kept /\ settled' = settled \cup evicted \cup {web[j].body} /\ names' = names
      <4>1. Safe \subseteq Safe' /\ Head(todo[j]) \in Safe'
        BY <2>1, <3>4, <3>5 DEF Safe, Spooled
      <4>2. /\ Named(E, spool', names') /\ names' \in Nat /\ names' >= names
            /\ \A k \in DOMAIN spool' : spool'[k].name <= names => \E m \in DOMAIN spool : spool'[k] = spool[m]
        BY <1>0, <3>3, <3>5
      <4> QED BY <1>off, <2>1, <4>1, <4>2, EmitStep
    <3>6. CASE names' = names + 1 /\ spool' = Append(kept, new) /\ settled' = settled \cup evicted
      <4>1. new \in File(E) /\ new.name = names + 1 /\ new.body = Head(todo[j])
        BY <1>0, <2>1 DEF File
      <4> HIDE DEF new
      <4>2. kept \in Seq(File(E)) /\ DOMAIN kept = 1 .. Len(kept) /\ Len(kept) \in Nat
        BY <3>3 DEF Named
      <4>3. /\ spool' \in Seq(File(E)) /\ DOMAIN spool' = 1 .. Len(kept) + 1
            /\ \A k \in 1 .. Len(kept) : spool'[k] = kept[k]
            /\ spool'[Len(kept) + 1] = new
        BY <3>6, <4>1, <4>2
      <4>4. Named(E, spool', names')
        <5>1. \A k \in 1 .. Len(kept) : kept[k].name \in Nat /\ kept[k].name <= names
          BY <3>3, <4>2, FilesNamed
        <5>2. \A k \in DOMAIN spool' : spool'[k].name <= names'
          BY <1>0, <3>6, <4>1, <4>2, <4>3, <5>1
        <5>3. \A k, i \in DOMAIN spool' : spool'[k].name = spool'[i].name => k = i
          <6> SUFFICES ASSUME NEW k \in DOMAIN spool', NEW i \in DOMAIN spool', spool'[k].name = spool'[i].name
                       PROVE  k = i
            OBVIOUS
          <6>1. CASE k \in 1 .. Len(kept) /\ i \in 1 .. Len(kept)
            BY <3>3, <4>2, <4>3, <6>1 DEF Named
          <6>2. CASE ~ (k \in 1 .. Len(kept) /\ i \in 1 .. Len(kept))
            BY <1>0, <4>1, <4>2, <4>3, <5>1, <6>2
          <6> QED BY <6>1, <6>2
        <5> QED BY <1>0, <3>6, <4>3, <5>2, <5>3 DEF Named
      <4>5. Safe \subseteq Safe' /\ Head(todo[j]) \in Safe'
        <5>1. Head(todo[j]) \in Safe'
          BY <4>1, <4>2, <4>3 DEF Safe, Spooled
        <5>2. ASSUME NEW i \in DOMAIN kept PROVE kept[i].body \in Safe'
          BY <4>2, <4>3 DEF Safe, Spooled
        <5>3. settled \cup evicted \subseteq Safe'
          BY <3>6 DEF Safe
        <5> QED BY <3>4, <5>1, <5>2, <5>3
      <4>6. \A k \in DOMAIN spool' : spool'[k].name <= names => \E m \in DOMAIN spool : spool'[k] = spool[m]
        <5> SUFFICES ASSUME NEW k \in DOMAIN spool', spool'[k].name <= names
                     PROVE  \E m \in DOMAIN spool : spool'[k] = spool[m]
          OBVIOUS
        <5>1. k \in 1 .. Len(kept)
          BY <1>0, <4>1, <4>2, <4>3
        <5> QED BY <3>3, <4>2, <4>3, <5>1
      <4>7. names' \in Nat /\ names' >= names
        BY <1>0, <3>6
      <4> QED BY <1>off, <2>1, <4>4, <4>5, <4>6, <4>7, EmitStep
    <3> QED BY <3>1, <3>5, <3>6
  <2> QED BY <2>2, <2>3
<1> QED BY <1>0, <1>1, <1>2 DEF Emits

LEMMA SinkStep == ASSUME NEW E, SinkInv(E), [SinkNext(E)]_pipeVars PROVE SinkInv(E)'
<1>same. UNCHANGED <<spool, names>> => Named(E, spool', names')
  BY DEF SinkInv
\* what a new backlog of one job changes
<1>new. ASSUME NEW j \in Jobs, NEW events \in Seq(E), Emitting(j, events), UNCHANGED <<spool, names, settled, conf>>,
               \A e \in owed' : e \in Safe \/ (\E i \in Jobs \ {j} : conf[i].web /\ \E k \in DOMAIN todo[i] : todo[i][k] = e)
                                           \/ (conf[j].web /\ \E k \in DOMAIN events : events[k] = e)
        PROVE  SinkInv(E)'
  <2>1. Safe' = Safe
    BY <1>new DEF Safe, Spooled
  <2>2. PICK w \in Emits(E) : /\ web' = [web EXCEPT ![j] = w]
                              /\ w.at # "off" => events # <<>> /\ Holds(E, w, Head(events))
                              /\ w.at = "off" => events = <<>> \/ ~ conf[j].web
    BY <1>new, EmittingHolds
  <2>3. todo' = [todo EXCEPT ![j] = events] /\ todo' \in [Jobs -> Seq(E)]
    BY <1>new, EmittingHolds
  <2>4. web' \in [Jobs -> Emits(E)] /\ \A i \in Jobs : conf'[i].web \in BOOLEAN
    BY <1>new, <2>2 DEF SinkInv
  <2>5. ASSUME NEW i \in Jobs
        PROVE  /\ web'[i].at # "off" => todo'[i] # <<>> /\ Holds(E, web[i], Head(todo[i]))'
               /\ web'[i].at = "off" /\ todo'[i] # <<>> /\ conf'[i].web => Head(todo'[i]) \in Safe'
    <3>1. CASE i = j
      <4>1. web'[i] = w /\ todo'[i] = events
        BY <2>2, <2>3, <3>1 DEF SinkInv
      <4> QED BY <1>new, <2>2, <3>1, <4>1 DEF Holds
    <3>2. CASE i # j
      <4>1. web'[i] = web[i] /\ todo'[i] = todo[i]
        BY <2>2, <2>3, <3>2 DEF SinkInv
      <4> QED BY <1>new, <2>1, <4>1 DEF SinkInv, Holds
    <3> QED BY <3>1, <3>2
  <2>6. ASSUME NEW e \in owed' PROVE Stays(e)'
    <3>1. CASE e \in Safe
      BY <2>1, <3>1 DEF Stays
    <3>2. ASSUME NEW i \in Jobs \ {j}, conf[i].web, NEW k \in DOMAIN todo[i], todo[i][k] = e PROVE Stays(e)'
      <4>1. todo'[i] = todo[i]
        BY <2>3 DEF SinkInv
      <4> QED BY <1>new, <3>2, <4>1 DEF Stays
    <3>3. ASSUME conf[j].web, NEW k \in DOMAIN events, events[k] = e PROVE Stays(e)'
      <4>1. todo'[j] = events
        BY <2>3 DEF SinkInv
      <4> QED BY <1>new, <3>3, <4>1 DEF Stays
    <3> QED BY <1>new, <3>1, <3>2, <3>3
  <2> QED BY <1>same, <1>new, <2>3, <2>4, <2>5, <2>6 DEF SinkInv
\* nothing but what the property does not look at
<1>else. ASSUME UNCHANGED <<conf, todo, web, spool, settled, owed, names>> PROVE SinkInv(E)'
  BY <1>else DEF SinkInv, Holds, Stays, Safe, Spooled
<1>1. ASSUME NEW j \in Jobs, PostOK(j) PROVE SinkInv(E)'
  BY <1>1, OutcomeKeeps DEF PostOK, outside
<1>2. ASSUME NEW j \in Jobs, PostRefused(j) PROVE SinkInv(E)'
  BY <1>2, OutcomeKeeps DEF PostRefused, outside
<1>3. ASSUME NEW j \in Jobs, PostFails(j) PROVE SinkInv(E)'
  <2>1. CASE web[j].tries > 0
    <3> DEFINE w == [web[j] EXCEPT !.tries = @ - 1]
    <3>1. web' = [web EXCEPT ![j] = w] /\ UNCHANGED <<spool, settled, names, todo, owed, conf>>
      BY <1>3, <2>1 DEF PostFails, outside, SinkInv
    <3>2. web[j] \in Emits(E) /\ web[j].at # "off" /\ todo[j] # <<>> /\ Holds(E, web[j], Head(todo[j]))
      BY <1>3 DEF PostFails, SinkInv
    <3>3. w \in Emits(E) /\ w.at = web[j].at /\ w.name = web[j].name /\ w.body = web[j].body
      <4>1. web[j] \in Emits(E)
        BY <3>2
      <4>2. web[j].tries - 1 \in Int
        BY <4>1 DEF Emits
      <4> QED BY <4>1, <4>2 DEF Emits
    <3> HIDE DEF w
    <3>4. Holds(E, w, Head(todo[j])) /\ w.at # "off"
      BY <3>2, <3>3 DEF Holds
    <3>5. /\ Named(E, spool', names') /\ names' \in Nat /\ names' >= names
          /\ \A k \in DOMAIN spool' : spool'[k].name <= names => \E n \in DOMAIN spool : spool'[k] = spool[n]
      BY <3>1 DEF SinkInv, Named
    <3>6. Safe' = Safe
      BY <3>1 DEF Safe, Spooled
    <3> QED BY <3>1, <3>2, <3>3, <3>4, <3>5, <3>6, EmitStep
  <2>2. CASE ~ (web[j].tries > 0)
    BY <1>3, <2>2, OutcomeKeeps DEF PostFails, outside
  <2> QED BY <2>1, <2>2
<1>4. ASSUME NEW j \in Jobs, CsvAppend(j) PROVE SinkInv(E)'
  BY <1>4, <1>else DEF CsvAppend, outside
<1>5. ASSUME NEW j \in Jobs, NextEvent(j) PROVE SinkInv(E)'
  <2>1. todo[j] \in Seq(E) /\ todo[j] # <<>> /\ web[j].at = "off" /\ Emitting(j, Tail(todo[j]))
    BY <1>5 DEF NextEvent, Gathered, SinkInv
  <2>2. UNCHANGED <<spool, names, settled, conf, owed>>
    BY <1>5 DEF NextEvent, outside
  <2>3. ASSUME NEW k \in DOMAIN todo[j], conf[j].web
        PROVE  todo[j][k] \in Safe \/ \E n \in DOMAIN Tail(todo[j]) : Tail(todo[j])[n] = todo[j][k]
    <3>1. CASE k = 1
      BY <2>1, <2>3, <3>1 DEF SinkInv
    <3>2. CASE k # 1
      <4>1. k - 1 \in 1 .. Len(todo[j]) - 1 /\ (k - 1) + 1 = k
        BY <2>1, <3>2
      <4>2. DOMAIN Tail(todo[j]) = 1 .. Len(todo[j]) - 1 /\ \A n \in 1 .. Len(todo[j]) - 1 : Tail(todo[j])[n] = todo[j][n + 1]
        BY <2>1
      <4> QED BY <4>1, <4>2
    <3> QED BY <3>1, <3>2
  <2>4. \A e \in owed' : e \in Safe \/ (\E i \in Jobs \ {j} : conf[i].web /\ \E k \in DOMAIN todo[i] : todo[i][k] = e)
                                    \/ (conf[j].web /\ \E k \in DOMAIN Tail(todo[j]) : Tail(todo[j])[k] = e)
    <3> SUFFICES ASSUME NEW e \in owed', e \notin Safe
                 PROVE  \/ \E i \in Jobs \ {j} : conf[i].web /\ \E k \in DOMAIN todo[i] : todo[i][k] = e
                        \/ conf[j].web /\ \E k \in DOMAIN Tail(todo[j]) : Tail(todo[j])[k] = e
      OBVIOUS
    <3>1. PICK i \in Jobs : conf[i].web /\ \E k \in DOMAIN todo[i] : todo[i][k] = e
      BY <2>2 DEF SinkInv, Stays
    <3>2. CASE i # j
      BY <3>1, <3>2
    <3>3. CASE i = j
      BY <2>3, <3>1, <3>3
    <3> QED BY <3>2, <3>3
  <2>5. Tail(todo[j]) \in Seq(E)
    BY <2>1
  <2> QED BY <1>new, <2>1, <2>2, <2>4, <2>5
<1>6. ASSUME NEW j \in Jobs, NEW run, run.events \in Seq(E), Deliver(j, run)
      PROVE  SinkInv(E)'
  <2> DEFINE events == IF conf[j].web \/ conf[j].csv THEN run.events ELSE <<>>
  <2>1. /\ todo[j] = <<>> /\ Emitting(j, events) /\ UNCHANGED <<spool, names, settled, conf>>
        /\ owed' = IF conf[j].web THEN owed \cup ToSet(events) ELSE owed
    BY <1>6 DEF Deliver
  <2>2. events \in Seq(E)
    BY <1>6
  <2> HIDE DEF events
  <2>3. \A e \in owed' : e \in Safe \/ (\E i \in Jobs \ {j} : conf[i].web /\ \E k \in DOMAIN todo[i] : todo[i][k] = e)
                                    \/ (conf[j].web /\ \E k \in DOMAIN events : events[k] = e)
    <3>1. DOMAIN todo[j] = {}
      BY <2>1
    <3>2. \A e \in owed : e \in Safe \/ (\E i \in Jobs \ {j} : conf[i].web /\ \E k \in DOMAIN todo[i] : todo[i][k] = e)
      BY <3>1 DEF SinkInv, Stays
    <3>3. \A e \in owed' : e \in owed \/ (conf[j].web /\ \E k \in DOMAIN events : events[k] = e)
      BY <2>1 DEF ToSet
    <3> QED BY <3>2, <3>3
  <2> QED BY <1>new, <2>1, <2>2, <2>3
<1>7. ASSUME NEW b, BackendTurns(b) PROVE SinkInv(E)'
  BY <1>7, <1>else DEF BackendTurns
<1>8. CASE PipeRestart
  <2>1. /\ todo' = [j \in Jobs |-> <<>>] /\ web' = [j \in Jobs |-> Off] /\ owed' = owed \ Pending
        /\ UNCHANGED <<conf, spool, settled, names>>
    BY <1>8 DEF PipeRestart
  <2>2. Off \in Emits(E) /\ Off.at = "off" /\ <<>> \in Seq(E)
    BY DEF Off, Emits
  <2>3. \A e \in owed' : e \in Safe
    BY <2>1 DEF SinkInv, Stays, Pending, ToSet
  <2>4. Safe' = Safe
    BY <2>1 DEF Safe, Spooled
  <2> QED BY <1>same, <2>1, <2>2, <2>3, <2>4 DEF SinkInv, Stays
<1>9. CASE UNCHANGED pipeVars
  BY <1>9, <1>else DEF pipeVars
<1> QED BY <1>1, <1>2, <1>3, <1>4, <1>5, <1>6, <1>7, <1>8, <1>9 DEF SinkNext

LEMMA SinkStarts ==
  ASSUME NEW E, PipeInit, \A j \in Jobs : conf[j].web \in BOOLEAN
  PROVE  SinkInv(E)
<1>1. todo = [j \in Jobs |-> <<>>] /\ web = [j \in Jobs |-> Off] /\ spool = <<>> /\ owed = {} /\ names = 0
  BY DEF PipeInit
<1>2. Off \in Emits(E) /\ Off.at = "off" /\ <<>> \in Seq(E)
  BY DEF Off, Emits
<1>3. Named(E, spool, names)
  BY <1>1 DEF Named
<1> QED BY <1>1, <1>2, <1>3 DEF SinkInv

\* The events there are may be more.
LEMMA SinkGrows ==
  ASSUME NEW E, SinkInv(E), NEW F, E \subseteq F
  PROVE  SinkInv(F)
<1>1. Seq(E) \subseteq Seq(F) /\ Emits(E) \subseteq Emits(F) /\ File(E) \subseteq File(F)
  BY DEF Emits, File
<1>2. Named(F, spool, names)
  <2>1. Seq(File(E)) \subseteq Seq(File(F))
    BY <1>1, SeqMonotonic
  <2> QED BY <2>1 DEF SinkInv, Named
<1>3. todo \in [Jobs -> Seq(F)] /\ web \in [Jobs -> Emits(F)]
  BY <1>1 DEF SinkInv
<1>4. \A j \in Jobs : web[j].at # "off" => Holds(F, web[j], Head(todo[j]))
  BY DEF SinkInv, Holds
<1> QED BY <1>2, <1>3, <1>4 DEF SinkInv

-----------------------------------------------------------------------------
(* Job files: one entry of a plan *)

\* what a plan may have loaded, of such jobs and such bases
Runs(T, B) == [jobs : Seq(T), ids : SUBSET {t[Id] : t \in T}, failed : SUBSET B, raised : BOOLEAN]

\* the jobs of a run are told apart by ids it has noted
Distinguished(run) ==
  /\ \A p \in DOMAIN run.jobs : run.jobs[p][Id] \in run.ids
  /\ \A p, q \in DOMAIN run.jobs : run.jobs[p][Id] = run.jobs[q][Id] => p = q

JobsOf(run) == {run.jobs[p] : p \in DOMAIN run.jobs}

\* what claiming a job comes to
Claimed(run, job, next) ==
  \/ /\ run.raised \/ job[Id] \in run.ids
     /\ next = [run EXCEPT !.raised = TRUE]
  \/ /\ ~ run.raised /\ job[Id] \notin run.ids /\ ~ Builds(job)
     /\ next = [run EXCEPT !.raised = TRUE, !.ids = @ \cup {job[Id]}]
  \/ /\ ~ run.raised /\ job[Id] \notin run.ids /\ Builds(job)
     /\ next = [run EXCEPT !.ids = @ \cup {job[Id]}, !.jobs = Append(@, job)]

LEMMA ClaimTypes ==
  ASSUME NEW T, NEW B, NEW run \in Runs(T, B), NEW job \in T
  PROVE  Claim(run, job) \in Runs(T, B) /\ Claimed(run, job, Claim(run, job))
<1>1. Append(run.jobs, job) \in Seq(T)
  BY DEF Runs
<1> HIDE DEF Builds
<1> QED BY <1>1 DEF Runs, Claim, Claimed

\* The jobs of an entry are claimed one after the other.
LEMMA ClaimsAreRead ==
  ASSUME NEW T, NEW B, NEW run \in Runs(T, B), NEW jobs \in Seq(T)
  PROVE  \E f : /\ f[0] = run /\ f[Len(jobs)] = Folded(Claim, run, jobs)
                /\ \A n \in 1 .. Len(jobs) : f[n] = Claim(f[n - 1], jobs[n])
                /\ \A n \in 0 .. Len(jobs) : f[n] \in Runs(T, B)
<1> DEFINE N == Len(jobs)
           G == [n \in 0 .. N |-> Runs(T, B)]
           step == [n \in 1 .. N |-> [g \in G[n - 1] |-> Claim(g, jobs[n])]]
           Is(f) == f = [n \in 0 .. N |-> IF n = 0 THEN run ELSE Claim(f[n - 1], jobs[n])]
<1>1. N \in Nat
  OBVIOUS
<1>2. run \in G[0]
  BY <1>1
<1>3. ASSUME NEW n \in 1 .. N, NEW g \in G[n - 1] PROVE Claim(g, jobs[n]) \in G[n]
  <2>1. g \in Runs(T, B) /\ jobs[n] \in T
    BY <1>1
  <2>2. Claim(g, jobs[n]) \in Runs(T, B)
    <3> HIDE DEF G, N, step, Is
    <3> QED BY <2>1, ClaimTypes
  <2> QED BY <1>1, <2>2
<1>4. \A n \in 1 .. N : \A g \in G[n - 1] : step[n][g] \in G[n]
  <2> HIDE DEF G, N
  <2> QED BY <1>3
<1>5. \E f : Is(f)
  <2> HIDE DEF G, N
  <2>1. PICK f : Loop!Recurs(f, N, run, step) /\ \A n \in 0 .. N : f[n] \in G[n]
    <3> HIDE DEF step, Is
    <3> QED BY <1>1, <1>2, <1>4, Loop!RecursionUpTo
  <2>2. ASSUME NEW n \in 1 .. N PROVE step[n][f[n - 1]] = Claim(f[n - 1], jobs[n])
    <3>1. n - 1 \in 0 .. N
      BY <1>1
    <3> QED BY <2>1, <3>1
  <2> HIDE DEF step
  <2>3. Is(f)
    BY <1>1, <2>1, <2>2 DEF Loop!Recurs
  <2> QED BY <2>3
<1> DEFINE f == CHOOSE f : Is(f)
<1>6. Is(f)
  <2> HIDE DEF Is
  <2> QED BY <1>5
<1>7. Folded(Claim, run, jobs) = f[N]
  BY DEF Folded
<1> HIDE DEF f, G, N
<1>8. f[0] = run /\ \A n \in 1 .. N : f[n] = Claim(f[n - 1], jobs[n])
  BY <1>1, <1>6
<1> HIDE DEF Is
<1>9. \A n \in 0 .. N : f[n] \in Runs(T, B)
  <2> DEFINE S == {n \in 0 .. N : f[n] \in Runs(T, B)}
  <2>1. 0 \in S
    BY <1>1, <1>8
  <2>2. ASSUME NEW n \in 1 .. N, n - 1 \in S PROVE n \in S
    <3>1. f[n - 1] \in Runs(T, B) /\ jobs[n] \in T
      BY <1>1, <2>2 DEF N
    <3>2. Claim(f[n - 1], jobs[n]) \in Runs(T, B)
      <4> HIDE DEF S, step
      <4> QED BY <3>1, ClaimTypes
    <3> QED BY <1>1, <1>8, <3>2
  <2> HIDE DEF S
  <2>3. \A n \in 0 .. N : n \in S
    BY <1>1, <2>1, <2>2, Loop!InductionUpTo
  <2> QED BY <2>3 DEF S
<1> QED BY <1>7, <1>8, <1>9 DEF N

\* a run r that took up where first was, and one a of the same jobs that took up nothing
Beside(first, r, a) ==
  /\ r.failed = first.failed /\ a.failed = {}
  /\ JobsOf(first) \subseteq JobsOf(r) /\ r.ids \subseteq first.ids \cup a.ids
  /\ ~ r.raised => ~ a.raised /\ a.ids \subseteq r.ids /\ JobsOf(a) \subseteq JobsOf(r)
  /\ ~ a.raised /\ a.ids \cap first.ids = {} => ~ r.raised
  /\ Distinguished(r)

LEMMA AppendedJob ==
  ASSUME NEW T, NEW s \in Seq(T), NEW job \in T
  PROVE  LET longer == Append(s, job) IN
         /\ {longer[p] : p \in DOMAIN longer} = {s[p] : p \in DOMAIN s} \cup {job}
         /\ DOMAIN s = 1 .. Len(s) /\ DOMAIN longer = 1 .. Len(s) + 1
         /\ \A p \in DOMAIN s : longer[p] = s[p]
         /\ longer[Len(s) + 1] = job
OBVIOUS

LEMMA JobsTaken ==
  ASSUME NEW T, NEW run, run.jobs \in Seq(T), NEW job \in T, NEW next, next.jobs = Append(run.jobs, job)
  PROVE  JobsOf(next) = JobsOf(run) \cup {job}
BY AppendedJob DEF JobsOf

LEMMA TakenKeepsApart ==
  ASSUME NEW T, NEW B, NEW run \in Runs(T, B), NEW job \in T, Distinguished(run), job[Id] \notin run.ids,
         NEW next, next = [run EXCEPT !.ids = @ \cup {job[Id]}, !.jobs = Append(@, job)]
  PROVE  Distinguished(next)
<1>1. run.jobs \in Seq(T) /\ next.jobs = Append(run.jobs, job) /\ next.ids = run.ids \cup {job[Id]}
  BY DEF Runs
<1>2. /\ DOMAIN next.jobs = 1 .. Len(run.jobs) + 1 /\ DOMAIN run.jobs = 1 .. Len(run.jobs)
      /\ \A p \in DOMAIN run.jobs : next.jobs[p] = run.jobs[p]
      /\ next.jobs[Len(run.jobs) + 1] = job /\ Len(run.jobs) \in Nat
  BY <1>1, AppendedJob
<1>3. \A p \in DOMAIN next.jobs : p \in DOMAIN run.jobs \/ p = Len(run.jobs) + 1
  BY <1>2
<1> QED BY <1>1, <1>2, <1>3 DEF Distinguished

\* One more job is claimed in both runs.
LEMMA ClaimBeside ==
  ASSUME NEW T, NEW B, NEW first \in Runs(T, B), NEW r \in Runs(T, B), NEW a \in Runs(T, B), NEW job \in T,
         Beside(first, r, a)
  PROVE  Beside(first, Claim(r, job), Claim(a, job))
<1> DEFINE R == Claim(r, job)
           A == Claim(a, job)
           id == job[Id]
<1>1. Claimed(r, job, R)
  BY ClaimTypes
<1>2. Claimed(a, job, A)
  BY ClaimTypes
<1> HIDE DEF R, A
<1>3. /\ r.raised \in BOOLEAN /\ a.raised \in BOOLEAN /\ r.jobs \in Seq(T) /\ a.jobs \in Seq(T)
      /\ r = [jobs |-> r.jobs, ids |-> r.ids, failed |-> r.failed, raised |-> r.raised]
      /\ a = [jobs |-> a.jobs, ids |-> a.ids, failed |-> a.failed, raised |-> a.raised]
  BY DEF Runs
<1>4. /\ R.failed = r.failed /\ A.failed = a.failed
      /\ a.ids \subseteq A.ids /\ A.ids \subseteq a.ids \cup {id}
      /\ r.ids \subseteq R.ids /\ R.ids \subseteq r.ids \cup {id}
      /\ R.jobs = r.jobs \/ R.jobs = Append(r.jobs, job)
      /\ A.jobs = a.jobs \/ A.jobs = Append(a.jobs, job)
  BY <1>1, <1>2, <1>3 DEF Claimed
<1>5. JobsOf(r) \subseteq JobsOf(R)
  BY <1>3, <1>4, JobsTaken DEF JobsOf
<1>6. R.ids \subseteq first.ids \cup A.ids
  <2>1. CASE R.ids = r.ids
    BY <2>1, <1>4 DEF Beside
  <2>2. CASE ~ r.raised /\ id \notin r.ids
    <3>1. ~ a.raised /\ id \notin a.ids
      BY <2>2 DEF Beside
    <3>2. id \in A.ids
      BY <3>1, <1>2, <1>3 DEF Claimed
    <3> QED BY <1>4, <3>2 DEF Beside
  <2> QED BY <1>1, <1>3, <2>1, <2>2 DEF Claimed
<1>7. ASSUME ~ R.raised PROVE ~ A.raised /\ A.ids \subseteq R.ids /\ JobsOf(A) \subseteq JobsOf(R)
  <2>1. ~ r.raised /\ id \notin r.ids /\ Builds(job) /\ R.ids = r.ids \cup {id} /\ R.jobs = Append(r.jobs, job)
    BY <1>1, <1>3, <1>7 DEF Claimed
  <2>2. ~ a.raised /\ id \notin a.ids
    BY <2>1 DEF Beside
  <2>3. ~ A.raised /\ A.ids = a.ids \cup {id} /\ A.jobs = Append(a.jobs, job)
    BY <1>2, <1>3, <2>1, <2>2 DEF Claimed
  <2>4. JobsOf(A) = JobsOf(a) \cup {job} /\ JobsOf(R) = JobsOf(r) \cup {job}
    BY <1>3, <2>1, <2>3, JobsTaken
  <2> QED BY <2>1, <2>2, <2>3, <2>4 DEF Beside
<1>8. ASSUME ~ A.raised, A.ids \cap first.ids = {} PROVE ~ R.raised
  <2>1. ~ a.raised /\ id \notin a.ids /\ Builds(job) /\ A.ids = a.ids \cup {id}
    BY <1>2, <1>3, <1>8 DEF Claimed
  <2>2. ~ r.raised /\ id \notin r.ids
    BY <1>8, <2>1 DEF Beside
  <2> QED BY <1>1, <1>3, <2>1, <2>2 DEF Claimed
<1>9. Distinguished(R)
  <2>1. CASE R.jobs = r.jobs
    BY <1>4, <2>1 DEF Beside, Distinguished
  <2>2. CASE id \notin r.ids /\ R = [r EXCEPT !.ids = @ \cup {id}, !.jobs = Append(@, job)]
    BY <2>2, TakenKeepsApart DEF Beside
  <2> QED BY <1>1, <1>3, <2>1, <2>2 DEF Claimed
<1> QED BY <1>4, <1>5, <1>6, <1>7, <1>8, <1>9 DEF Beside, R, A

\* All the jobs of an entry are claimed in both.
LEMMA ClaimsBeside ==
  ASSUME NEW T, NEW B, NEW run \in Runs(T, B), ~ run.raised, Distinguished(run), NEW jobs \in Seq(T)
  PROVE  /\ Beside(run, Folded(Claim, run, jobs), Folded(Claim, NothingLoaded, jobs))
         /\ Folded(Claim, run, jobs) \in Runs(T, B)
         /\ Folded(Claim, NothingLoaded, jobs) \in Runs(T, B)
<1>1. NothingLoaded \in Runs(T, B)
  BY DEF NothingLoaded, Runs
<1>2. Beside(run, run, NothingLoaded)
  BY DEF NothingLoaded, Beside, JobsOf, Runs
<1>3. PICK f : /\ f[0] = run /\ f[Len(jobs)] = Folded(Claim, run, jobs)
               /\ \A n \in 1 .. Len(jobs) : f[n] = Claim(f[n - 1], jobs[n])
               /\ \A n \in 0 .. Len(jobs) : f[n] \in Runs(T, B)
  BY ClaimsAreRead
<1>4. PICK g : /\ g[0] = NothingLoaded /\ g[Len(jobs)] = Folded(Claim, NothingLoaded, jobs)
               /\ \A n \in 1 .. Len(jobs) : g[n] = Claim(g[n - 1], jobs[n])
               /\ \A n \in 0 .. Len(jobs) : g[n] \in Runs(T, B)
  BY <1>1, ClaimsAreRead
<1> DEFINE N == Len(jobs)
           S == {n \in 0 .. N : Beside(run, f[n], g[n])}
<1>5. N \in Nat
  OBVIOUS
<1>6. 0 \in S
  BY <1>2, <1>3, <1>4, <1>5
<1>7. ASSUME NEW n \in 1 .. N, n - 1 \in S PROVE n \in S
  <2>1. n - 1 \in 0 .. N /\ n \in 0 .. N /\ jobs[n] \in T
    BY <1>5
  <2>2. f[n - 1] \in Runs(T, B) /\ g[n - 1] \in Runs(T, B) /\ Beside(run, f[n - 1], g[n - 1])
    BY <1>3, <1>4, <1>7, <2>1
  <2>3. Beside(run, Claim(f[n - 1], jobs[n]), Claim(g[n - 1], jobs[n]))
    <3> HIDE DEF S, N
    <3> QED BY <2>1, <2>2, ClaimBeside
  <2> QED BY <1>3, <1>4, <2>1, <2>3
<1> HIDE DEF S, N
<1>8. N \in S
  <2>1. \A n \in 0 .. N : n \in S
    BY <1>5, <1>6, <1>7, Loop!InductionUpTo
  <2> QED BY <1>5, <2>1
<1>9. N \in 0 .. N
  BY <1>5
<1> QED BY <1>3, <1>4, <1>8, <1>9 DEF S, N

\* what an entry adds to a run, next to what it comes to alone
Joins(run, res, a, base) ==
  /\ ~ res.raised /\ Distinguished(res)
  /\ JobsOf(run) \subseteq JobsOf(res) /\ run.failed \subseteq res.failed
  /\ res.ids \subseteq run.ids \cup a.ids
  /\ base \in res.failed \/ (a.failed = {} /\ JobsOf(a) \subseteq JobsOf(res))
  /\ a.failed = {} /\ a.ids \cap run.ids = {} => JobsOf(a) \subseteq JobsOf(res)

\* the jobs an entry is fanned out to, each with an id
FansOf(entry) ==
  LET fan == Fanned(entry.keys, entry.base) IN IF fan = Raised THEN {} ELSE {WithId(fan[k], entry.base) : k \in DOMAIN fan}
IsFanned(entry) ==
  LET fan == Fanned(entry.keys, entry.base) IN fan = Raised \/ (DOMAIN fan = 1 .. Len(fan) /\ Len(fan) \in Nat)

\* What an entry does to a run that holds other jobs.
LEMMA EntryJoins ==
  ASSUME NEW T, NEW B, NEW run \in Runs(T, B), ~ run.raised, Distinguished(run),
         NEW entry, entry.base \in B, IsFanned(entry), FansOf(entry) \subseteq T
  PROVE  /\ Joins(run, EntryLoaded(run, entry), EntryLoaded(NothingLoaded, entry), entry.base)
         /\ EntryLoaded(run, entry) \in Runs(T, B)
<1> DEFINE fan == Fanned(entry.keys, entry.base)
           base == entry.base
           jobs == [k \in DOMAIN fan |-> WithId(fan[k], base)]
           r == FannedJobs(run, fan, base)
           a == FannedJobs(NothingLoaded, fan, base)
<1>1. NothingLoaded \in Runs(T, B) /\ JobsOf(NothingLoaded) = {} /\ ~ NothingLoaded.raised
  BY DEF NothingLoaded, Runs, JobsOf
<1>2. Beside(run, r, a) /\ r \in Runs(T, B) /\ a \in Runs(T, B)
  <2>1. CASE fan = Raised
    <3>1. r = [run EXCEPT !.raised = TRUE] /\ a = [NothingLoaded EXCEPT !.raised = TRUE]
      <4> HIDE DEF fan
      <4> QED BY <2>1 DEF FannedJobs
    <3> HIDE DEF r, a
    <3>2. /\ r.raised /\ a.raised /\ r.jobs = run.jobs /\ a.jobs = <<>> /\ r.ids = run.ids
          /\ a.ids = {} /\ r.failed = run.failed /\ a.failed = {}
      BY <3>1 DEF Runs, NothingLoaded
    <3>3. r \in Runs(T, B) /\ a \in Runs(T, B)
      BY <1>1, <3>1 DEF Runs
    <3> QED BY <3>2, <3>3 DEF Beside, JobsOf, Distinguished
  <2>2. CASE fan # Raised
    <3>1. DOMAIN fan = 1 .. Len(fan) /\ Len(fan) \in Nat
      BY <2>2 DEF IsFanned
    <3>2. \A k \in DOMAIN fan : WithId(fan[k], base) \in T
      BY <2>2 DEF FansOf
    <3>3. jobs \in Seq(T)
      <4> HIDE DEF fan, base
      <4> QED BY <3>1, <3>2
    <3>4. r = Folded(Claim, run, jobs) /\ a = Folded(Claim, NothingLoaded, jobs)
      <4> HIDE DEF fan, base
      <4> QED BY <2>2, Zenon DEF FannedJobs
    <3> HIDE DEF jobs, r, a
    <3> QED BY <3>3, <3>4, ClaimsBeside
  <2> QED BY <2>1, <2>2
<1>3. EntryLoaded(run, entry) = Reported(r, base) /\ EntryLoaded(NothingLoaded, entry) = Reported(a, base)
  BY DEF EntryLoaded
<1> HIDE DEF fan, jobs, r, a
<1>4. SUFFICES ASSUME NEW R, R = Reported(r, base), NEW A, A = Reported(a, base)
               PROVE  Joins(run, R, A, base) /\ R \in Runs(T, B)
  BY <1>3
<1>5. /\ R.raised = FALSE /\ R.jobs = r.jobs /\ R.ids = r.ids
      /\ R.failed = IF r.raised THEN r.failed \cup {base} ELSE r.failed
  BY <1>2, <1>4 DEF Reported, Runs
<1>6. /\ A.jobs = a.jobs /\ A.ids = a.ids
      /\ A.failed = IF a.raised THEN a.failed \cup {base} ELSE a.failed
  BY <1>2, <1>4 DEF Reported, Runs
<1>7. R \in Runs(T, B)
  BY <1>2, <1>4 DEF Reported, Runs
<1>8. JobsOf(R) = JobsOf(r) /\ JobsOf(A) = JobsOf(a) /\ Distinguished(R)
  BY <1>2, <1>5, <1>6 DEF JobsOf, Beside, Distinguished
<1> QED BY <1>2, <1>5, <1>6, <1>7, <1>8 DEF Joins, Beside

\* a list of such entries, what each comes to alone, and what they come to one after the other
AreFanned(entries) ==
  DOMAIN entries = 1 .. Len(entries) /\ Len(entries) \in Nat /\ \A k \in DOMAIN entries : IsFanned(entries[k])
AreAlone(alone, entries) == alone = [k \in DOMAIN entries |-> EntryLoaded(NothingLoaded, entries[k])]
Loads(run, entries) == run = Folded(EntryLoaded, NothingLoaded, entries)

\* The entries of a plan are loaded one after the other.
LEMMA EntriesAreRead ==
  ASSUME NEW entries, AreFanned(entries)
  PROVE  \E f : /\ f[0] = NothingLoaded /\ f[Len(entries)] = Folded(EntryLoaded, NothingLoaded, entries)
                /\ \A n \in 1 .. Len(entries) :
                     Joins(f[n - 1], f[n], EntryLoaded(NothingLoaded, entries[n]), entries[n].base)
                /\ \A n \in 0 .. Len(entries) : Distinguished(f[n])
<1> DEFINE N == Len(entries)
           T == UNION {FansOf(entries[k]) : k \in DOMAIN entries}
           B == {entries[k].base : k \in DOMAIN entries}
           Good == {run \in Runs(T, B) : ~ run.raised /\ Distinguished(run)}
           G == [n \in 0 .. N |-> Good]
           step == [n \in 1 .. N |-> [g \in G[n - 1] |-> EntryLoaded(g, entries[n])]]
           Is(f) == f = [n \in 0 .. N |-> IF n = 0 THEN NothingLoaded ELSE EntryLoaded(f[n - 1], entries[n])]
<1> USE DEF AreFanned
<1>1. NothingLoaded \in Good
  BY DEF NothingLoaded, Runs, Distinguished
<1>2. ASSUME NEW n \in 1 .. N, NEW g \in Good
      PROVE  /\ EntryLoaded(g, entries[n]) \in Good
             /\ Joins(g, EntryLoaded(g, entries[n]), EntryLoaded(NothingLoaded, entries[n]), entries[n].base)
  <2>1. /\ entries[n].base \in B /\ IsFanned(entries[n]) /\ FansOf(entries[n]) \subseteq T
        /\ g \in Runs(T, B) /\ ~ g.raised /\ Distinguished(g)
    OBVIOUS
  <2>2. /\ Joins(g, EntryLoaded(g, entries[n]), EntryLoaded(NothingLoaded, entries[n]), entries[n].base)
        /\ EntryLoaded(g, entries[n]) \in Runs(T, B)
    <3> HIDE DEF T, B, Good, G, step, Is, N
    <3> QED BY <2>1, EntryJoins
  <2> QED BY <2>2 DEF Joins
<1> HIDE DEF T, B, Good
<1>3. \A n \in 1 .. N : \A g \in G[n - 1] : g \in Good /\ step[n][g] \in G[n]
  <2> SUFFICES ASSUME NEW n \in 1 .. N, NEW g \in G[n - 1] PROVE g \in Good /\ step[n][g] \in G[n]
    OBVIOUS
  <2>1. n - 1 \in 0 .. N /\ n \in 0 .. N
    OBVIOUS
  <2> QED BY <1>2, <2>1
<1>4. \E f : Is(f)
  <2>1. NothingLoaded \in G[0] /\ N \in Nat
    BY <1>1
  <2>2. PICK f : Loop!Recurs(f, N, NothingLoaded, step) /\ \A n \in 0 .. N : f[n] \in G[n]
    <3> HIDE DEF step, Is, G, N
    <3> QED BY <2>1, <1>3, Loop!RecursionUpTo
  <2>3. ASSUME NEW n \in 1 .. N PROVE step[n][f[n - 1]] = EntryLoaded(f[n - 1], entries[n])
    <3>1. n - 1 \in 0 .. N
      OBVIOUS
    <3> QED BY <2>2, <3>1
  <2> HIDE DEF step, G
  <2>4. Is(f)
    <3> HIDE DEF N
    <3> QED BY <2>1, <2>2, <2>3 DEF Loop!Recurs
  <2> QED BY <2>4
<1> DEFINE f == CHOOSE f : Is(f)
<1>5. Is(f)
  <2> HIDE DEF Is
  <2> QED BY <1>4
<1>6. Folded(EntryLoaded, NothingLoaded, entries) = f[N]
  BY DEF Folded
<1> HIDE DEF f, G
<1>7. f[0] = NothingLoaded /\ \A n \in 1 .. N : f[n] = EntryLoaded(f[n - 1], entries[n])
  BY <1>5
<1>n. N \in Nat
  OBVIOUS
<1> HIDE DEF Is, N
<1>8. \A n \in 0 .. N : f[n] \in Good
  <2> DEFINE S == {n \in 0 .. N : f[n] \in Good}
  <2>1. 0 \in S
    BY <1>1, <1>7, <1>n
  <2>2. ASSUME NEW n \in 1 .. N, n - 1 \in S PROVE n \in S
    <3>1. n - 1 \in 0 .. N /\ n \in 0 .. N /\ f[n - 1] \in Good
      BY <1>n, <2>2
    <3> QED BY <1>2, <1>7, <3>1
  <2> HIDE DEF S
  <2>3. \A n \in 0 .. N : n \in S
    BY <1>n, <2>1, <2>2, Loop!InductionUpTo
  <2> QED BY <2>3 DEF S
<1>9. ASSUME NEW n \in 1 .. N
      PROVE  Joins(f[n - 1], f[n], EntryLoaded(NothingLoaded, entries[n]), entries[n].base)
  <2>1. n - 1 \in 0 .. N
    BY <1>n
  <2> QED BY <1>2, <1>7, <1>8, <2>1
<1>10. \A n \in 0 .. N : Distinguished(f[n])
  BY <1>8 DEF Good
<1> QED BY <1>6, <1>7, <1>9, <1>10 DEF N

\* What LoadedAsWritten says of the entries one by one: alone[k] is what entry k comes to alone.
EachIsLoaded(bases, run, alone) ==
  LET items == DOMAIN alone
      loaded(k) == alone[k].failed = {} /\ JobsOf(alone[k]) \subseteq JobsOf(run)
      wanted(k) == UNION {alone[m].ids : m \in items \ {k}}
  IN /\ \A k \in items : loaded(k) \/ bases[k] \in run.failed
     /\ \A k \in items : (alone[k].failed = {} /\ alone[k].ids \cap wanted(k) = {}) => loaded(k)

\* A plan of such entries loads as written: the entries before one note only ids it asked for,
\* and those after it take nothing back.
LEMMA EntriesLoad ==
  ASSUME NEW entries, AreFanned(entries), NEW alone, AreAlone(alone, entries), NEW run, Loads(run, entries)
  PROVE  EachIsLoaded([k \in DOMAIN entries |-> entries[k].base], run, alone) /\ Distinguished(run)
<1>1. PICK f : /\ f[0] = NothingLoaded /\ f[Len(entries)] = run
               /\ \A n \in 1 .. Len(entries) :
                    Joins(f[n - 1], f[n], EntryLoaded(NothingLoaded, entries[n]), entries[n].base)
               /\ \A n \in 0 .. Len(entries) : Distinguished(f[n])
  BY EntriesAreRead DEF Loads
<1> DEFINE N == Len(entries)
           NotedBy(n) == UNION {alone[m].ids : m \in 1 .. n}
           Grown(n) == /\ f[n].ids \subseteq NotedBy(n)
                       /\ \A m \in 0 .. n : JobsOf(f[m]) \subseteq JobsOf(f[n]) /\ f[m].failed \subseteq f[n].failed
           S == {n \in 0 .. N : Grown(n)}
<1>2. N \in Nat /\ DOMAIN alone = 1 .. N /\ DOMAIN entries = 1 .. N
  BY DEF AreFanned, AreAlone
<1>3. \A n \in 1 .. N : Joins(f[n - 1], f[n], alone[n], entries[n].base)
  BY <1>1 DEF AreFanned, AreAlone
<1> HIDE DEF N
<1>4. 0 \in S
  <2>1. f[0].ids = {} /\ \A m \in 0 .. 0 : m = 0
    BY <1>1 DEF NothingLoaded
  <2> QED BY <2>1, <1>2
<1>5. ASSUME NEW n \in 1 .. N, n - 1 \in S PROVE n \in S
  <2>1. Grown(n - 1) /\ n \in 0 .. N
    BY <1>2, <1>5
  <2>2. /\ JobsOf(f[n - 1]) \subseteq JobsOf(f[n]) /\ f[n - 1].failed \subseteq f[n].failed
        /\ f[n].ids \subseteq f[n - 1].ids \cup alone[n].ids
    BY <1>3 DEF Joins
  <2>3. f[n].ids \subseteq NotedBy(n)
    <3>1. NotedBy(n - 1) \subseteq NotedBy(n) /\ alone[n].ids \subseteq NotedBy(n)
      BY <1>2
    <3> QED BY <2>1, <2>2, <3>1
  <2>4. ASSUME NEW m \in 0 .. n PROVE JobsOf(f[m]) \subseteq JobsOf(f[n]) /\ f[m].failed \subseteq f[n].failed
    <3>1. m = n \/ m \in 0 .. n - 1
      BY <1>2
    <3> QED BY <2>1, <2>2, <3>1
  <2> QED BY <2>1, <2>3, <2>4
<1> HIDE DEF S
<1>6. \A n \in 0 .. N : Grown(n)
  <2>1. \A n \in 0 .. N : n \in S
    BY <1>2, <1>4, <1>5, Loop!InductionUpTo
  <2> QED BY <2>1 DEF S
<1>7. ASSUME NEW k \in DOMAIN alone
      PROVE  /\ k \in 1 .. N /\ k - 1 \in 0 .. N
             /\ JobsOf(f[k]) \subseteq JobsOf(run) /\ f[k].failed \subseteq run.failed
             /\ Joins(f[k - 1], f[k], alone[k], entries[k].base)
             /\ f[k - 1].ids \subseteq UNION {alone[m].ids : m \in DOMAIN alone \ {k}}
  <2>1. k \in 1 .. N /\ k - 1 \in 0 .. N /\ k \in 0 .. N /\ N \in 0 .. N
    BY <1>2
  <2>2. JobsOf(f[k]) \subseteq JobsOf(run) /\ f[k].failed \subseteq run.failed
    BY <1>1, <1>6, <2>1 DEF N
  <2>3. NotedBy(k - 1) \subseteq UNION {alone[m].ids : m \in DOMAIN alone \ {k}}
    <3>1. \A m \in 1 .. k - 1 : m \in DOMAIN alone \ {k}
      BY <1>2, <2>1
    <3> QED BY <3>1
  <2>4. f[k - 1].ids \subseteq NotedBy(k - 1)
    BY <1>6, <2>1
  <2> HIDE DEF NotedBy
  <2> QED BY <1>3, <2>1, <2>2, <2>3, <2>4
<1>8. ASSUME NEW k \in DOMAIN alone
      PROVE  \/ alone[k].failed = {} /\ JobsOf(alone[k]) \subseteq JobsOf(run)
             \/ entries[k].base \in run.failed
  BY <1>7 DEF Joins
<1>9. ASSUME NEW k \in DOMAIN alone, alone[k].failed = {},
             alone[k].ids \cap UNION {alone[m].ids : m \in DOMAIN alone \ {k}} = {}
      PROVE  JobsOf(alone[k]) \subseteq JobsOf(run)
  <2>1. alone[k].ids \cap f[k - 1].ids = {}
    BY <1>7, <1>9
  <2>2. JobsOf(alone[k]) \subseteq JobsOf(f[k])
    BY <1>7, <1>9, <2>1 DEF Joins
  <2> QED BY <1>7, <2>2
<1>10. Distinguished(run)
  BY <1>1, <1>2 DEF N
<1> QED BY <1>2, <1>8, <1>9, <1>10 DEF EachIsLoaded

-----------------------------------------------------------------------------
(* Job files: what includes and defaults make of them *)

\* What is above a key that is above another is above that one too.
LEMMA AboveAbove ==
  ASSUME NEW key \in Seq(STRING), NEW q \in Above(key)
  PROVE  Above(q) \subseteq Above(key)
<1>1. PICK n \in 1 .. Len(key) - 1 : q = SubSeq(key, 1, n)
  BY DEF Above
<1>2. Len(key) \in Nat /\ n <= Len(key) /\ Len(q) = n
  BY <1>1
<1>3. ASSUME NEW m \in 1 .. n - 1 PROVE SubSeq(q, 1, m) = SubSeq(key, 1, m) /\ m \in 1 .. Len(key) - 1
  BY <1>1, <1>2
<1> QED BY <1>2, <1>3 DEF Above

LEMMA TreesMerge ==
  ASSUME NEW over, NEW base, IsTree(over), IsTree(base)
  PROVE  IsTree(Under(over, base))
<1> DEFINE u == Under(over, base)
<1>1. u = [key \in DOMAIN u |-> u[key]] /\ DOMAIN u = DOMAIN over \cup Left(over, base)
  BY DEF Under
<1>2. \A key \in DOMAIN u : u[key] = IF key \in DOMAIN over THEN over[key] ELSE base[key]
  BY DEF Under
<1> HIDE DEF u
<1>3. ASSUME NEW key \in DOMAIN u
      PROVE  key \in Seq(STRING) /\ Len(key) > 0 /\ \A q \in Above(key) : q \in DOMAIN u /\ u[q] = Map
  <2>1. CASE key \in DOMAIN over
    BY <1>1, <1>2, <2>1 DEF IsTree
  <2>2. CASE key \notin DOMAIN over
    <3>1. key \in DOMAIN base /\ \A q \in Above(key) \cap DOMAIN over : over[q] = Map
      BY <1>1, <2>2 DEF Left
    <3>2. key \in Seq(STRING) /\ Len(key) > 0 /\ \A q \in Above(key) : q \in DOMAIN base /\ base[q] = Map
      BY <3>1 DEF IsTree
    <3>3. ASSUME NEW q \in Above(key) PROVE q \in DOMAIN u /\ u[q] = Map
      <4>1. CASE q \in DOMAIN over
        BY <1>1, <1>2, <3>1, <4>1
      <4>2. CASE q \notin DOMAIN over
        <5>1. Above(q) \subseteq Above(key)
          BY <3>2, AboveAbove
        <5>2. q \in Left(over, base)
          BY <3>1, <3>2, <5>1 DEF Left
        <5> QED BY <1>1, <1>2, <3>2, <4>2, <5>2
      <4> QED BY <4>1, <4>2
    <3> QED BY <3>2, <3>3
  <2> QED BY <2>1, <2>2
<1> QED BY <1>1, <1>3, Zenon DEF IsTree, u

LEMMA UnderKeeps ==
  ASSUME NEW over, NEW base, IsMapping(over), IsMapping(base)
  PROVE  IsMapping(Mapping(over.refs, Under(over.keys, base.keys)))
<1> DEFINE u == Under(over.keys, base.keys)
<1>1. IsTree(u)
  BY TreesMerge DEF IsMapping
<1>2. \A key \in DOMAIN u : (u[key] = over.keys[key] /\ key \in DOMAIN over.keys) \/ (u[key] = base.keys[key] /\ key \in DOMAIN base.keys)
  BY DEF Under, Left
<1> HIDE DEF u
<1>3. Matrix \in DOMAIN u => IsSequence(u[Matrix])
  BY <1>2 DEF IsMapping
<1>4. IsSequence(over.refs)
  BY DEF IsMapping
<1> SUFFICES ASSUME NEW m, m = Mapping(over.refs, u) PROVE IsMapping(m)
  BY DEF u
<1>5. m.refs = over.refs /\ m.keys = u /\ m = Mapping(m.refs, m.keys)
  BY DEF Mapping
<1> QED BY <1>1, <1>3, <1>4, <1>5 DEF IsMapping

LEMMA MappingIsNode ==
  ASSUME NEW m, IsMapping(m)
  PROVE  ~ IsList(m) /\ IsNode(m)
<1>1. m = [refs |-> m.refs, keys |-> m.keys]
  BY DEF IsMapping, Mapping
<1>2. "items" \notin DOMAIN m
  BY <1>1
<1> QED BY <1>2 DEF IsList, IsNode

LEMMA DeepMergeKeeps ==
  ASSUME NEW base, NEW over, IsNode(base), IsNode(over)
  PROVE  IsNode(DeepMerge(base, over)) /\ (IsMapping(over) => IsMapping(DeepMerge(base, over)))
<1>1. CASE IsList(base) \/ IsList(over)
  BY <1>1 DEF DeepMerge
<1>2. CASE ~ IsList(base) /\ ~ IsList(over)
  <2>1. IsMapping(base) /\ IsMapping(over)
    BY <1>2 DEF IsNode
  <2>2. DeepMerge(base, over) = Mapping(over.refs, Under(over.keys, base.keys))
    BY <1>2 DEF DeepMerge
  <2>3. IsMapping(DeepMerge(base, over))
    BY <2>1, <2>2, UnderKeeps
  <2> QED BY <2>3, MappingIsNode
<1> QED BY <1>1, <1>2

\* What several fragments merge to.
LEMMA FragmentsMerge ==
  ASSUME NEW frags, NEW N \in Nat, Len(frags) = N, \A k \in 1 .. N : IsNode(frags[k]), NEW bare, IsNode(bare)
  PROVE  \E union : union = Folded(DeepMerge, bare, frags) /\ IsNode(union) /\ (N = 0 => union = bare)
<1>1. NodeSoFar(bare, 0, bare)
  BY DEF NodeSoFar
<1>2. \A x : \A n \in 1 .. Len(frags) : NodeSoFar(bare, n - 1, x) => NodeSoFar(bare, n, MergeAfter(bare, x, frags[n]))
  BY DeepMergeKeeps DEF NodeSoFar, MergeAfter
<1> DEFINE union == Loop!Looped(bare, bare, frags)
<1>3. NodeSoFar(bare, N, union)
  BY <1>1, <1>2, Loop!FoldKeeps
<1>4. union = Folded(DeepMerge, bare, frags)
  BY Zenon DEF MergeAfter, Loop!Looped, Loop!Folded, Folded
<1> HIDE DEF union
<1> QED BY <1>3, <1>4 DEF NodeSoFar

\* what including gives is a node, or raises
AreGiven(given) == \A ref \in DOMAIN given : given[ref] = Raised \/ IsNode(given[ref])

LEMMA EmptyMapping ==
  /\ IsMapping(Mapping(<<>>, <<>>)) /\ IsNode(Mapping(<<>>, <<>>))
  /\ Mapping(<<>>, <<>>).keys = <<>> /\ Mapping(<<>>, <<>>).refs = <<>>
<1>1. IsSequence(<<>>)
  BY DEF IsSequence
<1>2. IsTree(<<>>) /\ DOMAIN <<>> = {}
  <2>1. <<>> = [k \in DOMAIN <<>> |-> <<>>[k]] /\ DOMAIN <<>> = {}
    OBVIOUS
  <2> QED BY <2>1, Zenon DEF IsTree
<1> SUFFICES ASSUME NEW m, m = Mapping(<<>>, <<>>) PROVE IsMapping(m) /\ m.keys = <<>> /\ m.refs = <<>>
  BY MappingIsNode
<1>3. m.refs = <<>> /\ m.keys = <<>> /\ m = Mapping(m.refs, m.keys)
  BY DEF Mapping
<1> QED BY <1>1, <1>2, <1>3 DEF IsMapping

LEMMA BareMapping ==
  ASSUME NEW m, IsMapping(m)
  PROVE  LET bare == Mapping(<<>>, m.keys) IN IsMapping(bare) /\ bare.keys = m.keys
<1>1. IsSequence(<<>>)
  BY DEF IsSequence
<1> SUFFICES ASSUME NEW bare, bare = Mapping(<<>>, m.keys) PROVE IsMapping(bare) /\ bare.keys = m.keys
  OBVIOUS
<1>2. bare.refs = <<>> /\ bare.keys = m.keys /\ bare = Mapping(bare.refs, bare.keys)
  BY DEF Mapping
<1>3. IsTree(m.keys) /\ (Matrix \in DOMAIN m.keys => IsSequence(m.keys[Matrix]))
  BY DEF IsMapping
<1> QED BY <1>1, <1>2, <1>3 DEF IsMapping

LEMMA NothingUnder ==
  ASSUME NEW keys, keys = [k \in DOMAIN keys |-> keys[k]]
  PROVE  Under(keys, <<>>) = keys
<1>1. DOMAIN keys \cup Left(keys, <<>>) = DOMAIN keys
  BY DEF Left
<1>2. Under(keys, <<>>) = [k \in DOMAIN keys |-> keys[k]]
  BY <1>1 DEF Under
<1> QED BY <1>2

\* A mapping over its fragments; one without them is itself.
LEMMA ResolvedNode ==
  ASSUME NEW m, IsMapping(m), NEW given, AreGiven(given)
  PROVE  /\ Resolved(m, given) = Raised \/ IsNode(Resolved(m, given))
         /\ m.refs = <<>> => Resolved(m, given) = Mapping(<<>>, m.keys)
<1> DEFINE frags == [k \in DOMAIN m.refs |-> Included(m.refs[k], given)]
           bare == Mapping(<<>>, m.keys)
           none == Mapping(<<>>, <<>>)
           N == Len(m.refs)
<1>1. N \in Nat /\ DOMAIN m.refs = 1 .. N
  BY DEF IsMapping, IsSequence
<1>2. Len(frags) = N /\ DOMAIN frags = 1 .. N
  <2>1. frags \in Seq({frags[k] : k \in 1 .. N})
    <3> HIDE DEF N
    <3>1. frags = [k \in 1 .. N |-> Included(m.refs[k], given)]
      BY <1>1
    <3> HIDE DEF frags
    <3> QED BY <1>1, <3>1
  <2>2. DOMAIN frags = 1 .. N
    BY <1>1
  <2> HIDE DEF frags, N
  <2> QED BY <1>1, <2>1, <2>2
<1>3. IsMapping(bare) /\ IsNode(bare) /\ bare.keys = m.keys /\ IsNode(none)
  BY BareMapping, EmptyMapping, MappingIsNode
<1>4. ASSUME Raised \notin ToSet(frags), NEW k \in 1 .. N PROVE IsNode(frags[k])
  <2>1. frags[k] # Raised /\ frags[k] = Included(m.refs[k], given)
    BY <1>1, <1>2, <1>4 DEF ToSet
  <2> HIDE DEF frags
  <2> QED BY <2>1 DEF Included, AreGiven
<1>5. Resolved(m, given) = Over(frags, bare)
  BY DEF Resolved
<1> HIDE DEF frags, N, bare
<1>6. CASE Raised \in ToSet(frags)
  <2>1. Resolved(m, given) = Raised
    BY <1>5, <1>6, Zenon DEF Over
  <2>2. N # 0
    BY <1>1, <1>2, <1>6 DEF ToSet
  <2>3. m.refs # <<>>
    BY <2>2 DEF N
  <2> QED BY <2>1, <2>3
<1>7. CASE Raised \notin ToSet(frags)
  <2> HIDE DEF none
  <2>1. PICK union : union = Folded(DeepMerge, none, frags) /\ IsNode(union) /\ (N = 0 => union = none)
    BY <1>1, <1>2, <1>3, <1>4, <1>7, FragmentsMerge
  <2>2. Resolved(m, given) = IF ~ IsList(union) THEN DeepMerge(union, bare)
                             ELSE IF DOMAIN bare.keys # {} THEN Raised ELSE union
    BY <1>5, <1>7, <2>1, Zenon DEF Over, none
  <2>3. IsNode(DeepMerge(union, bare))
    BY <1>3, <2>1, DeepMergeKeeps
  <2>4. ASSUME m.refs = <<>> PROVE Resolved(m, given) = bare
    <3>1. union = none
      BY <1>1, <2>1, <2>4 DEF N
    <3>2. ~ IsList(none) /\ ~ IsList(bare) /\ none.keys = <<>>
      BY <1>3, EmptyMapping, MappingIsNode DEF none
    <3>3. Resolved(m, given) = Mapping(bare.refs, Under(bare.keys, <<>>))
      BY <2>2, <3>1, <3>2 DEF DeepMerge
    <3>4. Under(bare.keys, <<>>) = bare.keys
      BY <1>3, NothingUnder DEF IsMapping, IsTree
    <3> QED BY <1>3, <3>3, <3>4 DEF IsMapping
  <2> QED BY <2>1, <2>2, <2>3, <2>4 DEF bare
<1> QED BY <1>6, <1>7

LEMMA PartsExtend ==
  ASSUME NEW parts, NEW N \in Nat, Len(parts) = N, \A k \in 1 .. N : IsNode(parts[k])
  PROVE  \E items : /\ items = Folded(Extended, <<>>, parts) /\ IsMappings(items)
                    /\ (\A k \in 1 .. N : ~ IsList(parts[k])) =>
                         DOMAIN items = 1 .. N /\ \A k \in 1 .. N : items[k] = parts[k]
<1> DEFINE Listed(s) == {s[k] : k \in DOMAIN s}
           Items == UNION {IF IsList(parts[k]) THEN Listed(parts[k].items) ELSE {parts[k]} : k \in 1 .. N}
           plain == \A k \in 1 .. N : ~ IsList(parts[k])
           G == [n \in 0 .. N |->
                  {s \in Seq(Items) : plain => (Len(s) = n /\ \A k \in 1 .. n : s[k] = parts[k])}]
           step == [n \in 1 .. N |-> [g \in G[n - 1] |-> Extended(g, parts[n])]]
           Is(f) == f = [n \in 0 .. N |-> IF n = 0 THEN <<>> ELSE Extended(f[n - 1], parts[n])]
<1>1. \A x \in Items : IsMapping(x)
  <2> SUFFICES ASSUME NEW k \in 1 .. N, NEW x \in IF IsList(parts[k]) THEN Listed(parts[k].items) ELSE {parts[k]}
               PROVE  IsMapping(x)
    OBVIOUS
  <2>1. CASE IsList(parts[k])
    BY <2>1 DEF IsNode, IsMappings
  <2>2. CASE ~ IsList(parts[k])
    BY <2>2 DEF IsNode
  <2> QED BY <2>1, <2>2
<1>2. ASSUME NEW n \in 1 .. N, NEW g \in G[n - 1] PROVE Extended(g, parts[n]) \in G[n]
  <2>1. n - 1 \in 0 .. N /\ n \in 0 .. N
    OBVIOUS
  <2>2. g \in Seq(Items) /\ (plain => (Len(g) = n - 1 /\ \A k \in 1 .. n - 1 : g[k] = parts[k]))
    BY <2>1
  <2>3. CASE IsList(parts[n])
    <3>1. parts[n].items \in Seq(Listed(parts[n].items)) /\ Listed(parts[n].items) \subseteq Items
      BY <2>3 DEF IsNode, IsMappings, IsSequence
    <3> HIDE DEF Items, Listed
    <3>2. parts[n].items \in Seq(Items)
      BY <3>1
    <3>3. g \o parts[n].items \in Seq(Items)
      BY <2>2, <3>2
    <3> QED BY <2>1, <2>3, <3>3 DEF Extended
  <2>4. CASE ~ IsList(parts[n])
    <3>1. parts[n] \in Items
      BY <2>4
    <3> HIDE DEF Items
    <3>2. Append(g, parts[n]) \in Seq(Items)
      BY <2>2, <3>1
    <3>3. plain => (Len(Append(g, parts[n])) = n /\ \A k \in 1 .. n : Append(g, parts[n])[k] = parts[k])
      BY <2>2
    <3> QED BY <2>1, <2>4, <3>2, <3>3 DEF Extended
  <2> QED BY <2>3, <2>4
<1>3. <<>> \in G[0]
  OBVIOUS
<1>4. \A n \in 1 .. N : \A g \in G[n - 1] : step[n][g] \in G[n]
  <2> HIDE DEF G
  <2> QED BY <1>2
<1> HIDE DEF Items
<1>5. \E f : Is(f)
  <2>1. PICK f : Loop!Recurs(f, N, <<>>, step) /\ \A n \in 0 .. N : f[n] \in G[n]
    <3> HIDE DEF step, Is, G
    <3> QED BY <1>3, <1>4, Loop!RecursionUpTo
  <2> HIDE DEF G
  <2>2. ASSUME NEW n \in 1 .. N PROVE step[n][f[n - 1]] = Extended(f[n - 1], parts[n])
    <3>1. n - 1 \in 0 .. N
      OBVIOUS
    <3> QED BY <2>1, <3>1
  <2> HIDE DEF step
  <2>3. Is(f)
    BY <2>1, <2>2 DEF Loop!Recurs
  <2> QED BY <2>3
<1> DEFINE f == CHOOSE f : Is(f)
<1>6. Is(f)
  <2> HIDE DEF Is
  <2> QED BY <1>5
<1>7. Folded(Extended, <<>>, parts) = f[N]
  BY Zenon DEF Folded
<1> HIDE DEF f
<1>8. f[0] = <<>> /\ \A n \in 1 .. N : f[n] = Extended(f[n - 1], parts[n])
  BY <1>6
<1> HIDE DEF Is, G
<1>9. f[N] \in G[N]
  <2> DEFINE S == {n \in 0 .. N : f[n] \in G[n]}
  <2>1. 0 \in S
    BY <1>3, <1>8
  <2>2. ASSUME NEW n \in 1 .. N, n - 1 \in S PROVE n \in S
    BY <1>2, <1>8, <2>2
  <2> HIDE DEF S
  <2>3. \A n \in 0 .. N : n \in S
    BY <2>1, <2>2, Loop!InductionUpTo
  <2> QED BY <2>3 DEF S
<1>10. /\ f[N] \in Seq(Items)
       /\ plain => (Len(f[N]) = N /\ \A k \in 1 .. N : f[N][k] = parts[k])
  BY <1>9 DEF G
<1> HIDE DEF plain
<1>11. SUFFICES ASSUME NEW items, items = f[N]
                PROVE  IsMappings(items) /\ (plain => (DOMAIN items = 1 .. N /\ \A k \in 1 .. N : items[k] = parts[k]))
  BY <1>7, Zenon DEF plain
<1>12. items \in Seq(Items) /\ Len(items) \in Nat /\ DOMAIN items = 1 .. Len(items)
  BY <1>10, <1>11
<1>13. IsSequence(items)
  <2>1. items = [k \in 1 .. Len(items) |-> items[k]] /\ \A k \in 1 .. Len(items) : items[k] \in {items[m] : m \in DOMAIN items}
    BY <1>12
  <2>2. items \in Seq({items[k] : k \in DOMAIN items})
    BY <1>12, <2>1, SeqDef
  <2> QED BY <2>2 DEF IsSequence
<1>14. \A k \in DOMAIN items : IsMapping(items[k])
  BY <1>1, <1>12
<1> QED BY <1>10, <1>11, <1>12, <1>13, <1>14 DEF IsMappings

\* A list with its items resolved, each spliced in; a list no item of which is one keeps their places.
LEMMA SplicedNode ==
  ASSUME NEW list, IsMappings(list), NEW given, AreGiven(given),
         NEW res, res = Inlined([items |-> list], given), res # Raised
  PROVE  /\ IsNode(res) /\ IsList(res) /\ IsMappings(res.items)
         /\ (\A k \in DOMAIN list : list[k].refs = <<>>) =>
              DOMAIN res.items = DOMAIN list /\ \A k \in DOMAIN list : res.items[k].keys = list[k].keys
<1> DEFINE parts == [k \in DOMAIN list |-> Resolved(list[k], given)]
           N == Len(list)
           plain == \A k \in DOMAIN list : list[k].refs = <<>>
<1>1. N \in Nat /\ DOMAIN list = 1 .. N /\ \A k \in 1 .. N : IsMapping(list[k])
  BY DEF IsMappings, IsSequence
<1>2. res = Spliced(parts)
  <2>1. IsList([items |-> list]) /\ [items |-> list].items = list
    BY DEF IsList
  <2> QED BY <2>1, Zenon DEF Inlined
<1>3. Raised \notin ToSet(parts) /\ res = [items |-> Folded(Extended, <<>>, parts)]
  <2> HIDE DEF parts
  <2> QED BY <1>2, Zenon DEF Spliced
<1>4. DOMAIN parts = 1 .. N /\ Len(parts) = N
  <2>1. parts \in Seq({parts[k] : k \in 1 .. N})
    <3> HIDE DEF N
    <3>1. parts = [k \in 1 .. N |-> Resolved(list[k], given)]
      BY <1>1
    <3> HIDE DEF parts
    <3> QED BY <1>1, <3>1
  <2>2. DOMAIN parts = 1 .. N
    BY <1>1
  <2> HIDE DEF parts, N
  <2> QED BY <1>1, <2>1, <2>2
<1> HIDE DEF N
<1>5. \A k \in 1 .. N : parts[k] = Resolved(list[k], given) /\ parts[k] # Raised
  BY <1>1, <1>3, <1>4 DEF ToSet
<1> HIDE DEF parts
<1>6. \A k \in 1 .. N : IsNode(parts[k]) /\ (list[k].refs = <<>> => parts[k] = Mapping(<<>>, list[k].keys))
  BY <1>1, <1>5, ResolvedNode
<1>7. PICK items : /\ items = Folded(Extended, <<>>, parts) /\ IsMappings(items)
                   /\ (\A k \in 1 .. N : ~ IsList(parts[k])) =>
                        DOMAIN items = 1 .. N /\ \A k \in 1 .. N : items[k] = parts[k]
  BY <1>1, <1>4, <1>6, PartsExtend
<1>8. res = [items |-> items]
  BY <1>3, <1>7, Zenon
<1>9. res.items = items /\ IsList(res) /\ IsNode(res)
  BY <1>7, <1>8 DEF IsList, IsNode
<1>10. ASSUME plain PROVE DOMAIN items = 1 .. N /\ \A k \in 1 .. N : items[k].keys = list[k].keys
  <2>1. \A k \in 1 .. N : ~ IsList(parts[k]) /\ parts[k].keys = list[k].keys
    <3> SUFFICES ASSUME NEW k \in 1 .. N PROVE ~ IsList(parts[k]) /\ parts[k].keys = list[k].keys
      OBVIOUS
    <3>1. parts[k] = Mapping(<<>>, list[k].keys)
      BY <1>1, <1>6, <1>10
    <3> QED BY <1>1, <3>1, BareMapping, MappingIsNode
  <2> QED BY <1>7, <2>1
<1> QED BY <1>1, <1>7, <1>9, <1>10

LEMMA InlinedNode ==
  ASSUME NEW node, IsNode(node), NEW given, AreGiven(given)
  PROVE  Inlined(node, given) = Raised \/ IsNode(Inlined(node, given))
<1>1. CASE IsList(node)
  <2>1. node = [items |-> node.items] /\ IsMappings(node.items)
    BY <1>1 DEF IsNode
  <2>2. IsNode(Inlined([items |-> node.items], given)) \/ Inlined([items |-> node.items], given) = Raised
    BY <2>1, SplicedNode
  <2> QED BY <2>1, <2>2
<1>2. CASE ~ IsList(node)
  <2>1. IsMapping(node) /\ Inlined(node, given) = Resolved(node, given)
    BY <1>2, Zenon DEF IsNode, Inlined
  <2> QED BY <2>1, ResolvedNode
<1> QED BY <1>1, <1>2

\* What the fragments come to, however they include one another.
LEMMA OpenedNodes == AreGiven(Opened)
<1> DEFINE N == Cardinality(DOMAIN Fragments)
           shut == [ref \in DOMAIN Fragments |-> Raised]
           Next1(given) == [ref \in DOMAIN Fragments |-> Inlined(Fragments[ref], given)]
           Upto(f, m) == /\ DOMAIN f = 0 .. m /\ f[0] = shut
                         /\ \A n \in 1 .. m : f[n] = Next1(f[n - 1])
           S == {m \in 0 .. N : \E f : Upto(f, m)}
           Is(f) == f = [n \in 0 .. N |-> IF n = 0 THEN shut ELSE Next1(f[n - 1])]
<1>n. N \in Nat
  BY FragmentsAssumption, FS_CardinalityType
<1> HIDE DEF N, shut, Next1
<1>1. 0 \in S
  <2> DEFINE f == [n \in 0 .. 0 |-> shut]
  <2>1. Upto(f, 0)
    OBVIOUS
  <2> HIDE DEF f, Upto
  <2> QED BY <1>n, <2>1
<1>2. ASSUME NEW m \in 1 .. N, m - 1 \in S PROVE m \in S
  <2>1. PICK f : Upto(f, m - 1)
    BY <1>2
  <2> DEFINE g == [n \in 0 .. m |-> IF n = m THEN Next1(f[m - 1]) ELSE f[n]]
  <2>2. \A n \in 0 .. m - 1 : g[n] = f[n] /\ n # m
    BY <1>n
  <2>3. g[m] = Next1(f[m - 1]) /\ g[m - 1] = f[m - 1]
    BY <1>n, <2>2
  <2>4. DOMAIN g = 0 .. m /\ g[0] = shut
    BY <1>n, <2>1, <2>2
  <2> HIDE DEF g
  <2>5. ASSUME NEW n \in 1 .. m PROVE g[n] = Next1(g[n - 1])
    <3>1. CASE n = m
      BY <2>3, <3>1
    <3>2. CASE n # m
      <4>1. n \in 1 .. m - 1 /\ n \in 0 .. m - 1 /\ n - 1 \in 0 .. m - 1
        BY <1>n, <3>2
      <4> QED BY <2>1, <2>2, <4>1
    <3> QED BY <3>1, <3>2
  <2>6. Upto(g, m)
    BY <2>4, <2>5
  <2> QED BY <1>n, <2>6
<1> HIDE DEF S
<1>3. PICK h : Upto(h, N)
  <2>1. \A n \in 0 .. N : n \in S
    BY <1>n, <1>1, <1>2, Loop!InductionUpTo
  <2>2. N \in S
    BY <1>n, <2>1
  <2> QED BY <2>2 DEF S
<1>4. \E f : Is(f)
  <2> DEFINE f == [n \in 0 .. N |-> h[n]]
  <2>1. \A n \in 0 .. N : f[n] = h[n]
    OBVIOUS
  <2>2. ASSUME NEW n \in 0 .. N PROVE f[n] = IF n = 0 THEN shut ELSE Next1(f[n - 1])
    <3>1. n = 0 \/ (n \in 1 .. N /\ n - 1 \in 0 .. N)
      BY <1>n
    <3> QED BY <1>3, <1>n, <2>1, <3>1
  <2>3. f = [n \in 0 .. N |-> f[n]]
    OBVIOUS
  <2> HIDE DEF f
  <2>4. Is(f)
    BY <2>2, <2>3
  <2> QED BY <2>4
<1> DEFINE f == CHOOSE f : Is(f)
<1>5. Is(f)
  <2> HIDE DEF Is
  <2> QED BY <1>4
<1>6. Opened = f[N]
  BY Zenon DEF Opened, N, shut, Next1
<1> HIDE DEF f
<1>7. f[0] = shut /\ \A n \in 1 .. N : f[n] = Next1(f[n - 1])
  BY <1>n, <1>5
<1> HIDE DEF Is
<1>8. AreGiven(f[N])
  <2> DEFINE Q == {n \in 0 .. N : AreGiven(f[n])}
  <2>1. 0 \in Q
    BY <1>n, <1>7 DEF AreGiven, shut
  <2>2. ASSUME NEW n \in 1 .. N, n - 1 \in Q PROVE n \in Q
    <3>1. AreGiven(f[n - 1]) /\ f[n] = Next1(f[n - 1]) /\ n \in 0 .. N
      BY <1>n, <1>7, <2>2
    <3>2. \A ref \in DOMAIN Fragments :
            Inlined(Fragments[ref], f[n - 1]) = Raised \/ IsNode(Inlined(Fragments[ref], f[n - 1]))
      BY <3>1, FragmentsAssumption, InlinedNode
    <3>3. AreGiven(f[n])
      BY <3>1, <3>2 DEF AreGiven, Next1
    <3> QED BY <3>1, <3>3
  <2> HIDE DEF Q
  <2>3. \A n \in 0 .. N : n \in Q
    BY <1>n, <2>1, <2>2, Loop!InductionUpTo
  <2> QED BY <1>n, <2>3 DEF Q
<1> QED BY <1>6, <1>8

\* What is read of a plan: a list of entries whose table are lists, each saying what it says itself.
LEMMA EntriesAreWritten ==
  ASSUME NEW plan, IsFile(plan), NEW entries, entries = PlanEntries(plan), entries # Raised
  PROVE  /\ DOMAIN entries = 1 .. Len(entries) /\ Len(entries) \in Nat
         /\ \A k \in DOMAIN entries : Matrix \in DOMAIN entries[k].keys => IsSequence(entries[k].keys[Matrix])
         /\ (\A k \in DOMAIN plan.jobs : plan.jobs[k].refs = <<>>) =>
              \A k \in DOMAIN entries : SaysOf(entries[k].keys, plan.jobs[k].keys, plan.defaults)
<1> DEFINE defaults == Inlined(plan.defaults, Opened)
           list == Inlined([items |-> plan.jobs], Opened)
           plain == \A k \in DOMAIN plan.jobs : plan.jobs[k].refs = <<>>
<1>1. plan.shape = "ok"
  BY Zenon DEF PlanEntries, EntriesOf
<1>2. entries = OverDefaults(list, defaults) /\ (IsList(defaults) => defaults.items = <<>> \/ defaults = Raised)
  <2> HIDE DEF defaults, list
  <2> QED BY <1>1, Zenon DEF PlanEntries, EntriesOf, defaults, list
<1> HIDE DEF defaults, list
<1>3. /\ list # Raised /\ defaults # Raised
      /\ entries = [k \in DOMAIN list.items |->
                      [own |-> list.items[k].keys, keys |-> DeepMerge(defaults, list.items[k]).keys]]
  BY <1>2, Zenon DEF OverDefaults
<1>4. /\ IsMappings(list.items)
      /\ plain => DOMAIN list.items = DOMAIN plan.jobs /\ \A k \in DOMAIN plan.jobs : list.items[k].keys = plan.jobs[k].keys
  BY <1>3, OpenedNodes, SplicedNode DEF IsFile, list
<1>5. IsNode(defaults)
  BY <1>3, OpenedNodes, InlinedNode, MappingIsNode DEF IsFile, defaults
<1>6. /\ DOMAIN list.items = 1 .. Len(list.items) /\ Len(list.items) \in Nat
      /\ \A k \in DOMAIN list.items : IsMapping(list.items[k])
  BY <1>4 DEF IsMappings, IsSequence
<1>7. DOMAIN entries = DOMAIN list.items /\ Len(entries) = Len(list.items)
  <2> DEFINE N == Len(list.items)
  <2>1. entries = [k \in 1 .. N |-> entries[k]] /\ N \in Nat
    BY <1>3, <1>6
  <2> HIDE DEF N
  <2>2. entries \in Seq({entries[k] : k \in 1 .. N}) /\ DOMAIN entries = 1 .. N
    BY <2>1
  <2> QED BY <1>6, <2>1, <2>2 DEF N
<1>8. ASSUME NEW k \in DOMAIN entries
      PROVE  /\ entries[k].keys = DeepMerge(defaults, list.items[k]).keys
             /\ IsMapping(list.items[k]) /\ IsMapping(DeepMerge(defaults, list.items[k]))
  BY <1>3, <1>5, <1>6, <1>7, DeepMergeKeeps, MappingIsNode
<1>9. ASSUME NEW k \in DOMAIN entries, Matrix \in DOMAIN entries[k].keys PROVE IsSequence(entries[k].keys[Matrix])
  <2>1. ASSUME NEW m, IsMapping(m), Matrix \in DOMAIN m.keys PROVE IsSequence(m.keys[Matrix])
    BY <2>1 DEF IsMapping
  <2> QED BY <1>8, <1>9, <2>1
<1>10. ASSUME plain, NEW k \in DOMAIN entries
       PROVE  SaysOf(entries[k].keys, plan.jobs[k].keys, plan.defaults)
  <2> DEFINE own == plan.jobs[k].keys
             keys == entries[k].keys
  <2>1. list.items[k].keys = own /\ ~ IsList(list.items[k])
    BY <1>4, <1>7, <1>8, <1>10, MappingIsNode
  <2>2. CASE IsList(defaults)
    <3>1. keys = own
      BY <1>8, <2>1, <2>2 DEF DeepMerge
    <3>2. plan.defaults.refs # <<>>
      <4>1. ASSUME plan.defaults.refs = <<>> PROVE FALSE
        <5>1. IsMapping(plan.defaults) /\ ~ IsList(plan.defaults)
          BY MappingIsNode DEF IsFile
        <5>2. defaults = Mapping(<<>>, plan.defaults.keys)
          BY <4>1, <5>1, OpenedNodes, ResolvedNode DEF Inlined, defaults
        <5> QED BY <2>2, <5>1, <5>2, BareMapping, MappingIsNode
      <4> QED BY <4>1
    <3> QED BY <3>1, <3>2, Zenon DEF SaysOf
  <2>3. CASE ~ IsList(defaults)
    <3>1. keys = Under(own, defaults.keys)
      BY <1>8, <2>1, <2>3 DEF DeepMerge, Mapping
    <3>2. plan.defaults.refs = <<>> => defaults.keys = plan.defaults.keys
      <4>1. IsMapping(plan.defaults) /\ ~ IsList(plan.defaults)
        BY MappingIsNode DEF IsFile
      <4> QED BY <4>1, OpenedNodes, ResolvedNode, BareMapping DEF Inlined, defaults
    <3> HIDE DEF keys, own
    <3>3. \A key \in DOMAIN own : key \in DOMAIN keys /\ keys[key] = own[key]
      BY <3>1 DEF Under
    <3>4. \A key \in DOMAIN defaults.keys : ~ Replaced(own, key) => key \in DOMAIN keys /\ keys[key] = defaults.keys[key]
      BY <3>1 DEF Under, Left, Replaced
    <3>5. SaysOf(keys, own, plan.defaults)
      BY <3>2, <3>3, <3>4, Zenon DEF SaysOf
    <3> QED BY <3>5 DEF keys, own
  <2> QED BY <2>2, <2>3
<1> QED BY <1>6, <1>7, <1>9, <1>10

\* An entry is fanned out to a list of jobs, or raises.
LEMMA FannedIsList ==
  ASSUME NEW entry, Matrix \in DOMAIN entry.keys => IsSequence(entry.keys[Matrix])
  PROVE  IsFanned(entry)
<1> DEFINE keys == entry.keys
           base == entry.base
           fan == Fanned(keys, base)
<1>1. CASE Matrix \notin DOMAIN keys
  <2>1. fan = <<keys>>
    BY <1>1, Zenon DEF Fanned
  <2> HIDE DEF fan
  <2> QED BY <2>1 DEF IsFanned, fan, keys, base
<1>2. CASE Matrix \in DOMAIN keys
  <2> DEFINE table == keys[Matrix]
             template == [key \in DOMAIN keys \ {Matrix} |-> keys[key]]
             jobs == [k \in DOMAIN table |-> WithId(Subst(template, table[k]), Append(base, k - 1))]
             N == Len(table)
  <2>1. fan = Raised \/ fan = jobs
    BY <1>2, Zenon DEF Fanned
  <2>2. DOMAIN table = 1 .. N /\ N \in Nat
    BY <1>2 DEF IsSequence
  <2>3. DOMAIN jobs = 1 .. N /\ jobs = [k \in DOMAIN jobs |-> jobs[k]]
    BY <2>2
  <2> HIDE DEF fan, jobs, N, table
  <2>4. jobs \in Seq({jobs[k] : k \in 1 .. N})
    BY <2>2, <2>3
  <2>5. Len(jobs) = N
    BY <2>2, <2>3, <2>4
  <2>6. fan = Raised \/ (DOMAIN fan = 1 .. Len(fan) /\ Len(fan) \in Nat)
    BY <2>1, <2>2, <2>3, <2>5
  <2> QED BY <2>6 DEF IsFanned, fan, keys, base
<1> QED BY <1>1, <1>2

\* An ingest plan loads as written, whatever its entries, defaults and fragments: _load_ingest_plan.
THEOREM PlanLoads ==
  ASSUME NEW plan, IsFile(plan)
  PROVE  LoadsAsWritten(plan)
<1> DEFINE entries == PlanEntries(plan)
           stem == plan.stem
           run == Plan(stem, entries)
           alone == [k \in DOMAIN entries |-> Alone(stem, entries, k)]
<1>1. CASE entries = Raised
  <2>1. run = [NothingLoaded EXCEPT !.failed = {<<stem>>}]
    BY <1>1, Zenon DEF Plan
  <2> HIDE DEF run
  <2>2. run.jobs = <<>> /\ run.failed = {<<stem>>}
    BY <2>1 DEF NothingLoaded
  <2> HIDE DEF entries
  <2> QED BY <1>1, <2>2 DEF LoadsAsWritten, LoadsAs, run, stem, entries
<1>2. CASE entries # Raised
  <2> DEFINE bases == WithBases(stem, entries)
  <2>1. /\ DOMAIN entries = 1 .. Len(entries) /\ Len(entries) \in Nat
        /\ \A k \in DOMAIN entries : Matrix \in DOMAIN entries[k].keys => IsSequence(entries[k].keys[Matrix])
        /\ (\A k \in DOMAIN plan.jobs : plan.jobs[k].refs = <<>>) =>
             \A k \in DOMAIN entries : SaysOf(entries[k].keys, plan.jobs[k].keys, plan.defaults)
    BY <1>2, EntriesAreWritten
  <2>2. run = Folded(EntryLoaded, NothingLoaded, bases)
    BY <1>2, Zenon DEF Plan
  <2> HIDE DEF run, entries
  <2>3. /\ DOMAIN bases = DOMAIN entries
        /\ \A k \in DOMAIN entries : bases[k] = [keys |-> entries[k].keys, base |-> BaseOf(stem, entries, k)]
    BY DEF WithBases
  <2>4. AreFanned(bases)
    <3>1. DOMAIN bases = 1 .. Len(entries) /\ bases = [k \in DOMAIN bases |-> bases[k]]
      BY <2>1, <2>3 DEF WithBases
    <3> HIDE DEF bases
    <3>2. bases \in Seq({bases[k] : k \in 1 .. Len(entries)})
      BY <2>1, <3>1
    <3>3. Len(bases) = Len(entries)
      BY <2>1, <3>1, <3>2
    <3>4. ASSUME NEW k \in DOMAIN bases PROVE IsFanned(bases[k])
      <4>1. bases[k].keys = entries[k].keys
        BY <2>3
      <4> QED BY <2>1, <2>3, <4>1, FannedIsList
    <3> QED BY <2>1, <3>1, <3>3, <3>4 DEF AreFanned
  <2>5. AreAlone(alone, bases)
    <3>1. \A k \in DOMAIN entries : alone[k] = EntryLoaded(NothingLoaded, bases[k])
      BY DEF Alone
    <3>2. alone = [k \in DOMAIN entries |-> alone[k]]
      OBVIOUS
    <3> HIDE DEF alone, bases
    <3> QED BY <2>3, <3>1, <3>2 DEF AreAlone
  <2>6. Loads(run, bases)
    BY <2>2, Zenon DEF Loads
  <2> HIDE DEF bases
  <2>7. DOMAIN alone = DOMAIN entries
    OBVIOUS
  <2> HIDE DEF alone
  <2>8. EachIsLoaded([k \in DOMAIN bases |-> bases[k].base], run, alone) /\ Distinguished(run)
    BY <2>4, <2>5, <2>6, EntriesLoad
  <2>9. \A k \in DOMAIN entries : [m \in DOMAIN bases |-> bases[m].base][k] = BaseOf(stem, entries, k)
    BY <2>3
  <2>10. \A r : ToSet(r.jobs) = JobsOf(r)
    BY DEF ToSet, JobsOf
  <2>11. IsInjective([k \in DOMAIN run.jobs |-> run.jobs[k][Id]])
    BY <2>8 DEF Distinguished, IsInjective
  <2>12. LoadedAsWritten(plan, entries, run, alone)
    <3>1. \A k \in DOMAIN entries :
            (alone[k].failed = {} /\ ToSet(alone[k].jobs) \subseteq ToSet(run.jobs)) \/ BaseOf(stem, entries, k) \in run.failed
      BY <2>7, <2>8, <2>9, <2>10 DEF EachIsLoaded
    <3>2. \A k \in DOMAIN entries :
            alone[k].failed = {} /\ alone[k].ids \cap UNION {alone[m].ids : m \in DOMAIN entries \ {k}} = {}
              => alone[k].failed = {} /\ ToSet(alone[k].jobs) \subseteq ToSet(run.jobs)
      BY <2>7, <2>8, <2>10 DEF EachIsLoaded
    <3> QED BY <2>1, <2>11, <3>1, <3>2 DEF LoadedAsWritten, stem
  <2>13. LoadsAs(plan, entries)
    BY <1>2, <2>12 DEF LoadsAs, run, alone, stem
  <2> QED BY <2>13 DEF LoadsAsWritten, entries
<1> QED BY <1>1, <1>2

-----------------------------------------------------------------------------
(* The flow *)

\* The jobs are those the files declare; the page is kept as PageInv says for the job that has one.
FlowInv ==
  /\ start \in DOMAIN Starts /\ conf = ConfOf(start)
  /\ \A kind \in Kinds : (\E j \in Jobs : conf[j].kind = kind) => PageInv(kind)

\* a step of the pipeline keeps the jobs
LEMMA PollKeepsConf == ASSUME NEW j, NEW list, NEW items, Poll(j, list, items) PROVE conf' = conf
BY DEF Poll, Deliver

LEMMA PipeKeepsConf == PipeNext \/ PipeRestart => conf' = conf
<1>1. ASSUME NEW j \in Jobs, PostOK(j) \/ PostRefused(j) \/ PostFails(j) \/ CsvAppend(j) \/ NextEvent(j) PROVE conf' = conf
  BY <1>1 DEF PostOK, PostRefused, PostFails, CsvAppend, NextEvent, outside
<1>2. ASSUME NEW j \in Jobs, NEW items, Poll(j, TRUE, items) PROVE conf' = conf
  BY <1>2, PollKeepsConf
<1> QED BY <1>1, <1>2 DEF PipeNext, BackendTurns, PipeRestart

\* What a step of the flow is to each of its parts.
LEMMA FlowSteps ==
  ASSUME [Next]_vars
  PROVE  /\ conf' = conf /\ start' = start
         /\ [HarvestNext]_harvestVars /\ [MarketNext]_marketVars
         /\ \/ UNCHANGED pageVars \/ PageRestart
            \/ \E j \in Of(PageKinds) : [PageNext(conf[j].kind)]_pageVars
<1>1. CASE PipeNext /\ UNCHANGED sources /\ UNCHANGED start
  BY <1>1, PipeKeepsConf DEF sources
<1>2. ASSUME NEW j \in Of(PageKinds), PageStep(j), UNCHANGED start
      PROVE  /\ conf' = conf /\ UNCHANGED <<marketVars, harvestVars>>
             /\ [PageNext(conf[j].kind)]_pageVars
  <2>1. UNCHANGED <<marketVars, harvestVars>>
    BY <1>2 DEF PageStep
  <2>2. conf' = conf
    BY <1>2, PollKeepsConf DEF PageStep, pipeVars
  <2>3. PageNext(conf[j].kind)
    BY <1>2 DEF PageStep, PageNext
  <2> QED BY <2>1, <2>2, <2>3
<1>3. ASSUME NEW j \in Of({"market"}), MarketStep(j), UNCHANGED start
      PROVE  conf' = conf /\ UNCHANGED <<pageVars, harvestVars>> /\ MarketNext
  <2>1. UNCHANGED <<pageVars, harvestVars>>
    BY <1>3 DEF MarketStep
  <2>2. conf' = conf
    BY <1>3, PollKeepsConf DEF MarketStep, pipeVars
  <2>3. MarketNext
    BY <1>3 DEF MarketStep, MarketNext
  <2> QED BY <2>1, <2>2, <2>3
<1>4. ASSUME NEW j \in Of({"harvest"}), HarvestStep(j), UNCHANGED start
      PROVE  conf' = conf /\ UNCHANGED <<pageVars, marketVars>> /\ HarvestNext
  <2>1. UNCHANGED <<pageVars, marketVars>>
    BY <1>4 DEF HarvestStep
  <2>2. conf' = conf
    BY <1>4, PollKeepsConf DEF HarvestStep, pipeVars
  <2>3. HarvestNext
    BY <1>4, StartsAssumption DEF HarvestStep, HarvestNext
  <2> QED BY <2>1, <2>2, <2>3
<1>5. CASE Crash /\ UNCHANGED start
  BY <1>5, PipeKeepsConf DEF Crash, HarvestNext, MarketNext
<1>6. CASE UNCHANGED vars
  BY <1>6 DEF vars, sources, pipeVars
<1>7. UNCHANGED <<pageVars, harvestVars>> => UNCHANGED pageVars /\ UNCHANGED harvestVars
  OBVIOUS
<1> QED BY <1>1, <1>2, <1>3, <1>4, <1>5, <1>6 DEF Next

LEMMA FlowStep == FlowInv /\ [Next]_vars => FlowInv'
<1> SUFFICES ASSUME FlowInv, [Next]_vars PROVE FlowInv'
  OBVIOUS
<1>1. conf' = conf /\ start' = start
  BY FlowSteps
<1>2. ASSUME NEW kind \in Kinds, NEW k \in Jobs, conf[k].kind = kind PROVE PageInv(kind)'
  <2>1. PageInv(kind)
    BY <1>2 DEF FlowInv
  <2>2. ASSUME NEW j \in Of(PageKinds), [PageNext(conf[j].kind)]_pageVars PROVE [PageNext(kind)]_pageVars
    <3>1. j \in Jobs /\ conf[j].kind \in PageKinds /\ conf[k].kind \in PageKinds
      BY <1>2, <2>2 DEF Of, Kinds, PageKinds
    <3>2. j = k
      BY <3>1, StartsAssumption DEF FlowInv
    <3> QED BY <1>2, <2>2, <3>2
  <2>3. [PageNext(kind)]_pageVars
    BY <2>2, FlowSteps DEF PageNext
  <2> QED BY <2>1, <2>3, PageKeeps
<1>3. (start \in DOMAIN Starts /\ conf = ConfOf(start))'
  <2>1. ConfOf(start)' = ConfOf(start)
    BY <1>1 DEF ConfOf
  <2> QED BY <1>1, <2>1 DEF FlowInv
<1>4. \A kind \in Kinds : (\E k \in Jobs : conf'[k].kind = kind) => PageInv(kind)'
  BY <1>1, <1>2
<1> QED BY <1>3, <1>4 DEF FlowInv

LEMMA FlowHolds == Spec => []FlowInv
<1>1. Init => FlowInv
  BY PageStarts DEF Init, FlowInv
<1> QED BY <1>1, FlowStep, PTL DEF Spec

\* Whatever the jobs of a start are and however their deliveries, sweeps and restarts fall, each
\* page job tells exactly what is new (the loop over the pollables of ujin/poll).
THEOREM FlowNotices == Spec => []NoticesAreExact
<1>1. FlowInv => NoticesAreExact
  BY DEF FlowInv, NoticesAreExact, Of, PageKinds, Kinds, PageInv
<1> QED BY <1>1, FlowHolds, PTL

\* Whichever start the service has, its plan loads as written (jobs/app.py: _load_ingest_plan).
THEOREM FlowPlans == Spec => []PlanLoadsAsWritten
<1>1. FlowInv => PlanLoadsAsWritten
  BY StartsAssumption, PlanLoads DEF FlowInv, PlanLoadsAsWritten
<1> QED BY <1>1, FlowHolds, PTL

\* In a job flow, too, a learned term is searched once.
THEOREM FlowTerms == Spec => []HarvestedOnce
<1>1. Init => HarvestInit
  BY DEF Init
<1>2. [Next]_vars => [HarvestNext]_harvestVars
  BY FlowSteps
<1>3. Spec => HarvestSpec
  BY <1>1, <1>2, PTL DEF Spec, HarvestSpec
<1> QED BY <1>3, TermsSearchedOnce, PTL

-----------------------------------------------------------------------------
(* Links of pages and feeds *)

Urls == DOMAIN Canon \cup {Canon[h] : h \in DOMAIN Canon}
Anchors == UNION {UNION {{listing[k] : k \in DOMAIN listing} : listing \in Pages[h]} : h \in DOMAIN Pages}
Items == UNION {UNION {{feed[k] : k \in DOMAIN feed} : feed \in Feeds[h]} : h \in DOMAIN Feeds}
Texts == {anchor.text : anchor \in Anchors \cup Items}
Sums == {NoText} \cup {item.summary : item \in Items}
Links == [url : Urls, text : Texts, summary : Sums, seen : SUBSET {"rss", "html", "article"}]

LEMMA ListTypes ==
  ASSUME NEW h \in DOMAIN Pages, NEW list \in Pages[h] \cup Feeds[h]
  PROVE  /\ list \in Seq({list[k] : k \in DOMAIN list})
         /\ \A k \in DOMAIN list : list[k].href \in DOMAIN Canon
<1>1. list \in UNION {Pages[g] \cup Feeds[g] : g \in DOMAIN Pages}
  OBVIOUS
<1> QED BY <1>1, BatchAssumption DEF BatchAssumption

LEMMA InAnchors ==
  ASSUME NEW h \in DOMAIN Pages, NEW listing \in Pages[h]
  PROVE  listing \in Seq(Anchors)
<1>1. listing \in Seq({listing[k] : k \in DOMAIN listing})
  BY ListTypes
<1>2. \A k \in DOMAIN listing : listing[k] \in Anchors
  BY DEF Anchors
<1> DEFINE S == {listing[k] : k \in DOMAIN listing}
<1>3. S \subseteq Anchors
  BY <1>2
<1> HIDE DEF S
<1>4. listing \in Seq(S)
  BY <1>1 DEF S
<1> QED BY <1>3, <1>4

LEMMA InItems ==
  ASSUME NEW h \in DOMAIN Pages, NEW feed \in Feeds[h]
  PROVE  feed \in Seq(Items)
<1>1. feed \in Seq({feed[k] : k \in DOMAIN feed}) /\ DOMAIN Feeds = DOMAIN Pages
  BY ListTypes, BatchAssumption DEF BatchAssumption
<1>2. \A k \in DOMAIN feed : feed[k] \in Items
  BY <1>1 DEF Items
<1> DEFINE S == {feed[k] : k \in DOMAIN feed}
<1>3. S \subseteq Items
  BY <1>2
<1> HIDE DEF S
<1>4. feed \in Seq(S)
  BY <1>1 DEF S
<1> QED BY <1>3, <1>4

LEMMA AnchorTypes ==
  ASSUME NEW anchor \in Anchors PROVE anchor.href \in DOMAIN Canon /\ anchor.text \in Texts
<1>1. PICK h \in DOMAIN Pages : \E listing \in Pages[h] : anchor \in {listing[k] : k \in DOMAIN listing}
  BY DEF Anchors
<1>2. PICK listing \in Pages[h] : anchor \in {listing[k] : k \in DOMAIN listing}
  BY <1>1
<1>3. PICK k \in DOMAIN listing : anchor = listing[k]
  BY <1>2
<1>4. listing[k].href \in DOMAIN Canon
  BY ListTypes
<1> QED BY <1>3, <1>4 DEF Texts

LEMMA ItemTypes ==
  ASSUME NEW item \in Items
  PROVE  item.href \in DOMAIN Canon /\ item.text \in Texts /\ item.summary \in Sums
<1>1. PICK h \in DOMAIN Pages : \E feed \in Feeds[h] : item \in {feed[k] : k \in DOMAIN feed}
  <2>1. DOMAIN Feeds = DOMAIN Pages
    BY BatchAssumption DEF BatchAssumption
  <2> QED BY <2>1 DEF Items
<1>2. PICK feed \in Feeds[h] : item \in {feed[k] : k \in DOMAIN feed}
  BY <1>1
<1>3. PICK k \in DOMAIN feed : item = feed[k]
  BY <1>2
<1>4. feed[k].href \in DOMAIN Canon
  BY ListTypes
<1> QED BY <1>3, <1>4 DEF Texts, Sums

LEMMA AtUrl ==
  ASSUME NEW links, NEW url \in UrlsOf(links)
  PROVE  At(links, url) \in DOMAIN links /\ links[At(links, url)].url = url
BY DEF UrlsOf, At

Distinct(links) == \A i, k \in DOMAIN links : links[i].url = links[k].url => i = k

\* What assigning to a key does: the others stay.
LEMMA AssignKeeps ==
  ASSUME NEW S, NEW links \in Seq(S), NEW link \in S
  PROVE  LET r == Assign(links, link) IN
         /\ r \in Seq(S) /\ UrlsOf(r) = UrlsOf(links) \cup {link.url}
         /\ Distinct(links) => Distinct(r)
         /\ \A k \in DOMAIN r : r[k] = link \/ (k \in DOMAIN links /\ r[k] = links[k])
<1> DEFINE r == Assign(links, link)
<1>1. CASE link.url \in UrlsOf(links)
  <2> DEFINE i == At(links, link.url)
  <2>1. i \in DOMAIN links /\ links[i].url = link.url
    BY <1>1, AtUrl
  <2>2. r = [links EXCEPT ![i] = link]
    BY <1>1 DEF Assign
  <2> HIDE DEF i, r
  <2>3. r \in Seq(S) /\ DOMAIN r = DOMAIN links /\ \A k \in DOMAIN links : r[k] = IF k = i THEN link ELSE links[k]
    BY <2>1, <2>2
  <2>4. \A k \in DOMAIN links : r[k].url = links[k].url
    BY <2>1, <2>3
  <2>5. UrlsOf(r) = UrlsOf(links) \cup {link.url}
    BY <1>1, <2>3, <2>4 DEF UrlsOf
  <2>6. Distinct(links) => Distinct(r)
    BY <2>3, <2>4 DEF Distinct
  <2> QED BY <2>3, <2>5, <2>6 DEF r
<1>2. CASE link.url \notin UrlsOf(links)
  <2>1. r = Append(links, link)
    BY <1>2 DEF Assign
  <2> HIDE DEF r
  <2>2. /\ r \in Seq(S) /\ DOMAIN links = 1 .. Len(links) /\ DOMAIN r = 1 .. Len(links) + 1 /\ Len(links) \in Nat
        /\ r[Len(links) + 1] = link /\ \A k \in 1 .. Len(links) : r[k] = links[k]
    BY <2>1
  <2>3. UrlsOf(r) = UrlsOf(links) \cup {link.url}
    BY <2>2 DEF UrlsOf
  <2>4. ASSUME Distinct(links), NEW i \in DOMAIN r, NEW k \in DOMAIN r, r[i].url = r[k].url PROVE i = k
    <3>1. CASE i \in 1 .. Len(links) /\ k \in 1 .. Len(links)
      BY <2>2, <2>4, <3>1 DEF Distinct
    <3>2. CASE ~ (i \in 1 .. Len(links) /\ k \in 1 .. Len(links))
      BY <1>2, <2>2, <2>4, <3>2 DEF UrlsOf
    <3> QED BY <3>1, <3>2
  <2>5. \A k \in DOMAIN r : r[k] = link \/ (k \in DOMAIN links /\ r[k] = links[k])
    BY <2>2
  <2> QED BY <2>2, <2>3, <2>4, <2>5 DEF r, Distinct
<1> QED BY <1>1, <1>2

\* r has the link, and the others of g
With(g, link, r) ==
  /\ r \in Seq(Links) /\ UrlsOf(r) = UrlsOf(g) \cup {link.url} /\ Distinct(r)
  /\ \A k \in DOMAIN r : r[k] = link \/ (k \in DOMAIN g /\ r[k] = g[k])

LEMMA AssignLinks ==
  ASSUME NEW g \in Seq(Links), Distinct(g), NEW link \in Links
  PROVE  With(g, link, Assign(g, link))
<1> HIDE DEF Links
<1> QED BY AssignKeeps DEF With

\* A page yields links.
LEMMA ExtractTypes ==
  ASSUME NEW listing \in Seq(Anchors)
  PROVE  Extract(listing) \in Seq(Links)
<1> DEFINE N == Len(listing)
           G == [n \in 0 .. N |-> Seq(Links)]
           step == [n \in 1 .. N |-> [g \in G[n - 1] |-> Consider(g, listing[n])]]
           Is(f) == f = [n \in 0 .. N |-> IF n = 0 THEN <<>> ELSE Consider(f[n - 1], listing[n])]
<1>1. N \in Nat
  OBVIOUS
<1>2. <<>> \in G[0]
  OBVIOUS
<1>3. ASSUME NEW n \in 1 .. N, NEW g \in G[n - 1] PROVE Consider(g, listing[n]) \in G[n]
  <2>1. g \in Seq(Links) /\ listing[n] \in Anchors
    BY <1>1
  <2>2. Canon[listing[n].href] \in Urls /\ listing[n].text \in Texts /\ NoText \in Sums
    BY <2>1, AnchorTypes DEF Urls, Sums
  <2>3. Link(Canon[listing[n].href], listing[n].text, NoText, {}) \in Links
    BY <2>2 DEF Link, Links
  <2>4. Assign(g, Link(Canon[listing[n].href], listing[n].text, NoText, {})) \in Seq(Links)
    BY <2>1, <2>3, AssignKeeps
  <2> QED BY <1>1, <2>1, <2>4 DEF Consider
<1>4. \A n \in 1 .. N : \A g \in G[n - 1] : step[n][g] \in G[n]
  <2> HIDE DEF G, N
  <2> QED BY <1>3
<1>5. \E f : Is(f)
  <2> HIDE DEF G, N
  <2>1. PICK f : Loop!Recurs(f, N, <<>>, step) /\ \A n \in 0 .. N : f[n] \in G[n]
    <3> HIDE DEF step, Is
    <3> QED BY <1>1, <1>2, <1>4, Loop!RecursionUpTo
  <2>2. ASSUME NEW n \in 1 .. N PROVE step[n][f[n - 1]] = Consider(f[n - 1], listing[n])
    <3>1. n - 1 \in 0 .. N
      BY <1>1
    <3> QED BY <2>1, <3>1
  <2> HIDE DEF step
  <2>3. Is(f)
    BY <1>1, <2>1, <2>2 DEF Loop!Recurs
  <2> QED BY <2>3
<1> DEFINE f == CHOOSE f : Is(f)
<1>6. Is(f)
  <2> HIDE DEF Is
  <2> QED BY <1>5
<1>7. Extract(listing) = f[N]
  BY DEF Extract, Folded
<1> HIDE DEF f, G, N
<1>8. f[0] \in G[0]
  BY <1>1, <1>2, <1>6
<1>9. ASSUME NEW n \in 1 .. N, f[n - 1] \in G[n - 1] PROVE f[n] \in G[n]
  <2>1. f[n] = Consider(f[n - 1], listing[n])
    BY <1>1, <1>6
  <2> QED BY <1>3, <1>9, <2>1
<1>10. f[N] \in G[N]
  BY <1>1, <1>8, <1>9, Loop!ValuesUpTo
<1> QED BY <1>1, <1>7, <1>10 DEF G, N

\* The topic filter leaves links.
LEMMA FilteredTypes ==
  ASSUME NEW links \in Seq(Links)
  PROVE  Filtered(links) \in Seq(Links)
<1> DEFINE N == Len(links)
           G == [n \in 0 .. N |-> Seq(Links)]
           step == [n \in 1 .. N |-> [g \in G[n - 1] |-> Allowed(g, links[n])]]
           Is(f) == f = [n \in 0 .. N |-> IF n = 0 THEN <<>> ELSE Allowed(f[n - 1], links[n])]
<1>1. N \in Nat
  OBVIOUS
<1>2. <<>> \in G[0]
  OBVIOUS
<1>3. ASSUME NEW n \in 1 .. N, NEW g \in G[n - 1] PROVE Allowed(g, links[n]) \in G[n]
  <2>1. g \in Seq(Links) /\ links[n] \in Links
    BY <1>1
  <2>2. Allowed(g, links[n]) \in Seq(Links)
    <3>1. Append(g, links[n]) \in Seq(Links)
      BY <2>1
    <3> QED BY <2>1, <3>1 DEF Allowed
  <2> QED BY <1>1, <2>2
<1>4. \A n \in 1 .. N : \A g \in G[n - 1] : step[n][g] \in G[n]
  <2> HIDE DEF G, N
  <2> QED BY <1>3
<1>5. \E f : Is(f)
  <2> HIDE DEF G, N
  <2>1. PICK f : Loop!Recurs(f, N, <<>>, step) /\ \A n \in 0 .. N : f[n] \in G[n]
    <3> HIDE DEF step, Is
    <3> QED BY <1>1, <1>2, <1>4, Loop!RecursionUpTo
  <2>2. ASSUME NEW n \in 1 .. N PROVE step[n][f[n - 1]] = Allowed(f[n - 1], links[n])
    <3>1. n - 1 \in 0 .. N
      BY <1>1
    <3> QED BY <2>1, <3>1
  <2> HIDE DEF step
  <2>3. Is(f)
    BY <1>1, <2>1, <2>2 DEF Loop!Recurs
  <2> QED BY <2>3
<1> DEFINE f == CHOOSE f : Is(f)
<1>6. Is(f)
  <2> HIDE DEF Is
  <2> QED BY <1>5
<1>7. Filtered(links) = f[N]
  BY DEF Filtered, Folded
<1> HIDE DEF f, G, N
<1>8. f[0] \in G[0]
  BY <1>1, <1>2, <1>6
<1>9. ASSUME NEW n \in 1 .. N, f[n - 1] \in G[n - 1] PROVE f[n] \in G[n]
  <2>1. f[n] = Allowed(f[n - 1], links[n])
    BY <1>1, <1>6
  <2> QED BY <1>3, <1>9, <2>1
<1>10. f[N] \in G[N]
  BY <1>1, <1>8, <1>9, Loop!ValuesUpTo
<1> QED BY <1>1, <1>7, <1>10 DEF G, N

UrlOf(item) == IF Canon[item.href] = NoUrl THEN item.href ELSE Canon[item.href]
KeptUpTo(feed, n) == {UrlOf(feed[k]) : k \in {m \in 1 .. n : ~ Junk(feed[m].text)}} \ Slop

\* a headline that came from the feed, as the feed has it
Sourced(link, feed) ==
  /\ "rss" \in link.seen /\ link.text # <<>>
  /\ \E n \in DOMAIN feed : /\ Canon[feed[n].href] \in {link.url, NoUrl}
                            /\ link.summary = feed[n].summary /\ link.text = feed[n].text

\* the links of a feed
OfFeed(feed, n) ==
  {g \in Seq(Links) : /\ Distinct(g) /\ UrlsOf(g) = KeptUpTo(feed, n)
                      /\ \A k \in DOMAIN g : Sourced(g[k], feed)}

\* the links of a feed and of the first links of a page
OfBoth(feed, listing, n) ==
  {g \in Seq(Links) : /\ Distinct(g) /\ UrlsOf(g) = KeptUrls(feed) \cup {listing[m].url : m \in 1 .. n}
                      /\ \A k \in DOMAIN g : g[k].url \in KeptUrls(feed) => Sourced(g[k], feed)}

LEMMA AllKept ==
  ASSUME NEW feed \in Seq(Items)
  PROVE  KeptUpTo(feed, Len(feed)) = KeptUrls(feed)
BY DEF KeptUpTo, KeptUrls, UrlOf

\* One item of the feed more.
LEMMA FromRssKeeps ==
  ASSUME NEW feed \in Seq(Items), NEW n \in 1 .. Len(feed), NEW g \in OfFeed(feed, n - 1)
  PROVE  FromRss(g, feed[n]) \in OfFeed(feed, n)
<1> DEFINE item == feed[n]
           url == UrlOf(item)
           r == FromRss(g, item)
<1>0. n \in Nat /\ n - 1 \in Nat /\ n \in DOMAIN feed /\ item \in Items
  OBVIOUS
<1>1. /\ g \in Seq(Links) /\ Distinct(g) /\ UrlsOf(g) = KeptUpTo(feed, n - 1)
      /\ \A k \in DOMAIN g : Sourced(g[k], feed)
  BY DEF OfFeed
<1>2. CASE url \in Slop \/ Junk(item.text)
  <2>1. r = g
    BY <1>2 DEF FromRss, UrlOf
  <2>2. KeptUpTo(feed, n) = KeptUpTo(feed, n - 1)
    BY <1>0, <1>2 DEF KeptUpTo
  <2> QED BY <1>1, <2>1, <2>2 DEF OfFeed
<1>3. CASE ~ (url \in Slop \/ Junk(item.text))
  <2> DEFINE link == Link(url, item.text, item.summary, {"rss"})
  <2>1. item.text # <<>>
    BY <1>3, HeadlinesAssumption DEF HeadlinesAssumption, Junk
  <2>2. r = Assign(g, link)
    BY <1>3, <2>1 DEF FromRss, UrlOf
  <2>3. item.href \in DOMAIN Canon /\ item.text \in Texts /\ item.summary \in Sums
    BY <1>0, ItemTypes
  <2>4. url \in Urls
    BY <2>3 DEF UrlOf, Urls
  <2>5. link \in Links /\ link.url = url
    BY <2>3, <2>4 DEF Links, Link
  <2>6. Sourced(link, feed)
    BY <1>0, <2>1 DEF Sourced, Link, UrlOf
  <2>7. KeptUpTo(feed, n) = KeptUpTo(feed, n - 1) \cup {url}
    BY <1>0, <1>3 DEF KeptUpTo
  <2> HIDE DEF link, url, r, item
  <2>8. /\ r \in Seq(Links) /\ UrlsOf(r) = UrlsOf(g) \cup {link.url} /\ Distinct(r)
        /\ \A k \in DOMAIN r : r[k] = link \/ (k \in DOMAIN g /\ r[k] = g[k])
    <3>1. With(g, link, Assign(g, link))
      BY <1>1, <2>5, AssignLinks
    <3> QED BY <2>2, <3>1 DEF With
  <2>9. \A k \in DOMAIN r : Sourced(r[k], feed)
    BY <1>1, <2>6, <2>8
  <2>10. r \in OfFeed(feed, n)
    BY <1>1, <2>5, <2>7, <2>8, <2>9 DEF OfFeed
  <2> QED BY <2>10 DEF r, item
<1> QED BY <1>2, <1>3

\* A feed yields its headlines, each once.
LEMMA FromFeed ==
  ASSUME NEW feed \in Seq(Items)
  PROVE  Folded(FromRss, <<>>, feed) \in OfFeed(feed, Len(feed))
<1> DEFINE N == Len(feed)
           G == [n \in 0 .. N |-> OfFeed(feed, n)]
           step == [n \in 1 .. N |-> [g \in G[n - 1] |-> FromRss(g, feed[n])]]
           Is(f) == f = [n \in 0 .. N |-> IF n = 0 THEN <<>> ELSE FromRss(f[n - 1], feed[n])]
<1>1. N \in Nat
  OBVIOUS
<1>2. <<>> \in G[0]
  <2>1. <<>> \in Seq(Links) /\ DOMAIN <<>> = {}
    OBVIOUS
  <2>2. KeptUpTo(feed, 0) = {}
    BY DEF KeptUpTo
  <2>3. <<>> \in OfFeed(feed, 0)
    BY <2>1, <2>2 DEF OfFeed, Distinct, UrlsOf
  <2> QED BY <1>1, <2>3
<1>3. ASSUME NEW n \in 1 .. N, NEW g \in G[n - 1] PROVE FromRss(g, feed[n]) \in G[n]
  <2>1. g \in OfFeed(feed, n - 1)
    BY <1>1
  <2>2. FromRss(g, feed[n]) \in OfFeed(feed, n)
    BY <2>1, FromRssKeeps
  <2> QED BY <1>1, <2>2
<1>4. \A n \in 1 .. N : \A g \in G[n - 1] : step[n][g] \in G[n]
  <2> HIDE DEF G, N
  <2> QED BY <1>3
<1>5. \E f : Is(f)
  <2> HIDE DEF G, N
  <2>1. PICK f : Loop!Recurs(f, N, <<>>, step) /\ \A n \in 0 .. N : f[n] \in G[n]
    <3> HIDE DEF step, Is
    <3> QED BY <1>1, <1>2, <1>4, Loop!RecursionUpTo
  <2>2. ASSUME NEW n \in 1 .. N PROVE step[n][f[n - 1]] = FromRss(f[n - 1], feed[n])
    <3>1. n - 1 \in 0 .. N
      BY <1>1
    <3> QED BY <2>1, <3>1
  <2> HIDE DEF step
  <2>3. Is(f)
    BY <1>1, <2>1, <2>2 DEF Loop!Recurs
  <2> QED BY <2>3
<1> DEFINE f == CHOOSE f : Is(f)
<1>6. Is(f)
  <2> HIDE DEF Is
  <2> QED BY <1>5
<1>7. Folded(FromRss, <<>>, feed) = f[N]
  BY DEF Folded
<1> HIDE DEF f, G, N
<1>8. f[0] \in G[0]
  BY <1>1, <1>2, <1>6
<1>9. ASSUME NEW n \in 1 .. N, f[n - 1] \in G[n - 1] PROVE f[n] \in G[n]
  <2>1. f[n] = FromRss(f[n - 1], feed[n])
    BY <1>1, <1>6
  <2> QED BY <1>3, <1>9, <2>1
<1>10. f[N] \in G[N]
  BY <1>1, <1>8, <1>9, Loop!ValuesUpTo
<1> QED BY <1>1, <1>7, <1>10 DEF G, N

\* One link of the page more.
LEMMA FromHtmlKeeps ==
  ASSUME NEW feed, NEW listing \in Seq(Links), NEW n \in 1 .. Len(listing), NEW g \in OfBoth(feed, listing, n - 1)
  PROVE  FromHtml(g, listing[n]) \in OfBoth(feed, listing, n)
<1> DEFINE link == listing[n]
           r == FromHtml(g, link)
           E == {listing[m].url : m \in 1 .. n - 1}
<1>0. n \in Nat /\ n - 1 \in Nat /\ link \in Links
  OBVIOUS
<1>1. /\ g \in Seq(Links) /\ Distinct(g) /\ UrlsOf(g) = KeptUrls(feed) \cup E
      /\ \A k \in DOMAIN g : g[k].url \in KeptUrls(feed) => Sourced(g[k], feed)
  BY DEF OfBoth
<1>2. {listing[m].url : m \in 1 .. n} = E \cup {link.url}
  BY <1>0
<1>3. CASE link.url \notin UrlsOf(g)
  <2> DEFINE new == [link EXCEPT !.seen = {"html"}]
  <2>1. new \in Links /\ new.url = link.url
    BY <1>0 DEF Links
  <2>2. r = Append(g, new) /\ r = Assign(g, new)
    BY <1>3, <2>1 DEF FromHtml, Assign
  <2> HIDE DEF new, link, r, E
  <2>3. /\ r \in Seq(Links) /\ UrlsOf(r) = UrlsOf(g) \cup {new.url} /\ Distinct(r)
        /\ \A k \in DOMAIN r : r[k] = new \/ (k \in DOMAIN g /\ r[k] = g[k])
    <3>1. With(g, new, Assign(g, new))
      BY <1>1, <2>1, AssignLinks
    <3> QED BY <2>2, <3>1 DEF With
  <2>4. \A k \in DOMAIN r : r[k].url \in KeptUrls(feed) => Sourced(r[k], feed)
    BY <1>1, <1>3, <2>1, <2>3
  <2>5. r \in OfBoth(feed, listing, n)
    BY <1>1, <1>2, <2>1, <2>3, <2>4 DEF OfBoth
  <2> QED BY <2>5 DEF r, link
<1>4. CASE link.url \in UrlsOf(g)
  <2> DEFINE i == At(g, link.url)
             old == g[i]
             new == Link(old.url, IF old.text = <<>> THEN link.text ELSE old.text, old.summary, old.seen \cup {"html"})
  <2>1. i \in DOMAIN g /\ old.url = link.url /\ old \in Links
    BY <1>1, <1>4, AtUrl
  <2>2. r = [g EXCEPT ![i] = new]
    BY <1>4, <2>1 DEF FromHtml
  <2>3. /\ old.url \in Urls /\ old.text \in Texts /\ link.text \in Texts /\ old.summary \in Sums
        /\ old.seen \cup {"html"} \in SUBSET {"rss", "html", "article"}
    BY <1>0, <2>1 DEF Links
  <2>4. new \in Links /\ new.url = link.url
    BY <2>1, <2>3 DEF Links, Link
  <2>5. new.url \in KeptUrls(feed) => Sourced(new, feed)
    <3> SUFFICES ASSUME new.url \in KeptUrls(feed) PROVE Sourced(new, feed)
      OBVIOUS
    <3>1. Sourced(old, feed)
      BY <1>1, <2>1, <2>4
    <3>2. /\ new.text = old.text /\ new.summary = old.summary /\ new.url = old.url
          /\ new.seen = old.seen \cup {"html"}
      BY <3>1 DEF Link, Sourced
    <3> HIDE DEF new, old
    <3> QED BY <3>1, <3>2 DEF Sourced
  <2>6. r = Assign(g, new)
    BY <1>4, <2>2, <2>4 DEF Assign
  <2> HIDE DEF new, old, i, link, r, E
  <2>7. /\ r \in Seq(Links) /\ UrlsOf(r) = UrlsOf(g) \cup {new.url} /\ Distinct(r)
        /\ \A k \in DOMAIN r : r[k] = new \/ (k \in DOMAIN g /\ r[k] = g[k])
    <3>1. With(g, new, Assign(g, new))
      BY <1>1, <2>4, AssignLinks
    <3> QED BY <2>6, <3>1 DEF With
  <2>8. \A k \in DOMAIN r : r[k].url \in KeptUrls(feed) => Sourced(r[k], feed)
    BY <1>1, <2>5, <2>7
  <2>9. r \in OfBoth(feed, listing, n)
    BY <1>1, <1>2, <2>4, <2>7, <2>8 DEF OfBoth
  <2> QED BY <2>9 DEF r, link
<1> QED BY <1>3, <1>4

\* What the merge brings of a feed and a page.
LEMMA MergedHolds ==
  ASSUME NEW feed \in Seq(Items), NEW listing \in Seq(Links)
  PROVE  Merged(feed, listing) \in OfBoth(feed, listing, Len(listing))
<1> DEFINE first == Folded(FromRss, <<>>, feed)
<1>0. first \in OfBoth(feed, listing, 0)
  <2>1. first \in OfFeed(feed, Len(feed)) /\ KeptUpTo(feed, Len(feed)) = KeptUrls(feed)
    BY FromFeed, AllKept
  <2> HIDE DEF first
  <2> QED BY <2>1 DEF OfFeed, OfBoth
<1> HIDE DEF first
<1> DEFINE N == Len(listing)
           G == [n \in 0 .. N |-> OfBoth(feed, listing, n)]
           step == [n \in 1 .. N |-> [g \in G[n - 1] |-> FromHtml(g, listing[n])]]
           Is(f) == f = [n \in 0 .. N |-> IF n = 0 THEN first ELSE FromHtml(f[n - 1], listing[n])]
<1>1. N \in Nat
  OBVIOUS
<1>2. first \in G[0]
  BY <1>0, <1>1
<1>3. ASSUME NEW n \in 1 .. N, NEW g \in G[n - 1] PROVE FromHtml(g, listing[n]) \in G[n]
  <2>1. g \in OfBoth(feed, listing, n - 1)
    BY <1>1
  <2>2. FromHtml(g, listing[n]) \in OfBoth(feed, listing, n)
    BY <2>1, FromHtmlKeeps
  <2> QED BY <1>1, <2>2
<1>4. \A n \in 1 .. N : \A g \in G[n - 1] : step[n][g] \in G[n]
  <2> HIDE DEF G, N
  <2> QED BY <1>3
<1>5. \E f : Is(f)
  <2> HIDE DEF G, N
  <2>1. PICK f : Loop!Recurs(f, N, first, step) /\ \A n \in 0 .. N : f[n] \in G[n]
    <3> HIDE DEF step, Is
    <3> QED BY <1>1, <1>2, <1>4, Loop!RecursionUpTo
  <2>2. ASSUME NEW n \in 1 .. N PROVE step[n][f[n - 1]] = FromHtml(f[n - 1], listing[n])
    <3>1. n - 1 \in 0 .. N
      BY <1>1
    <3> QED BY <2>1, <3>1
  <2> HIDE DEF step
  <2>3. Is(f)
    BY <1>1, <2>1, <2>2 DEF Loop!Recurs
  <2> QED BY <2>3
<1> DEFINE f == CHOOSE f : Is(f)
<1>6. Is(f)
  <2> HIDE DEF Is
  <2> QED BY <1>5
<1>7. Merged(feed, listing) = f[N]
  BY DEF Merged, first, Folded
<1> HIDE DEF f, G, N
<1>8. f[0] \in G[0]
  BY <1>1, <1>2, <1>6
<1>9. ASSUME NEW n \in 1 .. N, f[n - 1] \in G[n - 1] PROVE f[n] \in G[n]
  <2>1. f[n] = FromHtml(f[n - 1], listing[n])
    BY <1>1, <1>6
  <2> QED BY <1>3, <1>9, <2>1
<1>10. f[N] \in G[N]
  BY <1>1, <1>8, <1>9, Loop!ValuesUpTo
<1> QED BY <1>1, <1>7, <1>10 DEF G, N

\* Links with different URLs are as many as their URLs.
LEMMA AsManyUrls ==
  ASSUME NEW S, NEW links \in Seq(S), Distinct(links)
  PROVE  Len(links) = Cardinality(UrlsOf(links))
<1> DEFINE f == [i \in 1 .. Len(links) |-> links[i].url]
           T == UrlsOf(links)
<1>1. Len(links) \in Nat /\ DOMAIN links = 1 .. Len(links)
  OBVIOUS
<1>2. f \in [1 .. Len(links) -> T]
  BY <1>1 DEF UrlsOf
<1>3. \A a, b \in 1 .. Len(links) : f[a] = f[b] => a = b
  BY <1>1 DEF Distinct
<1>4. \A t \in T : \E s \in 1 .. Len(links) : f[s] = t
  BY <1>1 DEF UrlsOf
<1> HIDE DEF f, T
<1>5. f \in Bijection(1 .. Len(links), T)
  BY <1>2, <1>3, <1>4 DEF Bijection, Injection, Surjection, IsInjective
<1>6. Cardinality(T) = Len(links)
  BY <1>1, <1>5, FS_CountingElements DEF ExistsBijection
<1> QED BY <1>6 DEF T

\* the links have each headline of the feed and of the page, those of the feed as it has them
Sound(links, feed, listing) ==
  /\ UrlsOf(links) = KeptUrls(feed) \cup UrlsOf(listing)
  /\ Len(links) = Cardinality(UrlsOf(links))
  /\ \A k \in DOMAIN links : links[k].url \in KeptUrls(feed) =>
       \E n \in DOMAIN feed : /\ Canon[feed[n].href] \in {links[k].url, NoUrl}
                              /\ links[k].summary = feed[n].summary
                              /\ links[k].text = feed[n].text

\* A merge is sound.
LEMMA MergeIsSound ==
  ASSUME NEW feed, NEW listing \in Seq(Links), NEW links \in OfBoth(feed, listing, Len(listing))
  PROVE  Sound(links, feed, listing)
<1>1. {listing[m].url : m \in 1 .. Len(listing)} = UrlsOf(listing)
  BY DEF UrlsOf
<1>2. /\ links \in Seq(Links) /\ Distinct(links) /\ UrlsOf(links) = KeptUrls(feed) \cup UrlsOf(listing)
      /\ \A k \in DOMAIN links : links[k].url \in KeptUrls(feed) => Sourced(links[k], feed)
  BY <1>1 DEF OfBoth
<1>3. Len(links) = Cardinality(UrlsOf(links))
  BY <1>2, AsManyUrls
<1> HIDE DEF Links
<1> QED BY <1>2, <1>3 DEF Sound, Sourced

\* Articles are read of links the feed does not have.
LEMMA OnlyOfPage ==
  ASSUME NEW feed, NEW listing \in Seq(Links), NEW links \in OfBoth(feed, listing, Len(listing)), NEW n,
         NEW k \in DOMAIN links, links[k].url \in KeptUrls(feed)
  PROVE  links[k].url \notin HtmlOnly(links, n)
<1>1. Distinct(links) /\ Sourced(links[k], feed)
  BY DEF OfBoth
<1>2. "rss" \in links[k].seen
  BY <1>1 DEF Sourced
<1> SUFFICES ASSUME links[k].url \in HtmlOnly(links, n) PROVE FALSE
  OBVIOUS
<1>3. PICK m \in DOMAIN links : links[m].url = links[k].url /\ links[m].seen = {"html"}
  BY DEF HtmlOnly
<1>4. m = k
  BY <1>1, <1>3 DEF Distinct
<1> QED BY <1>2, <1>3, <1>4

\* What the articles bring leaves a merge sound.
LEMMA EnrichedIsSound ==
  ASSUME NEW feed, NEW listing \in Seq(Links), NEW links \in OfBoth(feed, listing, Len(listing)), NEW n,
         NEW summed, DOMAIN summed \subseteq HtmlOnly(links, n)
  PROVE  Sound(Enriched(links, summed), feed, listing)
<1> DEFINE e == Enriched(links, summed)
           S == {e[i] : i \in DOMAIN links}
<1>1. /\ links \in Seq(Links) /\ Distinct(links)
      /\ UrlsOf(links) = KeptUrls(feed) \cup {listing[m].url : m \in 1 .. Len(listing)}
      /\ \A k \in DOMAIN links : links[k].url \in KeptUrls(feed) => Sourced(links[k], feed)
  BY DEF OfBoth
<1>2. DOMAIN e = DOMAIN links /\ DOMAIN links = 1 .. Len(links) /\ Len(links) \in Nat
  BY <1>1 DEF Enriched
<1>3. ASSUME NEW k \in DOMAIN links
      PROVE  e[k].url = links[k].url /\ (links[k].url \notin DOMAIN summed => e[k] = links[k])
  <2>1. links[k] \in Links
    BY <1>1
  <2>2. [links[k] EXCEPT !.summary = summed[links[k].url], !.seen = @ \cup {"article"}].url = links[k].url
    BY <2>1 DEF Links
  <2> QED BY <2>2 DEF Enriched
<1>4. e \in Seq(S)
  <2>1. e = [i \in 1 .. Len(links) |-> e[i]]
    BY <1>2 DEF Enriched
  <2> QED BY <1>2, <2>1
<1> HIDE DEF e, S
<1>5. Distinct(e)
  BY <1>1, <1>2, <1>3 DEF Distinct
<1>6. UrlsOf(e) = UrlsOf(links)
  BY <1>2, <1>3 DEF UrlsOf
<1>7. UrlsOf(e) = KeptUrls(feed) \cup UrlsOf(listing)
  <2>1. {listing[m].url : m \in 1 .. Len(listing)} = UrlsOf(listing)
    BY DEF UrlsOf
  <2> QED BY <1>1, <1>6, <2>1
<1>8. Len(e) = Cardinality(UrlsOf(e))
  BY <1>4, <1>5, AsManyUrls
<1>9. ASSUME NEW k \in DOMAIN e, e[k].url \in KeptUrls(feed) PROVE Sourced(e[k], feed)
  <2>1. k \in DOMAIN links /\ links[k].url \in KeptUrls(feed)
    BY <1>2, <1>3, <1>9
  <2>2. links[k].url \notin DOMAIN summed
    BY <2>1, OnlyOfPage
  <2> QED BY <1>1, <1>3, <2>1, <2>2
<1>10. Sound(e, feed, listing)
  BY <1>7, <1>8, <1>9 DEF Sound, Sourced
<1> QED BY <1>10 DEF e

-----------------------------------------------------------------------------
(* The batch: what a result holds *)

FeedOf(i) == OrNone(rss[i])
PageOf(i) == OrNone(html[i])

\* one URL of the batch: what is merged waits for articles of links only the page has, and
\* what is done is sound
SlotInv(i) ==
  /\ stage[i] \in {"queued", "fetching", "enriching", "done"}
  /\ html[i] \in Seq(Links) \cup {Waiting, Failed} /\ rss[i] \in Seq(Items) \cup {Waiting, Failed}
  /\ stage[i] \in {"queued", "fetching"} => DOMAIN got[i] = {}
  /\ stage[i] = "enriching" =>
       /\ batch.mode = "combined" /\ Waiting \notin {html[i], rss[i]}
       /\ merged[i] \in OfBoth(FeedOf(i), PageOf(i), Len(PageOf(i)))
       /\ asked[i] = HtmlOnly(merged[i], batch.topN) /\ DOMAIN got[i] \subseteq asked[i]
  /\ stage[i] = "done" /\ batch.mode = "combined" => Sound(results[i].links, FeedOf(i), PageOf(i))

BatchInv ==
  /\ batch \in Batches \cup {NoBatch}
  /\ DOMAIN stage = Slots /\ DOMAIN html = Slots /\ DOMAIN rss = Slots /\ DOMAIN merged = Slots
  /\ DOMAIN asked = Slots /\ DOMAIN got = Slots /\ DOMAIN results = Slots
  /\ \A i \in Slots : SlotInv(i)

\* What both fetches brought are links and items.
LEMMA Fetched ==
  ASSUME NEW i, SlotInv(i), Waiting \notin {html[i], rss[i]}
  PROVE  FeedOf(i) \in Seq(Items) /\ PageOf(i) \in Seq(Links)
<1>1. <<>> \in Seq(Items) /\ <<>> \in Seq(Links)
  OBVIOUS
<1> HIDE DEF Items, Links
<1> QED BY <1>1 DEF SlotInv, FeedOf, PageOf, OrNone

\* A URL whose variables stay is as it was.
LEMMA SlotKept ==
  ASSUME NEW i, SlotInv(i), UNCHANGED batch, stage'[i] = stage[i], html'[i] = html[i], rss'[i] = rss[i],
         merged'[i] = merged[i], asked'[i] = asked[i], got'[i] = got[i], results'[i] = results[i]
  PROVE  SlotInv(i)'
BY DEF SlotInv, FeedOf, PageOf, OrNone

\* A step of the i-th URL alone leaves the others.
LEMMA OthersKept ==
  ASSUME BatchInv, NEW i \in Slots, UNCHANGED batch, SlotInv(i)',
         DOMAIN stage' = Slots, DOMAIN html' = Slots, DOMAIN rss' = Slots, DOMAIN merged' = Slots,
         DOMAIN asked' = Slots, DOMAIN got' = Slots, DOMAIN results' = Slots,
         \A k \in Slots \ {i} : /\ stage'[k] = stage[k] /\ html'[k] = html[k] /\ rss'[k] = rss[k]
                                /\ merged'[k] = merged[k] /\ asked'[k] = asked[k] /\ got'[k] = got[k]
                                /\ results'[k] = results[k]
  PROVE  BatchInv'
<1>1. Slots' = Slots
  BY DEF Slots
<1>2. ASSUME NEW k \in Slots PROVE SlotInv(k)'
  <2>1. CASE k = i
    BY <2>1
  <2>2. CASE k # i
    <3>1. SlotInv(k)
      BY DEF BatchInv
    <3> QED BY <2>2, <3>1, SlotKept
  <2> QED BY <2>1, <2>2
<1> QED BY <1>1, <1>2 DEF BatchInv

LEMMA InSlots ==
  ASSUME BatchInv, NEW i \in Slots
  PROVE  /\ batch \in Batches /\ batch.urls[i] \in DOMAIN Pages /\ batch.mode \in {"links", "combined"}
         /\ Slots = DOMAIN batch.urls /\ SlotInv(i)
<1>1. batch \in Batches
  BY DEF BatchInv, Slots
<1>2. Slots = DOMAIN batch.urls
  BY <1>1, BatchAssumption DEF Slots, BatchAssumption
<1> QED BY <1>1, <1>2, BatchAssumption DEF BatchAssumption, BatchInv

LEMMA BeginKeeps ==
  ASSUME BatchInv, NEW b \in Batches, BeginBatch(b)
  PROVE  BatchInv'
<1>1. /\ batch' = b /\ b # NoBatch
      /\ stage' = [i \in DOMAIN b.urls |-> "queued"] /\ html' = [i \in DOMAIN b.urls |-> Waiting]
      /\ rss' = [i \in DOMAIN b.urls |-> Waiting] /\ merged' = [i \in DOMAIN b.urls |-> <<>>]
      /\ asked' = [i \in DOMAIN b.urls |-> {}] /\ got' = [i \in DOMAIN b.urls |-> <<>>]
      /\ results' = [i \in DOMAIN b.urls |-> Waiting]
  BY BatchAssumption DEF BeginBatch, BatchAssumption
<1>2. Slots' = DOMAIN b.urls
  BY <1>1 DEF Slots
<1>3. ASSUME NEW i \in Slots' PROVE SlotInv(i)'
  BY <1>1, <1>2 DEF SlotInv
<1> QED BY <1>1, <1>2, <1>3 DEF BatchInv

LEMMA AdmitKeeps ==
  ASSUME BatchInv, NEW i \in Slots, Admit(i)
  PROVE  BatchInv'
<1>1. /\ UNCHANGED <<batch, html, merged, asked, got, results>> /\ stage[i] = "queued"
      /\ stage' = [stage EXCEPT ![i] = "fetching"]
      /\ rss' = rss \/ rss' = [rss EXCEPT ![i] = <<>>]
  BY DEF Admit
<1>2. /\ DOMAIN stage = Slots /\ DOMAIN html = Slots /\ DOMAIN rss = Slots /\ DOMAIN merged = Slots
      /\ DOMAIN asked = Slots /\ DOMAIN got = Slots /\ DOMAIN results = Slots /\ SlotInv(i)
  BY DEF BatchInv
<1>3. /\ DOMAIN stage' = Slots /\ stage'[i] = "fetching" /\ \A k \in Slots \ {i} : stage'[k] = stage[k]
      /\ DOMAIN rss' = Slots /\ rss'[i] \in {rss[i], <<>>} /\ \A k \in Slots \ {i} : rss'[k] = rss[k]
  BY <1>1, <1>2
<1>4. <<>> \in Seq(Items)
  OBVIOUS
<1>5. SlotInv(i)'
  <2> HIDE DEF Items, Links
  <2> QED BY <1>1, <1>2, <1>3, <1>4 DEF SlotInv
<1> QED BY <1>1, <1>2, <1>3, <1>5, OthersKept

LEMMA HtmlKeeps ==
  ASSUME BatchInv, NEW i \in Slots, HtmlArrives(i) \/ HtmlFails(i)
  PROVE  BatchInv'
<1>1. /\ UNCHANGED <<batch, stage, rss, merged, asked, got, results>> /\ stage[i] = "fetching"
      /\ \E value \in Seq(Links) \cup {Failed} : html' = [html EXCEPT ![i] = value]
  <2>1. CASE HtmlFails(i)
    BY <2>1 DEF HtmlFails
  <2>2. CASE HtmlArrives(i)
    <3>1. PICK listing \in Pages[batch.urls[i]] : html' = [html EXCEPT ![i] = Filtered(Extract(listing))]
      BY <2>2 DEF HtmlArrives
    <3>2. listing \in Seq(Anchors)
      BY InSlots, InAnchors
    <3>3. Filtered(Extract(listing)) \in Seq(Links)
      BY <3>2, ExtractTypes, FilteredTypes
    <3> QED BY <2>2, <3>1, <3>3 DEF HtmlArrives
  <2> QED BY <2>1, <2>2
<1>2. /\ DOMAIN stage = Slots /\ DOMAIN html = Slots /\ DOMAIN rss = Slots /\ DOMAIN merged = Slots
      /\ DOMAIN asked = Slots /\ DOMAIN got = Slots /\ DOMAIN results = Slots /\ SlotInv(i)
  BY DEF BatchInv
<1>3. /\ DOMAIN html' = Slots /\ html'[i] \in Seq(Links) \cup {Failed}
      /\ \A k \in Slots \ {i} : html'[k] = html[k]
  BY <1>1, <1>2
<1>4. SlotInv(i)'
  <2> HIDE DEF Items, Links
  <2> QED BY <1>1, <1>2, <1>3 DEF SlotInv
<1> QED BY <1>1, <1>2, <1>3, <1>4, OthersKept

LEMMA RssKeeps ==
  ASSUME BatchInv, NEW i \in Slots, RssEnds(i)
  PROVE  BatchInv'
<1>1. /\ UNCHANGED <<batch, stage, html, merged, asked, got, results>> /\ stage[i] = "fetching"
      /\ \E value \in Seq(Items) \cup {Failed} : rss' = [rss EXCEPT ![i] = value]
  <2>1. PICK feed \in Feeds[batch.urls[i]] \cup {Failed} : rss' = [rss EXCEPT ![i] = feed]
    BY DEF RssEnds
  <2>2. feed \in Seq(Items) \cup {Failed}
    BY InSlots, InItems
  <2> QED BY <2>1, <2>2 DEF RssEnds
<1>2. /\ DOMAIN stage = Slots /\ DOMAIN html = Slots /\ DOMAIN rss = Slots /\ DOMAIN merged = Slots
      /\ DOMAIN asked = Slots /\ DOMAIN got = Slots /\ DOMAIN results = Slots /\ SlotInv(i)
  BY DEF BatchInv
<1>3. /\ DOMAIN rss' = Slots /\ rss'[i] \in Seq(Items) \cup {Failed}
      /\ \A k \in Slots \ {i} : rss'[k] = rss[k]
  BY <1>1, <1>2
<1>4. SlotInv(i)'
  <2> HIDE DEF Items, Links
  <2> QED BY <1>1, <1>2, <1>3 DEF SlotInv
<1> QED BY <1>1, <1>2, <1>3, <1>4, OthersKept

LEMMA PlainKeeps ==
  ASSUME BatchInv, NEW i \in Slots, PlainEnds(i)
  PROVE  BatchInv'
<1>1. /\ UNCHANGED <<batch, html, rss, merged, asked, got>> /\ batch.mode = "links"
      /\ stage' = [stage EXCEPT ![i] = "done"]
      /\ \E value : results' = [results EXCEPT ![i] = value]
  BY DEF PlainEnds
<1>2. /\ DOMAIN stage = Slots /\ DOMAIN html = Slots /\ DOMAIN rss = Slots /\ DOMAIN merged = Slots
      /\ DOMAIN asked = Slots /\ DOMAIN got = Slots /\ DOMAIN results = Slots /\ SlotInv(i)
  BY DEF BatchInv
<1>3. /\ DOMAIN stage' = Slots /\ stage'[i] = "done" /\ \A k \in Slots \ {i} : stage'[k] = stage[k]
      /\ DOMAIN results' = Slots /\ \A k \in Slots \ {i} : results'[k] = results[k]
  BY <1>1, <1>2
<1>4. SlotInv(i)'
  <2> HIDE DEF Items, Links
  <2> QED BY <1>1, <1>2, <1>3 DEF SlotInv
<1> QED BY <1>1, <1>2, <1>3, <1>4, OthersKept

\* The links a scrape ends with are those of its result.
LEMMA FinishKeeps ==
  ASSUME BatchInv, NEW i \in Slots, NEW links, Finish(i, links), UNCHANGED <<batch, html, rss, merged, asked, got>>,
         Sound(links, FeedOf(i), PageOf(i))
  PROVE  BatchInv'
<1>1. /\ stage' = [stage EXCEPT ![i] = "done"]
      /\ \E value : results' = [results EXCEPT ![i] = value] /\ value.links = links
  <2> DEFINE value == [url |-> batch.urls[i], kind |-> IF links = <<>> THEN "empty" ELSE "links",
                       links |-> links, scores |-> ScoreLinks(ring, links, now).scores]
  <2>1. stage' = [stage EXCEPT ![i] = "done"] /\ results' = [results EXCEPT ![i] = value]
    BY DEF Finish
  <2>2. value.links = links
    OBVIOUS
  <2> HIDE DEF value
  <2> QED BY <2>1, <2>2
<1>2. /\ DOMAIN stage = Slots /\ DOMAIN html = Slots /\ DOMAIN rss = Slots /\ DOMAIN merged = Slots
      /\ DOMAIN asked = Slots /\ DOMAIN got = Slots /\ DOMAIN results = Slots /\ SlotInv(i)
  BY DEF BatchInv
<1>3. /\ DOMAIN stage' = Slots /\ stage'[i] = "done" /\ \A k \in Slots \ {i} : stage'[k] = stage[k]
      /\ DOMAIN results' = Slots /\ results'[i].links = links
      /\ \A k \in Slots \ {i} : results'[k] = results[k]
  BY <1>1, <1>2
<1>4. Sound(results'[i].links, FeedOf(i)', PageOf(i)')
  BY <1>3 DEF FeedOf, PageOf, OrNone
<1>5. SlotInv(i)'
  <2> HIDE DEF Items, Links
  <2> QED BY <1>2, <1>3, <1>4 DEF SlotInv
<1> QED BY <1>2, <1>3, <1>5, OthersKept

LEMMA MergeKeeps ==
  ASSUME BatchInv, NEW i \in Slots, Merge(i)
  PROVE  BatchInv'
<1> DEFINE links == Merged(FeedOf(i), PageOf(i))
           only == HtmlOnly(links, batch.topN)
<1>0. MergeTo(i, links)
  BY DEF Merge, FeedOf, PageOf
<1> HIDE DEF links
<1>1. /\ UNCHANGED <<batch, html, rss, got>> /\ stage[i] = "fetching" /\ batch.mode = "combined"
      /\ Waiting \notin {html[i], rss[i]}
      /\ \/ Finish(i, links) /\ UNCHANGED <<merged, asked>>
         \/ /\ stage' = [stage EXCEPT ![i] = "enriching"]
            /\ merged' = [merged EXCEPT ![i] = links]
            /\ asked' = [asked EXCEPT ![i] = only]
            /\ UNCHANGED results
  BY <1>0 DEF MergeTo
<1>2. /\ DOMAIN stage = Slots /\ DOMAIN html = Slots /\ DOMAIN rss = Slots /\ DOMAIN merged = Slots
      /\ DOMAIN asked = Slots /\ DOMAIN got = Slots /\ DOMAIN results = Slots /\ SlotInv(i)
  BY DEF BatchInv
<1>3. FeedOf(i) \in Seq(Items) /\ PageOf(i) \in Seq(Links)
  BY <1>1, <1>2, Fetched
<1>4. links \in OfBoth(FeedOf(i), PageOf(i), Len(PageOf(i)))
  BY <1>3, MergedHolds DEF links
<1>5. CASE Finish(i, links) /\ UNCHANGED <<merged, asked>>
  <2>1. Sound(links, FeedOf(i), PageOf(i))
    BY <1>3, <1>4, MergeIsSound
  <2> QED BY <1>1, <1>5, <2>1, FinishKeeps
<1>6. CASE /\ stage' = [stage EXCEPT ![i] = "enriching"]
           /\ merged' = [merged EXCEPT ![i] = links]
           /\ asked' = [asked EXCEPT ![i] = only]
           /\ UNCHANGED results
  <2> HIDE DEF only
  <2>1. /\ DOMAIN stage' = Slots /\ stage'[i] = "enriching" /\ \A k \in Slots \ {i} : stage'[k] = stage[k]
        /\ DOMAIN merged' = Slots /\ merged'[i] = links /\ \A k \in Slots \ {i} : merged'[k] = merged[k]
        /\ DOMAIN asked' = Slots /\ asked'[i] = only /\ \A k \in Slots \ {i} : asked'[k] = asked[k]
    BY <1>2, <1>6
  <2>2. FeedOf(i)' = FeedOf(i) /\ PageOf(i)' = PageOf(i)
    BY <1>1 DEF FeedOf, PageOf, OrNone
  <2>3. merged'[i] \in OfBoth(FeedOf(i)', PageOf(i)', Len(PageOf(i)'))
    BY <1>4, <2>1, <2>2
  <2>4. asked'[i] = HtmlOnly(merged'[i], batch'.topN)
    BY <1>1, <2>1 DEF only
  <2>5. DOMAIN got'[i] \subseteq asked'[i]
    BY <1>1, <1>2 DEF SlotInv
  <2>6. SlotInv(i)'
    <3> HIDE DEF Items, Links
    <3> QED BY <1>1, <1>2, <2>1, <2>3, <2>4, <2>5 DEF SlotInv
  <2> QED BY <1>1, <1>2, <1>6, <2>1, <2>6, OthersKept
<1> QED BY <1>1, <1>5, <1>6

LEMMA ArticleKeeps ==
  ASSUME BatchInv, NEW i \in Slots, NEW url \in asked[i], ArticleEnds(i, url)
  PROVE  BatchInv'
<1>1. /\ UNCHANGED <<batch, stage, html, rss, merged, asked, results>> /\ stage[i] = "enriching"
      /\ \E summary \in Summaries[url] : got' = [got EXCEPT ![i] =
       [u \in DOMAIN @ \cup {url} |-> IF u = url THEN summary ELSE @[u]]]
  BY DEF ArticleEnds
<1>2. /\ DOMAIN stage = Slots /\ DOMAIN html = Slots /\ DOMAIN rss = Slots /\ DOMAIN merged = Slots
      /\ DOMAIN asked = Slots /\ DOMAIN got = Slots /\ DOMAIN results = Slots /\ SlotInv(i)
  BY DEF BatchInv
<1>3. /\ DOMAIN got' = Slots /\ DOMAIN got'[i] = DOMAIN got[i] \cup {url}
      /\ \A k \in Slots \ {i} : got'[k] = got[k]
  <2>1. PICK summary \in Summaries[url] : got' = [got EXCEPT ![i] =
       [u \in DOMAIN @ \cup {url} |-> IF u = url THEN summary ELSE @[u]]]
    BY <1>1
  <2> QED BY <1>2, <2>1
<1>4. UNCHANGED <<FeedOf(i), PageOf(i)>>
  BY <1>1 DEF FeedOf, PageOf, OrNone
<1>5. SlotInv(i)'
  <2> HIDE DEF Items, Links
  <2> QED BY <1>1, <1>2, <1>3, <1>4 DEF SlotInv
<1> QED BY <1>1, <1>2, <1>3, <1>5, OthersKept

LEMMA EnrichKeeps ==
  ASSUME BatchInv, NEW i \in Slots, Enrich(i)
  PROVE  BatchInv'
<1>1. /\ UNCHANGED <<batch, html, rss, merged, asked, got>> /\ stage[i] = "enriching"
      /\ Finish(i, Enriched(merged[i], got[i]))
  BY DEF Enrich
<1>2. SlotInv(i)
  BY DEF BatchInv
<1>3. /\ Waiting \notin {html[i], rss[i]} /\ merged[i] \in OfBoth(FeedOf(i), PageOf(i), Len(PageOf(i)))
      /\ DOMAIN got[i] \subseteq HtmlOnly(merged[i], batch.topN)
  BY <1>1, <1>2 DEF SlotInv
<1>4. FeedOf(i) \in Seq(Items) /\ PageOf(i) \in Seq(Links)
  BY <1>2, <1>3, Fetched
<1>5. Sound(Enriched(merged[i], got[i]), FeedOf(i), PageOf(i))
  BY <1>3, <1>4, EnrichedIsSound
<1> QED BY <1>1, <1>5, FinishKeeps

LEMMA BatchStep == BatchInv /\ [BatchNext]_batchVars => BatchInv'
<1> SUFFICES ASSUME BatchInv, [BatchNext]_batchVars PROVE BatchInv'
  OBVIOUS
<1>1. CASE Begin
  BY <1>1, BeginKeeps DEF Begin
<1>2. CASE \E i \in Slots : Step(i)
  <2> PICK i \in Slots : Step(i)
    BY <1>2
  <2>1. CASE Admit(i)
    BY <2>1, AdmitKeeps
  <2>2. CASE HtmlArrives(i) \/ HtmlFails(i)
    BY <2>2, HtmlKeeps
  <2>3. CASE RssEnds(i)
    BY <2>3, RssKeeps
  <2>4. CASE PlainEnds(i)
    BY <2>4, PlainKeeps
  <2>5. CASE Merge(i)
    BY <2>5, MergeKeeps
  <2>6. CASE \E url \in asked[i] : ArticleEnds(i, url)
    BY <2>6, ArticleKeeps
  <2>7. CASE Enrich(i)
    BY <2>7, EnrichKeeps
  <2> QED BY <2>1, <2>2, <2>3, <2>4, <2>5, <2>6, <2>7 DEF Step
<1>3. CASE Return
  <2>1. /\ batch' = NoBatch /\ stage' = <<>> /\ html' = <<>> /\ rss' = <<>> /\ merged' = <<>> /\ asked' = <<>>
        /\ got' = <<>> /\ results' = <<>>
    BY <1>3 DEF Return
  <2>2. Slots' = {}
    BY <2>1 DEF Slots
  <2> QED BY <2>1, <2>2 DEF BatchInv
<1>4. CASE Tick \/ UNCHANGED batchVars
  <2>1. UNCHANGED <<batch, stage, html, rss, merged, asked, got, results>>
    BY <1>4 DEF Tick, batchVars
  <2>2. Slots' = Slots
    BY <2>1 DEF Slots
  <2>3. ASSUME NEW i \in Slots PROVE SlotInv(i)'
    BY <2>1, SlotKept DEF BatchInv
  <2> QED BY <2>1, <2>2, <2>3 DEF BatchInv
<1> QED BY <1>1, <1>2, <1>3, <1>4 DEF BatchNext, Progress

\* The merge of a batch loses and invents nothing, for any pages, feeds and articles, in any
\* order of the fetches and whichever fail: a result has each headline of the page and of the
\* feed once, those of the feed as the feed has them.
THEOREM MergesAreSound == BatchSpec => []SourcesAreMerged
<1>1. BatchInit => BatchInv
  BY DEF BatchInit, BatchInv, Slots
<1>2. BatchInv => SourcesAreMerged
  BY DEF BatchInv, SlotInv, SourcesAreMerged, Sound, FeedOf, PageOf
<1> QED BY <1>1, <1>2, BatchStep, PTL DEF BatchSpec

-----------------------------------------------------------------------------
(* The batch: what is in flight *)

LEMMA GreatestUpTo ==
  ASSUME NEW N \in Nat, NEW S, S \subseteq 1 .. N, S # {}
  PROVE  \E i \in S : \A n \in S : n <= i
<1> DEFINE T == {N - k : k \in S}
<1>1. T \subseteq Nat /\ T # {}
  <2>1. ASSUME NEW k \in S PROVE N - k \in Nat
    OBVIOUS
  <2>2. \E k \in S : N - k \in T
    OBVIOUS
  <2> QED BY <2>1, <2>2
<1>2. \A k \in S : N - k \in T
  OBVIOUS
<1>3. \A t \in T : \E k \in S : t = N - k
  OBVIOUS
<1> HIDE DEF T
<1>4. PICK t \in T : \A m \in T : t <= m
  BY <1>1, Loop!LeastOfNat
<1>5. PICK i \in S : t = N - i
  BY <1>3
<1>6. \A n \in S : N - i <= N - n
  BY <1>2, <1>4, <1>5
<1>7. \A n \in S : n <= i
  BY <1>6
<1> QED BY <1>7

\* No more articles are asked for than the request allows.
LEMMA OnlyBounded ==
  ASSUME NEW S, NEW links \in Seq(S), NEW n \in Nat
  PROVE  IsFiniteSet(HtmlOnly(links, n)) /\ Cardinality(HtmlOnly(links, n)) <= n
<1> DEFINE only == {i \in DOMAIN links : links[i].seen = {"html"} /\ links[i].summary = NoText}
           K == {k \in only : Cardinality({m \in only : m <= k}) <= n}
           f == [k \in K |-> links[k].url]
           T == HtmlOnly(links, n)
<1>1. T = {links[k].url : k \in K}
  BY DEF HtmlOnly
<1>2. only \subseteq 1 .. Len(links) /\ Len(links) \in Nat
  OBVIOUS
<1>3. IsFiniteSet(1 .. Len(links))
  BY <1>2, FS_Interval
<1>4. CASE K = {}
  <2>1. T = {}
    BY <1>1, <1>4
  <2> QED BY <2>1, FS_EmptySet
<1>5. CASE K # {}
  <2>1. K \subseteq only
    OBVIOUS
  <2>2. \A k \in K : Cardinality({m \in only : m <= k}) <= n
    OBVIOUS
  <2> HIDE DEF K, only
  <2>3. PICK top \in K : \A k \in K : k <= top
    BY <1>2, <1>5, <2>1, GreatestUpTo
  <2> DEFINE U == {m \in only : m <= top}
  <2>4. IsFiniteSet(U)
    BY <1>2, <1>3, FS_Subset
  <2>5. K \in SUBSET U /\ Cardinality(U) <= n
    BY <2>1, <2>2, <2>3
  <2> HIDE DEF U
  <2>6. IsFiniteSet(K) /\ Cardinality(K) <= Cardinality(U) /\ Cardinality(K) \in Nat /\ Cardinality(U) \in Nat
    BY <2>4, <2>5, FS_Subset, FS_CardinalityType
  <2>7. f \in [K -> T] /\ \A t \in T : \E k \in K : f[k] = t
    BY <1>1
  <2> HIDE DEF f, T
  <2>8. f \in Surjection(K, T)
    BY <2>7 DEF Surjection
  <2>9. IsFiniteSet(T) /\ Cardinality(T) <= Cardinality(K) /\ Cardinality(T) \in Nat
    BY <2>6, <2>8, FS_Surjection, FS_CardinalityType
  <2> QED BY <2>5, <2>6, <2>9 DEF T
<1> QED BY <1>4, <1>5

\* a small set can be numbered
LEMMA Numbered ==
  ASSUME NEW S, IsFiniteSet(S), NEW n \in Nat, Cardinality(S) <= n
  PROVE  Injection(S, 1 .. n) # {}
<1>1. Cardinality(S) \in Nat /\ ExistsBijection(1 .. Cardinality(S), S)
  BY FS_CardinalityType
<1>2. PICK g : g \in Bijection(1 .. Cardinality(S), S)
  BY <1>1 DEF ExistsBijection
<1>3. g \in [1 .. Cardinality(S) -> S] /\ \A u \in S : \E j \in 1 .. Cardinality(S) : g[j] = u
  BY <1>2 DEF Bijection, Surjection, Injection
<1> DEFINE h == [u \in S |-> CHOOSE j \in 1 .. Cardinality(S) : g[j] = u]
<1>4. ASSUME NEW u \in S PROVE h[u] \in 1 .. Cardinality(S) /\ g[h[u]] = u
  BY <1>3
<1>5. h \in [S -> 1 .. n]
  <2>1. \A u \in S : h[u] \in 1 .. n
    BY <1>1, <1>4
  <2> QED BY <2>1
<1>6. \A u, v \in S : h[u] = h[v] => u = v
  BY <1>4
<1> HIDE DEF h
<1>7. h \in Injection(S, 1 .. n)
  BY <1>5, <1>6 DEF Injection, IsInjective
<1> QED BY <1>7

\* So many sets, each no larger than n.
LEMMA PairsBounded ==
  ASSUME NEW E, IsFiniteSet(E), NEW n \in Nat, NEW A,
         \A i \in E : IsFiniteSet(A[i]) /\ Cardinality(A[i]) <= n
  PROVE  LET pairs == UNION {{<<i, u>> : u \in A[i]} : i \in E}
         IN IsFiniteSet(pairs) /\ Cardinality(pairs) <= Cardinality(E) * n
<1> DEFINE pairs == UNION {{<<i, u>> : u \in A[i]} : i \in E}
           num == [i \in E |-> CHOOSE h \in Injection(A[i], 1 .. n) : TRUE]
           f == [p \in pairs |-> <<p[1], num[p[1]][p[2]]>>]
           T == E \X (1 .. n)
<1>1. ASSUME NEW i \in E PROVE num[i] \in Injection(A[i], 1 .. n)
  BY Numbered
<1>2. ASSUME NEW i \in E
      PROVE  (\A u \in A[i] : num[i][u] \in 1 .. n) /\ (\A u, v \in A[i] : num[i][u] = num[i][v] => u = v)
  <2> DEFINE h == num[i]
  <2>1. h \in Injection(A[i], 1 .. n)
    BY <1>1
  <2> HIDE DEF h
  <2>2. h \in [A[i] -> 1 .. n] /\ \A u, v \in DOMAIN h : h[u] = h[v] => u = v
    BY <2>1 DEF Injection, IsInjective
  <2>3. (\A u \in A[i] : h[u] \in 1 .. n) /\ (\A u, v \in A[i] : h[u] = h[v] => u = v)
    BY <2>2
  <2> QED BY <2>3 DEF h
<1> HIDE DEF num
<1>3. ASSUME NEW p \in pairs PROVE p = <<p[1], p[2]>> /\ p[1] \in E /\ p[2] \in A[p[1]]
  OBVIOUS
<1> HIDE DEF pairs
<1>4. \A p \in pairs : f[p] = <<p[1], num[p[1]][p[2]]>> /\ f[p] \in T
  BY <1>2, <1>3
<1>5. f \in [pairs -> T]
  BY <1>4
<1>6. ASSUME NEW p \in pairs, NEW q \in pairs, f[p] = f[q] PROVE p = q
  <2>1. p[1] = q[1] /\ num[p[1]][p[2]] = num[q[1]][q[2]]
    BY <1>4, <1>6
  <2>2. p[2] = q[2]
    BY <1>2, <1>3, <2>1
  <2> QED BY <1>3, <2>1, <2>2
<1> HIDE DEF f
<1>7. f \in Injection(pairs, T)
  BY <1>5, <1>6 DEF Injection, IsInjective
<1>8. IsFiniteSet(1 .. n) /\ Cardinality(1 .. n) = n
  BY FS_Interval
<1>9. IsFiniteSet(T) /\ Cardinality(T) = Cardinality(E) * n
  <2> HIDE DEF T
  <2> DEFINE V == 1 .. n
  <2>1. IsFiniteSet(V) /\ Cardinality(V) = n /\ T = E \X V
    BY <1>8 DEF T
  <2> HIDE DEF V
  <2>2. IsFiniteSet(E \X V) /\ Cardinality(E \X V) = Cardinality(E) * Cardinality(V)
    BY <2>1, FS_Product
  <2> QED BY <2>1, <2>2
<1> HIDE DEF T
<1>10. IsFiniteSet(pairs) /\ Cardinality(pairs) <= Cardinality(T)
  BY <1>7, <1>9, FS_Injection
<1> QED BY <1>9, <1>10 DEF pairs

\* No more scrapes hold a place than the request allows at a time.
WidthInv == BatchInv /\ (batch # NoBatch => Cardinality(Busy) <= batch.width)

LEMMA SlotsFinite ==
  ASSUME BatchInv
  PROVE  IsFiniteSet(Slots)
<1>1. CASE batch = NoBatch
  BY <1>1, FS_EmptySet DEF Slots
<1>2. CASE batch # NoBatch
  <2>1. batch.urls \in Seq(DOMAIN Pages) /\ Slots = DOMAIN batch.urls
    BY <1>2, BatchAssumption DEF BatchInv, BatchAssumption, Slots
  <2>2. Slots = 1 .. Len(batch.urls) /\ Len(batch.urls) \in Nat
    BY <2>1
  <2> QED BY <2>2, FS_Interval
<1> QED BY <1>1, <1>2

\* A place is given while one is free.
LEMMA WidthAdmit ==
  ASSUME WidthInv, NEW i \in Slots, Admit(i)
  PROVE  Cardinality(Busy') <= batch.width
<1>1. /\ UNCHANGED batch /\ stage' = [stage EXCEPT ![i] = "fetching"] /\ Cardinality(Busy) < batch.width
      /\ stage[i] = "queued" /\ DOMAIN stage = Slots
  BY DEF Admit, WidthInv, BatchInv
<1>2. Slots' = Slots
  BY <1>1 DEF Slots
<1>3. Busy' = Busy \cup {i} /\ i \notin Busy
  BY <1>1, <1>2 DEF Busy
<1>4. IsFiniteSet(Busy) /\ Cardinality(Busy) \in Nat
  <2>1. IsFiniteSet(Slots) /\ Busy \in SUBSET Slots
    BY SlotsFinite DEF WidthInv, Busy
  <2> QED BY <2>1, FS_Subset, FS_CardinalityType
<1>5. batch.width \in Nat
  BY InSlots, BatchAssumption DEF WidthInv, BatchAssumption
<1> HIDE DEF Busy
<1>6. Cardinality(Busy \cup {i}) = Cardinality(Busy) + 1
  BY <1>3, <1>4, FS_AddElement
<1> QED BY <1>1, <1>3, <1>4, <1>5, <1>6

\* Nobody else takes a place.
LEMMA WidthKept ==
  ASSUME WidthInv, batch # NoBatch, UNCHANGED batch,
         \A k \in Slots : stage'[k] \in {"fetching", "enriching"} => stage[k] \in {"fetching", "enriching"}
  PROVE  Cardinality(Busy') <= batch.width
<1>1. Slots' = Slots
  BY DEF Slots
<1>2. Busy' \in SUBSET Busy
  BY <1>1 DEF Busy
<1>3. IsFiniteSet(Busy) /\ Cardinality(Busy) \in Nat
  <2>1. IsFiniteSet(Slots) /\ Busy \in SUBSET Slots
    BY SlotsFinite DEF WidthInv, Busy
  <2> QED BY <2>1, FS_Subset, FS_CardinalityType
<1>4. batch.width \in Nat /\ Cardinality(Busy) <= batch.width
  BY BatchAssumption DEF WidthInv, BatchInv, BatchAssumption
<1>5. Cardinality(Busy') <= Cardinality(Busy) /\ Cardinality(Busy') \in Nat
  <2> HIDE DEF Busy
  <2>1. IsFiniteSet(Busy')
    BY <1>2, <1>3, FS_Subset
  <2> QED BY <1>2, <1>3, <2>1, FS_Subset, FS_CardinalityType
<1> HIDE DEF Busy
<1> QED BY <1>3, <1>4, <1>5

LEMMA WidthStep == WidthInv /\ [BatchNext]_batchVars => WidthInv'
<1> SUFFICES ASSUME WidthInv, [BatchNext]_batchVars PROVE WidthInv'
  OBVIOUS
<1>0. BatchInv' /\ DOMAIN stage = Slots
  BY BatchStep DEF WidthInv, BatchInv
<1>1. CASE Begin
  <2>1. PICK b \in Batches : BeginBatch(b)
    BY <1>1 DEF Begin
  <2>2. batch' = b /\ stage' = [i \in DOMAIN b.urls |-> "queued"] /\ b \in Batches
    BY <2>1 DEF BeginBatch
  <2>3. b.width \in Nat /\ b # NoBatch
    BY BatchAssumption DEF BatchAssumption
  <2>4. Slots' = DOMAIN b.urls
    BY <2>2, <2>3 DEF Slots
  <2>5. Busy' = {}
    BY <2>2, <2>4 DEF Busy
  <2>6. Cardinality(Busy') = 0
    BY <2>5, FS_EmptySet
  <2> QED BY <1>0, <2>2, <2>3, <2>6 DEF WidthInv
<1>2. CASE \E i \in Slots : Step(i)
  <2> PICK i \in Slots : Step(i)
    BY <1>2
  <2>1. batch # NoBatch
    BY DEF Slots
  <2>2. CASE Admit(i)
    <3>1. batch' = batch
      BY <2>2 DEF Admit
    <3> QED BY <1>0, <2>2, <3>1, WidthAdmit DEF WidthInv
  <2>3. CASE ~ Admit(i)
    <3>1. /\ UNCHANGED batch
          /\ \/ UNCHANGED stage
             \/ stage' = [stage EXCEPT ![i] = "done"]
             \/ stage[i] = "fetching" /\ stage' = [stage EXCEPT ![i] = "enriching"]
      BY <2>3 DEF Step, HtmlArrives, HtmlFails, RssEnds, PlainEnds, Merge, MergeTo, ArticleEnds, Enrich, Finish
    <3>2. \A k \in Slots : stage'[k] \in {"fetching", "enriching"} => stage[k] \in {"fetching", "enriching"}
      BY <1>0, <3>1
    <3>3. Cardinality(Busy') <= batch.width
      BY <2>1, <3>1, <3>2, WidthKept
    <3> QED BY <1>0, <3>1, <3>3 DEF WidthInv
  <2> QED BY <2>2, <2>3
<1>3. CASE Return
  BY <1>0, <1>3 DEF Return, WidthInv
<1>4. CASE Tick \/ UNCHANGED batchVars
  <2>1. UNCHANGED <<batch, stage>>
    BY <1>4 DEF Tick, batchVars
  <2>2. CASE batch = NoBatch
    BY <1>0, <2>1, <2>2 DEF WidthInv
  <2>3. CASE batch # NoBatch
    <3>1. Cardinality(Busy') <= batch.width
      BY <2>1, <2>3, WidthKept
    <3> QED BY <1>0, <2>1, <3>1 DEF WidthInv
  <2> QED BY <2>2, <2>3
<1> QED BY <1>1, <1>2, <1>3, <1>4 DEF BatchNext, Progress

LEMMA LessTimes ==
  ASSUME NEW a \in Nat, NEW b \in Nat, NEW c \in Nat, a <= b
  PROVE  a * c <= b * c
<1>1. PICK d \in Nat : b = a + d
  <2>1. b - a \in Nat /\ b = a + (b - a)
    OBVIOUS
  <2> QED BY <2>1
<1>2. b * c = a * c + d * c /\ d * c \in Nat /\ a * c \in Nat
  BY <1>1
<1> QED BY <1>2

LEMMA FlightSum ==
  ASSUME NEW f \in Nat, NEW e \in Nat, NEW t \in Nat, NEW w \in Nat, NEW m \in Nat,
         NEW x \in Nat, NEW y \in Nat, NEW z \in Nat,
         x <= f, y <= f, z <= e * t, f + e <= w, t <= m, 2 <= m
  PROVE  x + y + z <= w * m
<1>1. 2 * f <= m * f
  BY LessTimes
<1>2. t * e <= m * e
  BY LessTimes
<1>3. (f + e) * m <= w * m
  <2>1. f + e \in Nat
    OBVIOUS
  <2> QED BY <2>1, LessTimes
<1>4. (f + e) * m = m * f + m * e /\ e * t = t * e
  OBVIOUS
<1>5. m * f \in Nat /\ m * e \in Nat /\ t * e \in Nat /\ w * m \in Nat
  OBVIOUS
<1> DEFINE A == m * f  B == m * e  C == t * e  D == w * m
<1>6. 2 * f <= A /\ C <= B /\ A + B <= D /\ z <= C /\ A \in Nat /\ B \in Nat /\ C \in Nat /\ D \in Nat
  BY <1>1, <1>2, <1>3, <1>4, <1>5
<1> HIDE DEF A, B, C, D
<1>7. x + y + z <= D
  BY <1>6
<1> QED BY <1>7 DEF D

\* For any batch, what is in flight at once is bounded: two fetches of each scrape that holds
\* a place, or its articles.
THEOREM FlightIsBounded == BatchSpec => []FetchesBounded
<1>1. BatchInit => WidthInv
  BY DEF BatchInit, WidthInv, BatchInv, Slots
<1>2. WidthInv => FetchesBounded
  <2> SUFFICES ASSUME WidthInv, batch # NoBatch PROVE FetchesBounded
    BY DEF FetchesBounded
  <2> DEFINE F == {i \in Slots : stage[i] = "fetching"}
             E == {k \in Slots : stage[k] = "enriching"}
             X == {i \in Slots : stage[i] = "fetching" /\ html[i] = Waiting}
             Y == {i \in Slots : stage[i] = "fetching" /\ rss[i] = Waiting}
             A == [i \in E |-> asked[i] \ DOMAIN got[i]]
             Z == UNION {{<<i, url>> : url \in A[i]} : i \in E}
             t == batch.topN
             m == IF t > 2 THEN t ELSE 2
  <2>1. t \in Nat /\ batch.width \in Nat /\ Cardinality(Busy) <= batch.width /\ BatchInv
    BY BatchAssumption DEF WidthInv, BatchInv, BatchAssumption
  <2>2. IsFiniteSet(Slots)
    BY <2>1, SlotsFinite
  <2>3. IsFiniteSet(F) /\ IsFiniteSet(E)
    BY <2>2, FS_Subset
  <2>4. Cardinality(F) + Cardinality(E) = Cardinality(Busy) /\ Cardinality(F) \in Nat /\ Cardinality(E) \in Nat
    <3>1. Busy = F \cup E /\ F \cap E = {}
      BY DEF Busy
    <3> HIDE DEF F, E
    <3>2. Cardinality(F \cup E) = Cardinality(F) + Cardinality(E) - Cardinality(F \cap E)
      BY <2>3, FS_Union
    <3>3. Cardinality(F \cap E) = 0 /\ Cardinality(F) \in Nat /\ Cardinality(E) \in Nat
      BY <2>3, <3>1, FS_CardinalityType, FS_EmptySet
    <3> QED BY <3>1, <3>2, <3>3
  <2>5. /\ Cardinality(X) \in Nat /\ Cardinality(X) <= Cardinality(F)
        /\ Cardinality(Y) \in Nat /\ Cardinality(Y) <= Cardinality(F)
    <3>1. X \in SUBSET F /\ Y \in SUBSET F
      OBVIOUS
    <3> HIDE DEF X, Y, F
    <3>2. IsFiniteSet(X) /\ IsFiniteSet(Y)
      BY <2>3, <3>1, FS_Subset
    <3> QED BY <2>3, <3>1, <3>2, FS_Subset, FS_CardinalityType
  <2>6. ASSUME NEW i \in E PROVE IsFiniteSet(A[i]) /\ Cardinality(A[i]) <= t
    <3>1. merged[i] \in Seq(Links) /\ asked[i] = HtmlOnly(merged[i], t)
      BY <2>1 DEF BatchInv, SlotInv, OfBoth
    <3>2. IsFiniteSet(asked[i]) /\ Cardinality(asked[i]) <= t
      <4> HIDE DEF Links, t
      <4> QED BY <2>1, <3>1, OnlyBounded
    <3> HIDE DEF E, t
    <3>3. A[i] \in SUBSET asked[i]
      OBVIOUS
    <3> HIDE DEF A
    <3>4. IsFiniteSet(A[i]) /\ Cardinality(A[i]) <= Cardinality(asked[i])
      BY <3>2, <3>3, FS_Subset
    <3>5. Cardinality(A[i]) \in Nat /\ Cardinality(asked[i]) \in Nat
      BY <3>2, <3>4, FS_CardinalityType
    <3> QED BY <2>1, <3>2, <3>4, <3>5
  <2>7. Z = UNION {{<<i, url>> : url \in asked[i] \ DOMAIN got[i]} : i \in E}
    <3>1. \A i \in E : A[i] = asked[i] \ DOMAIN got[i]
      OBVIOUS
    <3> HIDE DEF A, E
    <3>2. \A i \in E : {<<i, url>> : url \in A[i]} = {<<i, url>> : url \in asked[i] \ DOMAIN got[i]}
      BY <3>1
    <3> QED BY <3>2
  <2>8. Cardinality(Z) \in Nat /\ Cardinality(Z) <= Cardinality(E) * t
    <3> HIDE DEF E, A, t
    <3>1. IsFiniteSet(Z) /\ Cardinality(Z) <= Cardinality(E) * t
      BY <2>1, <2>3, <2>6, PairsBounded
    <3> HIDE DEF Z
    <3> QED BY <3>1, FS_CardinalityType
  <2>9. m \in Nat /\ t <= m /\ 2 <= m
    BY <2>1
  <2> DEFINE x == Cardinality(X)  y == Cardinality(Y)  z == Cardinality(Z)
             f == Cardinality(F)  e == Cardinality(E)  w == batch.width
  <2>10. /\ f \in Nat /\ e \in Nat /\ t \in Nat /\ w \in Nat /\ m \in Nat /\ x \in Nat /\ y \in Nat /\ z \in Nat
         /\ x <= f /\ y <= f /\ z <= e * t /\ f + e <= w /\ t <= m /\ 2 <= m
    <3> HIDE DEF X, Y, Z, F, E, m, t
    <3> QED BY <2>1, <2>4, <2>5, <2>8, <2>9
  <2> HIDE DEF x, y, z, f, e, w, m, t
  <2>11. x + y + z <= w * m
    BY <2>10, FlightSum
  <2> HIDE DEF X, Y, Z
  <2>12. Cardinality(X) + Cardinality(Y) + Cardinality(Z) <= batch.width * m
    BY <2>11 DEF x, y, z, w
  <2> QED BY <2>7, <2>12 DEF FetchesBounded, X, Y, m, t
<1> QED BY <1>1, <1>2, WidthStep, PTL DEF BatchSpec


-----------------------------------------------------------------------------
(* The batch: what the scores stand on *)

Heard == [text : Texts, host : {HostOf[url] : url \in Urls}, ts : Nat]

\* The headlines are kept in the order they came in, none longer than a window before the last.
Ordered(heard, t) ==
  /\ heard \in Seq(Heard)
  /\ \A k \in DOMAIN heard : heard[k].ts <= t
  /\ \A k, m \in DOMAIN heard : k <= m => heard[k].ts <= heard[m].ts
RingOf(heard, t) ==
  /\ Ordered(heard, t)
  /\ \A k \in DOMAIN heard : heard[k].ts >= heard[Len(heard)].ts - Window

RingInv == now \in Nat /\ RingOf(ring, now)

LEMMA RingTypes ==
  ASSUME NEW heard, NEW t, Ordered(heard, t)
  PROVE  /\ DOMAIN heard = 1 .. Len(heard) /\ Len(heard) \in Nat
         /\ \A k \in DOMAIN heard : heard[k] \in Heard /\ heard[k].ts \in Nat
<1>1. heard \in Seq(Heard)
  BY DEF Ordered
<1>2. \A k \in DOMAIN heard : heard[k] \in Heard
  BY <1>1
<1> QED BY <1>1, <1>2 DEF Heard

\* The last headlines are in their order.
LEMMA LastHeadlines ==
  ASSUME NEW heard, NEW t \in Nat, Ordered(heard, t), NEW m \in 0 .. Len(heard)
  PROVE  LET rest == SubSeq(heard, m + 1, Len(heard)) IN
         /\ Ordered(rest, t) /\ DOMAIN rest = 1 .. Len(heard) - m /\ Len(rest) = Len(heard) - m
         /\ \A i \in DOMAIN rest : m + i \in DOMAIN heard /\ rest[i] = heard[m + i]
<1> DEFINE rest == SubSeq(heard, m + 1, Len(heard))
<1>1. heard \in Seq(Heard) /\ DOMAIN heard = 1 .. Len(heard) /\ Len(heard) \in Nat
  BY RingTypes DEF Ordered
<1>2. /\ rest \in Seq(Heard) /\ Len(rest) = Len(heard) - m
      /\ \A i \in 1 .. Len(heard) - m : rest[i] = heard[m + i]
  BY <1>1, TheRest
<1> HIDE DEF rest
<1>3. DOMAIN rest = 1 .. Len(heard) - m
  BY <1>2
<1>4. ASSUME NEW i \in DOMAIN rest PROVE m + i \in DOMAIN heard /\ rest[i] = heard[m + i]
  BY <1>1, <1>2, <1>3
<1>5. ASSUME NEW k \in DOMAIN rest, NEW i \in DOMAIN rest, k <= i PROVE rest[k].ts <= rest[i].ts
  <2>1. m + k <= m + i
    BY <1>1, <1>3, <1>5
  <2> QED BY <1>4, <2>1 DEF Ordered
<1>6. Ordered(rest, t)
  BY <1>2, <1>4, <1>5 DEF Ordered
<1> QED BY <1>2, <1>3, <1>4, <1>6 DEF rest

\* What is left of a ring: the headlines after some, none of them older than a window.
LEMMA RecentKeeps ==
  ASSUME NEW heard, NEW t \in Nat, Ordered(heard, t)
  PROVE  /\ RingOf(Recent(heard, t), t)
         /\ \A k \in DOMAIN Recent(heard, t) :
              /\ Recent(heard, t)[k].ts >= t - Window
              /\ \E m \in DOMAIN heard : Recent(heard, t)[k] = heard[m]
<1> DEFINE old == {i \in DOMAIN heard : \A k \in 1 .. i : heard[k].ts < t - Window}
           n == Cardinality(old)
           rest == SubSeq(heard, n + 1, Len(heard))
<1>1. heard \in Seq(Heard) /\ DOMAIN heard = 1 .. Len(heard) /\ Len(heard) \in Nat /\ Window \in Nat
  BY RingTypes, HeadlinesAssumption DEF Ordered, HeadlinesAssumption
<1>2. \A k \in DOMAIN heard : heard[k].ts \in Nat
  BY RingTypes
<1>3. \E m \in 0 .. Len(heard) : old = 1 .. m
  <2> DEFINE young == {i \in DOMAIN heard : heard[i].ts >= t - Window}
  <2>1. CASE young = {}
    <3>1. \A i \in DOMAIN heard : heard[i].ts < t - Window
      BY <1>1, <1>2, <2>1
    <3>2. old = 1 .. Len(heard)
      BY <1>1, <3>1
    <3> QED BY <1>1, <3>2
  <2>2. CASE young # {}
    <3>1. young \subseteq Nat
      BY <1>1
    <3> HIDE DEF young
    <3>2. PICK i \in young : \A k \in young : i <= k
      BY <2>2, <3>1, Loop!LeastOfNat
    <3> USE DEF young
    <3>3. i \in 1 .. Len(heard) /\ heard[i].ts >= t - Window
      BY <1>1
    <3>4. ASSUME NEW k \in 1 .. i - 1 PROVE heard[k].ts < t - Window
      <4>1. k \in DOMAIN heard /\ ~ (i <= k)
        BY <1>1, <3>3
      <4>2. k \notin young
        BY <3>2, <4>1
      <4> QED BY <1>1, <1>2, <4>1, <4>2
    <3> HIDE DEF young
    <3>5. ~ (heard[i].ts < t - Window)
      BY <1>1, <1>2, <3>3
    <3>6. old = 1 .. i - 1
      <4>1. ASSUME NEW k \in old PROVE k \in 1 .. i - 1
        <5>1. k \in 1 .. Len(heard) /\ \A m \in 1 .. k : heard[m].ts < t - Window
          BY <1>1
        <5>2. ~ (i \in 1 .. k)
          BY <3>5, <5>1
        <5> QED BY <3>3, <5>1, <5>2
      <4>2. ASSUME NEW k \in 1 .. i - 1 PROVE k \in old
        <5>1. k \in DOMAIN heard /\ \A m \in 1 .. k : m \in 1 .. i - 1
          BY <1>1, <3>3
        <5> QED BY <3>4, <5>1
      <4> QED BY <4>1, <4>2
    <3> QED BY <1>1, <3>3, <3>6
  <2> QED BY <2>1, <2>2
<1>4. PICK m \in 0 .. Len(heard) : old = 1 .. m
  BY <1>3
<1>5. n = m
  <2> HIDE DEF old
  <2>1. Cardinality(1 .. m) = m
    BY FS_Interval
  <2> QED BY <1>4, <2>1
<1>6. Recent(heard, t) = rest
  BY DEF Recent
<1>7. rest = SubSeq(heard, m + 1, Len(heard))
  BY <1>5
<1> HIDE DEF n, rest
<1>8. /\ Ordered(rest, t) /\ DOMAIN rest = 1 .. Len(heard) - m /\ Len(rest) = Len(heard) - m
      /\ \A i \in DOMAIN rest : m + i \in DOMAIN heard /\ rest[i] = heard[m + i]
  BY <1>7, LastHeadlines
<1>9. \A i \in DOMAIN rest : rest[i].ts \in Nat
  BY <1>8, RingTypes
<1>10. \A k, i \in DOMAIN heard : k <= i => heard[k].ts <= heard[i].ts
  BY DEF Ordered
<1>11. ASSUME NEW i \in DOMAIN rest PROVE rest[i].ts >= t - Window
  <2>1. m + 1 \in DOMAIN heard /\ m + 1 <= m + i
    BY <1>1, <1>8
  <2>2. m + 1 \notin old
    BY <1>1, <1>4
  <2>3. PICK k \in 1 .. m + 1 : ~ (heard[k].ts < t - Window)
    BY <2>1, <2>2
  <2>4. k \in DOMAIN heard /\ k <= m + i
    BY <1>1, <1>8, <2>1
  <2>5. heard[k].ts <= heard[m + i].ts
    BY <1>8, <1>10, <2>4
  <2> QED BY <1>1, <1>2, <1>8, <2>3, <2>4, <2>5
<1>12. ASSUME NEW k \in DOMAIN rest PROVE rest[k].ts >= rest[Len(rest)].ts - Window
  <2>1. Len(rest) \in DOMAIN rest
    BY <1>1, <1>8
  <2>2. rest[Len(rest)].ts <= t
    BY <1>8, <2>1 DEF Ordered
  <2> QED BY <1>1, <1>9, <1>11, <2>1, <2>2
<1> QED BY <1>6, <1>8, <1>11, <1>12 DEF RingOf

\* A headline that comes in is the last, and drives out what is older than a window.
LEMMA AddedKeeps ==
  ASSUME NEW heard, NEW t \in Nat, RingOf(heard, t),
         NEW text \in Texts, NEW host \in {HostOf[url] : url \in Urls}
  PROVE  LET r == Added(heard, text, host, t)  e == [text |-> text, host |-> host, ts |-> t] IN
         /\ RingOf(r, t)
         /\ text = <<>> => r = heard
         /\ text # <<>> => \A k \in DOMAIN r : /\ r[k].ts >= t - Window
                                               /\ r[k] = e \/ \E m \in DOMAIN heard : r[k] = heard[m]
<1> DEFINE e == [text |-> text, host |-> host, ts |-> t]
           full == Append(heard, e)
           r == Added(heard, text, host, t)
           kept == IF Len(full) > MaxEntries THEN MaxEntries ELSE Len(full)
           rest == SubSeq(full, Len(full) - kept + 1, Len(full))
<1>1. CASE text = <<>>
  BY <1>1 DEF Added
<1>2. CASE text # <<>>
  <2>1. r = Recent(rest, t)
    BY <1>2 DEF Added
  <2>2. e \in Heard /\ e.ts = t
    BY DEF Heard
  <2>3. heard \in Seq(Heard) /\ DOMAIN heard = 1 .. Len(heard) /\ Len(heard) \in Nat
    BY RingTypes DEF RingOf, Ordered
  <2> HIDE DEF e, r
  <2>4. /\ full \in Seq(Heard) /\ Len(full) = Len(heard) + 1 /\ DOMAIN full = 1 .. Len(heard) + 1
        /\ full[Len(heard) + 1] = e /\ \A k \in 1 .. Len(heard) : full[k] = heard[k]
    BY <2>2, <2>3
  <2> HIDE DEF full
  <2>5. \A k \in DOMAIN full : full[k] = e \/ (k \in DOMAIN heard /\ full[k] = heard[k])
    BY <2>3, <2>4
  <2>6. Ordered(full, t)
    <3>1. ASSUME NEW k \in DOMAIN full PROVE full[k].ts <= t
      BY <2>2, <2>5 DEF RingOf, Ordered
    <3>2. ASSUME NEW k \in DOMAIN full, NEW m \in DOMAIN full, k <= m PROVE full[k].ts <= full[m].ts
      <4>1. CASE m = Len(heard) + 1
        BY <2>2, <2>4, <3>1, <4>1
      <4>2. CASE m # Len(heard) + 1
        <5>1. m \in DOMAIN heard /\ k \in DOMAIN heard /\ full[k] = heard[k] /\ full[m] = heard[m]
          BY <2>3, <2>4, <3>2, <4>2
        <5> QED BY <3>2, <5>1 DEF RingOf, Ordered
      <4> QED BY <4>1, <4>2
    <3> QED BY <2>4, <3>1, <3>2 DEF Ordered
  <2>7. Len(full) - kept \in 0 .. Len(full)
    BY <2>3, <2>4, HeadlinesAssumption DEF HeadlinesAssumption
  <2> HIDE DEF kept
  <2>8. /\ Ordered(rest, t) 
        /\ \A i \in DOMAIN rest : \E m \in DOMAIN full : rest[i] = full[m]
    BY <2>6, <2>7, LastHeadlines
  <2> HIDE DEF rest
  <2>9. /\ RingOf(r, t)
        /\ \A k \in DOMAIN r : r[k].ts >= t - Window /\ \E m \in DOMAIN rest : r[k] = rest[m]
    BY <2>1, <2>8, RecentKeeps
  <2>10. \A k \in DOMAIN r : r[k] = e \/ \E m \in DOMAIN heard : r[k] = heard[m]
    BY <2>5, <2>8, <2>9
  <2> QED BY <1>2, <2>9, <2>10 DEF r, e
<1> QED BY <1>1, <1>2

LEMMA ImageFinite ==
  ASSUME NEW S, IsFiniteSet(S), NEW f, DOMAIN f = S
  PROVE  IsFiniteSet({f[x] : x \in S})
<1> DEFINE T == {f[x] : x \in S}
           g == [x \in S |-> f[x]]
<1>1. g \in [S -> T] /\ \A y \in T : \E x \in S : g[x] = y
  OBVIOUS
<1> HIDE DEF g, T
<1>2. g \in Surjection(S, T)
  BY <1>1 DEF Surjection
<1>3. IsFiniteSet(T)
  BY <1>2, FS_Surjection
<1> QED BY <1>3 DEF T

\* the hosts of some headlines
HostsOf(headlines) == {e.host : e \in headlines}

LEMMA HostsFinite ==
  ASSUME NEW headlines, IsFiniteSet(headlines)
  PROVE  IsFiniteSet(HostsOf(headlines))
<1> DEFINE f == [e \in headlines |-> e.host]
<1>1. DOMAIN f = headlines /\ \A e \in headlines : f[e] = e.host
  OBVIOUS
<1> HIDE DEF f
<1>2. HostsOf(headlines) = {f[e] : e \in headlines}
  BY <1>1 DEF HostsOf
<1> QED BY <1>1, <1>2, ImageFinite

LEMMA RingFinite ==
  ASSUME NEW heard \in Seq(Heard)
  PROVE  IsFiniteSet({heard[k] : k \in DOMAIN heard})
<1>1. DOMAIN heard = 1 .. Len(heard) /\ Len(heard) \in Nat
  OBVIOUS
<1>2. IsFiniteSet(DOMAIN heard)
  BY <1>1, FS_Interval
<1> QED BY <1>2, ImageFinite

\* links with a text and a URL, whatever else they have
Listed(links) ==
  /\ DOMAIN links = 1 .. Len(links) /\ Len(links) \in Nat
  /\ \A k \in DOMAIN links : links[k].url \in Urls /\ links[k].text \in Texts

LEMMA KnownFinite ==
  ASSUME RingInv, NEW links, NEW k \in Nat
  PROVE  IsFiniteSet(Known(links, k))
<1> DEFINE f == [m \in 1 .. k - 1 |-> [text |-> links[m].text, host |-> HostOf[links[m].url], ts |-> now]]
<1>1. IsFiniteSet({ring[n] : n \in DOMAIN ring})
  BY RingFinite DEF RingInv, RingOf, Ordered
<1>2. IsFiniteSet(1 .. k - 1)
  BY FS_Interval
<1>3. DOMAIN f = 1 .. k - 1 /\ Known(links, k) = {ring[n] : n \in DOMAIN ring} \cup {f[m] : m \in 1 .. k - 1}
  BY DEF Known
<1> HIDE DEF f
<1>4. IsFiniteSet({f[m] : m \in 1 .. k - 1})
  BY <1>2, <1>3, ImageFinite
<1> QED BY <1>1, <1>3, <1>4, FS_Union

\* the hosts behind the k-th link, its own among them
Behind(links, k) == {HostOf[links[k].url]} \cup Backing(links, k)

LEMMA BehindFinite ==
  ASSUME RingInv, NEW links, NEW k \in Nat
  PROVE  IsFiniteSet(Behind(links, k))
<1> DEFINE H == {h \in Known(links, k) : h.ts >= LastHeard - Window /\ Alike(links[k].text, h.text)}
<1>1. IsFiniteSet(Known(links, k))
  BY KnownFinite
<1>2. IsFiniteSet(H)
  BY <1>1, FS_Subset
<1>3. Backing(links, k) = HostsOf(H)
  BY DEF Backing, HostsOf
<1> HIDE DEF H
<1>4. IsFiniteSet(Backing(links, k))
  BY <1>2, <1>3, HostsFinite
<1> QED BY <1>4, FS_AddElement DEF Behind

\* A score stands for that many hosts.
LEMMA ScoreCounts ==
  ASSUME NEW heard \in Seq(Heard), NEW text, NEW host
  PROVE  /\ LookupScore(heard, text, host) \in Nat
         /\ LookupScore(heard, text, host) > 0 => text # <<>> /\ Count(heard, text, host) >= MinHosts
<1> DEFINE H == {heard[i] : i \in {k \in DOMAIN heard : Alike(text, heard[k].text)}}
           n == Count(heard, text, host)
<1>1. IsFiniteSet({heard[k] : k \in DOMAIN heard}) /\ H \subseteq {heard[k] : k \in DOMAIN heard}
  BY RingFinite
<1>2. IsFiniteSet(H)
  BY <1>1, FS_Subset
<1>3. Count(heard, text, host) = Cardinality({host} \cup HostsOf(H))
  BY DEF Count, HostsOf
<1> HIDE DEF H
<1>4. IsFiniteSet(HostsOf(H))
  BY <1>2, HostsFinite
<1>5. IsFiniteSet({host} \cup HostsOf(H))
  <2>1. IsFiniteSet(HostsOf(H) \cup {host}) /\ {host} \cup HostsOf(H) = HostsOf(H) \cup {host}
    BY <1>4, FS_AddElement
  <2> QED BY <2>1
<1>6. n \in Nat
  BY <1>3, <1>5, FS_CardinalityType
<1>7. MinHosts \in Nat /\ MaxHosts \in Nat
  BY HeadlinesAssumption DEF HeadlinesAssumption
<1>8. LookupScore(heard, text, host) =
        IF text = <<>> \/ n < MinHosts THEN 0
        ELSE IF n >= MaxHosts THEN 100
        ELSE 50 + ((n - MinHosts) * 50) \div (MaxHosts - MinHosts)
  BY DEF LookupScore
<1> HIDE DEF n
<1>9. CASE ~ (text = <<>> \/ n < MinHosts) /\ ~ (n >= MaxHosts)
  <2>1. (n - MinHosts) * 50 \in Nat /\ MaxHosts - MinHosts \in Nat \ {0}
    BY <1>6, <1>7, <1>9
  <2>2. ((n - MinHosts) * 50) \div (MaxHosts - MinHosts) \in Nat
    <3> DEFINE a == (n - MinHosts) * 50  b == MaxHosts - MinHosts
    <3> HIDE DEF a, b
    <3>1. a \in Nat /\ b \in Nat \ {0}
      BY <2>1 DEF a, b
    <3>2. a \div b \in Nat
      BY <3>1
    <3> QED BY <3>2 DEF a, b
  <2>3. n >= MinHosts
    BY <1>6, <1>7, <1>9
  <2> QED BY <1>8, <1>9, <2>2, <2>3 DEF n
<1>10. CASE text = <<>> \/ n < MinHosts
  BY <1>8, <1>10
<1>11. CASE ~ (text = <<>> \/ n < MinHosts) /\ n >= MaxHosts
  <2>1. n >= MinHosts
    BY <1>6, <1>7, <1>11
  <2> QED BY <1>8, <1>11, <2>1 DEF n
<1> QED BY <1>9, <1>10, <1>11

\* a scoring of the first n links under way
Scoring(links, n) ==
  {g \in [ring : Seq(Heard), ts : {now}, scores : Seq(Nat)] :
     /\ RingOf(g.ring, now) /\ Len(g.scores) = n
     /\ \A k \in DOMAIN g.ring : g.ring[k] \in Known(links, n + 1) /\ g.ring[k].ts >= LastHeard - Window
     /\ \A k \in 1 .. n : g.scores[k] > 0 => Cardinality(Behind(links, k)) >= MinHosts}

LEMMA LastTypes ==
  ASSUME RingInv
  PROVE  LastHeard \in Nat /\ LastHeard <= now
<1>1. CASE ring = <<>>
  BY <1>1 DEF RingInv, LastHeard
<1>2. CASE ring # <<>>
  <2>1. ring \in Seq(Heard) /\ DOMAIN ring = 1 .. Len(ring) /\ Len(ring) \in Nat
    BY RingTypes DEF RingInv, RingOf, Ordered
  <2>2. Len(ring) \in DOMAIN ring
    BY <1>2, <2>1
  <2>3. ring[Len(ring)].ts \in Nat
    BY <2>2, RingTypes DEF RingInv, RingOf
  <2> QED BY <1>2, <2>2, <2>3 DEF RingInv, RingOf, Ordered, LastHeard
<1> QED BY <1>1, <1>2

\* What a scoring starts from.
LEMMA ScoringStarts ==
  ASSUME RingInv, NEW links
  PROVE  [ring |-> ring, ts |-> now, scores |-> <<>>] \in Scoring(links, 0)
<1> DEFINE g == [ring |-> ring, ts |-> now, scores |-> <<>>]
<1>1. ring \in Seq(Heard) /\ DOMAIN ring = 1 .. Len(ring) /\ Len(ring) \in Nat /\ RingOf(ring, now)
  BY RingTypes DEF RingInv, RingOf, Ordered
<1>2. <<>> \in Seq(Nat) /\ Len(<<>>) = 0
  OBVIOUS
<1>3. g \in [ring : Seq(Heard), ts : {now}, scores : Seq(Nat)]
  BY <1>1, <1>2
<1>4. ASSUME NEW k \in DOMAIN ring PROVE ring[k] \in Known(links, 1) /\ ring[k].ts >= LastHeard - Window
  <2>1. ring # <<>>
    BY <1>1
  <2>2. LastHeard = ring[Len(ring)].ts
    BY <2>1 DEF LastHeard
  <2> QED BY <1>1, <2>2 DEF Known, RingOf
<1>5. g.ring = ring /\ g.scores = <<>>
  OBVIOUS
<1> HIDE DEF g
<1>6. g \in Scoring(links, 0)
  BY <1>1, <1>2, <1>3, <1>4, <1>5 DEF Scoring
<1> QED BY <1>6 DEF g

\* A link that is scored is backed by what came before it.
LEMMA ScoredKeeps ==
  ASSUME RingInv, NEW links, Listed(links), NEW n \in 1 .. Len(links), NEW g \in Scoring(links, n - 1)
  PROVE  Scored(g, links[n]) \in Scoring(links, n)
<1> DEFINE text == links[n].text
           host == HostOf[links[n].url]
           score == LookupScore(g.ring, text, host)
           later == Added(g.ring, text, host, now)
           e == [text |-> text, host |-> host, ts |-> now]
           h == Scored(g, links[n])
<1>1. /\ g.ring \in Seq(Heard) /\ g.ts = now /\ g.scores \in Seq(Nat) /\ Len(g.scores) = n - 1
      /\ RingOf(g.ring, now)
      /\ \A k \in DOMAIN g.ring : g.ring[k] \in Known(links, n - 1 + 1) /\ g.ring[k].ts >= LastHeard - Window
      /\ \A k \in 1 .. n - 1 : g.scores[k] > 0 => Cardinality(Behind(links, k)) >= MinHosts
  BY DEF Scoring
<1>2. n \in Nat /\ n - 1 + 1 = n /\ n \in DOMAIN links
  BY DEF Listed
<1>3. text \in Texts /\ host \in {HostOf[url] : url \in Urls}
  BY <1>2 DEF Listed
<1>4. now \in Nat /\ Window \in Nat /\ MinHosts \in Nat /\ LastHeard \in Nat /\ LastHeard <= now
  BY LastTypes, HeadlinesAssumption DEF RingInv, HeadlinesAssumption
<1>5. h = [ring |-> later, ts |-> now, scores |-> Append(g.scores, score)]
  BY <1>1 DEF Scored
<1>6. score \in Nat /\ (score > 0 => text # <<>> /\ Count(g.ring, text, host) >= MinHosts)
  BY <1>1, ScoreCounts
<1>7. /\ RingOf(later, now) /\ (text = <<>> => later = g.ring)
      /\ text # <<>> => \A k \in DOMAIN later : /\ later[k].ts >= now - Window
                                                /\ later[k] = e \/ \E m \in DOMAIN g.ring : later[k] = g.ring[m]
  BY <1>1, <1>3, <1>4, AddedKeeps
<1>8. Known(links, n) \subseteq Known(links, n + 1) /\ e \in Known(links, n + 1)
  BY <1>2 DEF Known
<1>9. ASSUME score > 0 PROVE Cardinality(Behind(links, n)) >= MinHosts
  <2>1. {host} \cup {g.ring[i].host : i \in {k \in DOMAIN g.ring : Alike(text, g.ring[k].text)}}
          \subseteq Behind(links, n)
    <3>1. ASSUME NEW k \in DOMAIN g.ring, Alike(text, g.ring[k].text) PROVE g.ring[k].host \in Backing(links, n)
      BY <1>1, <1>2, <3>1 DEF Backing
    <3> QED BY <3>1 DEF Behind
  <2>2. IsFiniteSet(Behind(links, n))
    BY <1>2, BehindFinite
  <2>3. Count(g.ring, text, host) <= Cardinality(Behind(links, n))
    BY <2>1, <2>2, FS_Subset DEF Count
  <2>4. Cardinality(Behind(links, n)) \in Nat /\ Count(g.ring, text, host) \in Nat
    BY <2>1, <2>2, FS_Subset, FS_CardinalityType DEF Count
  <2> HIDE DEF score
  <2> QED BY <1>4, <1>6, <1>9, <2>3, <2>4
<1> HIDE DEF text, host, score, later, e, h
<1>10. /\ later \in Seq(Heard) /\ DOMAIN later = 1 .. Len(later) /\ Len(later) \in Nat
       /\ \A k \in DOMAIN later : later[k].ts \in Nat
  BY <1>7, RingTypes DEF RingOf, Ordered
<1>11. ASSUME NEW k \in DOMAIN later PROVE later[k] \in Known(links, n + 1) /\ later[k].ts >= LastHeard - Window
  <2>1. CASE text = <<>>
    BY <1>1, <1>2, <1>7, <1>8, <2>1
  <2>2. CASE text # <<>>
    <3>1. later[k].ts >= now - Window
      BY <1>7, <2>2
    <3>2. later[k].ts >= LastHeard - Window
      BY <1>4, <1>10, <3>1
    <3>3. later[k] \in Known(links, n + 1)
      BY <1>1, <1>2, <1>7, <1>8, <2>2
    <3> QED BY <3>2, <3>3
  <2> QED BY <2>1, <2>2
<1>12. /\ h.ring = later /\ h.ts = now /\ h.scores = Append(g.scores, score)
       /\ h \in [ring : Seq(Heard), ts : {now}, scores : Seq(Nat)]
  BY <1>1, <1>5, <1>6, <1>10
<1>13. Len(h.scores) = n
  BY <1>1, <1>2, <1>6, <1>12
<1>14. ASSUME NEW k \in 1 .. n, h.scores[k] > 0 PROVE Cardinality(Behind(links, k)) >= MinHosts
  <2>1. CASE k = n
    <3>1. h.scores[k] = score
      BY <1>1, <1>2, <1>6, <1>12, <2>1
    <3> QED BY <1>9, <1>14, <2>1, <3>1
  <2>2. CASE k # n
    <3>1. k \in 1 .. n - 1 /\ h.scores[k] = g.scores[k]
      BY <1>1, <1>2, <1>6, <1>12, <2>2
    <3> QED BY <1>1, <1>14, <3>1
  <2> QED BY <2>1, <2>2
<1>15. h \in Scoring(links, n)
  BY <1>7, <1>11, <1>12, <1>13, <1>14 DEF Scoring
<1> QED BY <1>15 DEF h

\* What a scoring ends with.
LEMMA ScoresAreEarned ==
  ASSUME RingInv, NEW links, Listed(links)
  PROVE  /\ RingOf(ScoreLinks(ring, links, now).ring, now)
         /\ Earned(links, ScoreLinks(ring, links, now).scores)
<1> DEFINE first == [ring |-> ring, ts |-> now, scores |-> <<>>]
           N == Len(links)
           G == [n \in 0 .. N |-> Scoring(links, n)]
           step == [n \in 1 .. N |-> [g \in G[n - 1] |-> Scored(g, links[n])]]
           Is(f) == f = [n \in 0 .. N |-> IF n = 0 THEN first ELSE Scored(f[n - 1], links[n])]
<1>1. N \in Nat
  BY DEF Listed
<1>2. first \in G[0]
  BY <1>1, ScoringStarts
<1>3. ASSUME NEW n \in 1 .. N, NEW g \in G[n - 1] PROVE Scored(g, links[n]) \in G[n]
  <2>1. g \in Scoring(links, n - 1)
    BY <1>1
  <2>2. Scored(g, links[n]) \in Scoring(links, n)
    BY <2>1, ScoredKeeps
  <2> QED BY <1>1, <2>2
<1>4. \A n \in 1 .. N : \A g \in G[n - 1] : step[n][g] \in G[n]
  <2> HIDE DEF G, N
  <2> QED BY <1>3
<1>5. \E f : Is(f)
  <2> HIDE DEF G, N, first
  <2>1. PICK f : Loop!Recurs(f, N, first, step) /\ \A n \in 0 .. N : f[n] \in G[n]
    <3> HIDE DEF step, Is
    <3> QED BY <1>1, <1>2, <1>4, Loop!RecursionUpTo
  <2>2. ASSUME NEW n \in 1 .. N PROVE step[n][f[n - 1]] = Scored(f[n - 1], links[n])
    <3>1. n - 1 \in 0 .. N
      BY <1>1
    <3> QED BY <2>1, <3>1
  <2> HIDE DEF step
  <2>3. Is(f)
    BY <1>1, <2>1, <2>2 DEF Loop!Recurs
  <2> QED BY <2>3
<1> DEFINE f == CHOOSE f : Is(f)
<1>6. Is(f)
  <2> HIDE DEF Is
  <2> QED BY <1>5
<1>7. ScoreLinks(ring, links, now) = f[N]
  BY DEF ScoreLinks, first, Folded
<1> HIDE DEF f, G, N, first
<1>8. f[0] \in G[0]
  BY <1>1, <1>2, <1>6
<1>9. ASSUME NEW n \in 1 .. N, f[n - 1] \in G[n - 1] PROVE f[n] \in G[n]
  <2>1. f[n] = Scored(f[n - 1], links[n])
    BY <1>1, <1>6
  <2> QED BY <1>3, <1>9, <2>1
<1>10. f[N] \in G[N]
  BY <1>1, <1>8, <1>9, Loop!ValuesUpTo
<1>11. f[N] \in Scoring(links, N)
  BY <1>1, <1>10 DEF G
<1>12. RingOf(f[N].ring, now) /\ DOMAIN f[N].scores = 1 .. N
       /\ \A k \in 1 .. N : f[N].scores[k] > 0 => Cardinality(Behind(links, k)) >= MinHosts
  BY <1>11 DEF Scoring
<1>13. Earned(links, f[N].scores)
  BY <1>12 DEF Earned, Behind
<1> QED BY <1>7, <1>12, <1>13

\* The links of a result are listed, and so are those of a page.
LEMMA ListedLinks ==
  ASSUME NEW links \in Seq(Links)
  PROVE  Listed(links)
<1>1. DOMAIN links = 1 .. Len(links) /\ Len(links) \in Nat /\ \A k \in DOMAIN links : links[k] \in Links
  OBVIOUS
<1> QED BY <1>1 DEF Listed, Links

LEMMA ListedEnriched ==
  ASSUME NEW links \in Seq(Links), NEW summed
  PROVE  Listed(Enriched(links, summed))
<1> DEFINE e == Enriched(links, summed)
<1>1. /\ DOMAIN links = 1 .. Len(links) /\ Len(links) \in Nat
      /\ \A k \in DOMAIN links : links[k] \in Links
  OBVIOUS
<1>2. DOMAIN e = DOMAIN links
  BY DEF Enriched
<1>3. ASSUME NEW k \in DOMAIN links PROVE e[k].url = links[k].url /\ e[k].text = links[k].text
  <2>1. links[k] \in Links
    BY <1>1
  <2>2. LET more == [links[k] EXCEPT !.summary = summed[links[k].url], !.seen = @ \cup {"article"}]
        IN more.url = links[k].url /\ more.text = links[k].text
    BY <2>1 DEF Links
  <2> QED BY <2>2 DEF Enriched
<1>4. e = [k \in 1 .. Len(links) |-> e[k]]
  BY <1>1, <1>2 DEF Enriched
<1> HIDE DEF e
<1>5. Len(e) = Len(links)
  BY <1>1, <1>4
<1>6. Listed(e)
  BY <1>1, <1>2, <1>3, <1>5 DEF Listed, Links
<1> QED BY <1>6 DEF e

\* The links a scrape ends with are scored, and every score is earned.
LEMMA FinishEarns ==
  ASSUME RingInv, BatchInv, NEW i \in Slots, NEW links, Listed(links), Finish(i, links), UNCHANGED <<now, batch>>
  PROVE  /\ RingInv'
         /\ results'[i].links = links /\ Earned(results'[i].links, results'[i].scores)
         /\ \A k \in Slots \ {i} : results'[k] = results[k]
         /\ DOMAIN results' = Slots
<1> DEFINE scored == ScoreLinks(ring, links, now)
           value == [url |-> batch.urls[i], kind |-> IF links = <<>> THEN "empty" ELSE "links",
                     links |-> links, scores |-> scored.scores]
<1>1. ring' = scored.ring /\ results' = [results EXCEPT ![i] = value]
  BY DEF Finish
<1>2. RingOf(scored.ring, now) /\ Earned(links, scored.scores)
  BY ScoresAreEarned
<1>3. value.links = links /\ value.scores = scored.scores
  OBVIOUS
<1> HIDE DEF scored, value
<1>4. DOMAIN results = Slots
  BY DEF BatchInv
<1>5. results'[i] = value /\ DOMAIN results' = Slots /\ \A k \in Slots \ {i} : results'[k] = results[k]
  BY <1>1, <1>4
<1>6. RingInv'
  BY <1>1, <1>2 DEF RingInv
<1> QED BY <1>2, <1>3, <1>5, <1>6

\* what the step of a batch must not do: give a result a score it has not earned
EarnedStep ==
  \A i \in DOMAIN results' : i \in DOMAIN results /\ results[i] = Waiting /\ results'[i] # Waiting =>
    Earned(results'[i].links, results'[i].scores)

LEMMA SameResults == ASSUME UNCHANGED results PROVE EarnedStep
BY DEF EarnedStep

LEMMA FinishCounts ==
  ASSUME RingInv, BatchInv, NEW i \in Slots, NEW links, Listed(links), Finish(i, links), UNCHANGED <<now, batch>>
  PROVE  RingInv' /\ EarnedStep
<1>1. /\ RingInv'
      /\ results'[i].links = links /\ Earned(results'[i].links, results'[i].scores)
      /\ \A k \in Slots \ {i} : results'[k] = results[k]
      /\ DOMAIN results' = Slots
  BY FinishEarns
<1> QED BY <1>1 DEF EarnedStep

LEMMA HtmlCounts ==
  ASSUME RingInv, BatchInv, NEW i \in Slots, HtmlArrives(i)
  PROVE  RingInv' /\ EarnedStep
<1>1. PICK listing \in Pages[batch.urls[i]], cached \in BOOLEAN :
        ring' = IF cached THEN ring ELSE ScoreLinks(ring, Filtered(Extract(listing)), now).ring
  BY DEF HtmlArrives
<1>2. UNCHANGED <<now, results>>
  BY DEF HtmlArrives
<1> DEFINE links == Filtered(Extract(listing))
<1>3. listing \in Seq(Anchors)
  BY InSlots, InAnchors
<1>4. Listed(links)
  BY <1>3, ExtractTypes, FilteredTypes, ListedLinks
<1> HIDE DEF links
<1>5. RingOf(ScoreLinks(ring, links, now).ring, now)
  BY <1>4, ScoresAreEarned
<1>6. ring' = ring \/ ring' = ScoreLinks(ring, links, now).ring
  BY <1>1 DEF links
<1>7. RingInv'
  BY <1>2, <1>5, <1>6 DEF RingInv
<1> QED BY <1>2, <1>7, SameResults

LEMMA MergeCounts ==
  ASSUME RingInv, BatchInv, NEW i \in Slots, Merge(i)
  PROVE  RingInv' /\ EarnedStep
<1> DEFINE links == Merged(FeedOf(i), PageOf(i))
<1>0. MergeTo(i, links)
  BY DEF Merge, FeedOf, PageOf
<1>1. SlotInv(i)
  BY DEF BatchInv
<1>2. Waiting \notin {html[i], rss[i]}
  BY <1>0 DEF MergeTo
<1>3. links \in OfBoth(FeedOf(i), PageOf(i), Len(PageOf(i)))
  BY <1>1, <1>2, Fetched, MergedHolds
<1>4. Listed(links)
  <2> HIDE DEF links
  <2>1. links \in Seq(Links)
    BY <1>3 DEF OfBoth
  <2> QED BY <2>1, ListedLinks
<1> HIDE DEF links
<1>5. UNCHANGED <<now, batch>> /\ (Finish(i, links) \/ UNCHANGED <<ring, results>>)
  BY <1>0 DEF MergeTo
<1>6. CASE Finish(i, links)
  BY <1>4, <1>5, <1>6, FinishCounts
<1>7. CASE UNCHANGED <<ring, results>>
  BY <1>5, <1>7, SameResults DEF RingInv
<1> QED BY <1>5, <1>6, <1>7

LEMMA EnrichCounts ==
  ASSUME RingInv, BatchInv, NEW i \in Slots, Enrich(i)
  PROVE  RingInv' /\ EarnedStep
<1> DEFINE links == Enriched(merged[i], got[i])
<1>1. SlotInv(i)
  BY DEF BatchInv
<1>2. stage[i] = "enriching" /\ Finish(i, links) /\ UNCHANGED <<now, batch>>
  BY DEF Enrich
<1>3. merged[i] \in Seq(Links)
  BY <1>1, <1>2 DEF SlotInv, OfBoth
<1>4. Listed(links)
  BY <1>3, ListedEnriched
<1> HIDE DEF links
<1> QED BY <1>2, <1>4, FinishCounts

LEMMA PlainCounts ==
  ASSUME RingInv, BatchInv, NEW i \in Slots, PlainEnds(i)
  PROVE  RingInv' /\ EarnedStep
<1> DEFINE value == [url |-> batch.urls[i], kind |-> IF html[i] = Failed THEN "error" ELSE "links",
                     links |-> OrNone(html[i]), scores |-> <<>>]
<1>1. results' = [results EXCEPT ![i] = value] /\ UNCHANGED <<now, ring>>
  BY DEF PlainEnds
<1>2. value.scores = <<>>
  OBVIOUS
<1> HIDE DEF value
<1>3. DOMAIN results = Slots
  BY DEF BatchInv
<1>4. results'[i] = value /\ \A k \in Slots \ {i} : results'[k] = results[k]
  BY <1>1, <1>3
<1>5. Earned(results'[i].links, results'[i].scores)
  BY <1>2, <1>4 DEF Earned
<1>6. DOMAIN results' = Slots
  BY <1>1, <1>3
<1>7. EarnedStep
  BY <1>4, <1>5, <1>6 DEF EarnedStep
<1> QED BY <1>1, <1>7 DEF RingInv

LEMMA RingStep == RingInv /\ BatchInv /\ [BatchNext]_batchVars => RingInv' /\ EarnedStep
<1> SUFFICES ASSUME RingInv, BatchInv, [BatchNext]_batchVars PROVE RingInv' /\ EarnedStep
  OBVIOUS
<1>1. CASE Begin
  <2>1. DOMAIN results = {}
    BY <1>1 DEF Begin, BeginBatch, BatchInv, Slots
  <2>2. UNCHANGED <<now, ring>>
    BY <1>1 DEF Begin, BeginBatch
  <2> QED BY <2>1, <2>2 DEF EarnedStep, RingInv
<1>2. CASE \E i \in Slots : Step(i)
  <2> PICK i \in Slots : Step(i)
    BY <1>2
  <2>1. CASE Admit(i) \/ HtmlFails(i) \/ RssEnds(i) \/ \E url \in asked[i] : ArticleEnds(i, url)
    <3>1. UNCHANGED <<now, ring, results>>
      BY <2>1 DEF Admit, HtmlFails, RssEnds, ArticleEnds
    <3> QED BY <3>1, SameResults DEF RingInv
  <2>2. CASE HtmlArrives(i)
    BY <2>2, HtmlCounts
  <2>3. CASE PlainEnds(i)
    BY <2>3, PlainCounts
  <2>4. CASE Merge(i)
    BY <2>4, MergeCounts
  <2>5. CASE Enrich(i)
    BY <2>5, EnrichCounts
  <2> QED BY <2>1, <2>2, <2>3, <2>4, <2>5 DEF Step
<1>3. CASE Return
  <2>1. DOMAIN results' = {}
    BY <1>3 DEF Return
  <2>2. UNCHANGED <<now, ring>>
    BY <1>3 DEF Return
  <2> QED BY <2>1, <2>2 DEF EarnedStep, RingInv
<1>4. CASE Tick
  <2>1. now' = now + 1 /\ UNCHANGED <<ring, results>>
    BY <1>4 DEF Tick
  <2>2. now' \in Nat /\ \A k \in DOMAIN ring : ring[k].ts <= now'
    <3>1. now \in Nat /\ \A k \in DOMAIN ring : ring[k].ts \in Nat /\ ring[k].ts <= now
      BY RingTypes DEF RingInv, RingOf, Ordered
    <3> QED BY <2>1, <3>1
  <2>3. RingOf(ring', now')
    BY <2>1, <2>2 DEF RingInv, RingOf, Ordered
  <2> QED BY <2>1, <2>2, <2>3, SameResults DEF RingInv
<1>5. CASE UNCHANGED batchVars
  BY <1>5, SameResults DEF batchVars, RingInv
<1> QED BY <1>1, <1>2, <1>3, <1>4, <1>5 DEF BatchNext, Progress

\* Every score of a batch is earned, however the fetches of its pages, feeds and articles
\* interleave, for any number of headlines kept, any window and any thresholds.
THEOREM ScoresEarned == BatchSpec => CorroboratedByHosts
<1>1. BatchInit => BatchInv /\ RingInv
  <2>1. BatchInit => BatchInv
    BY DEF BatchInit, BatchInv, Slots
  <2>2. ASSUME BatchInit PROVE RingInv
    <3>1. ring = <<>> /\ now = 0
      BY <2>2 DEF BatchInit
    <3>2. <<>> \in Seq(Heard) /\ DOMAIN <<>> = {}
      OBVIOUS
    <3> QED BY <3>1, <3>2 DEF RingInv, RingOf, Ordered
  <2> QED BY <2>1, <2>2
<1>2. BatchInv /\ RingInv /\ [BatchNext]_batchVars => [EarnedStep]_batchVars
  BY RingStep
<1>3. CorroboratedByHosts <=> [][EarnedStep]_batchVars
  BY PTL DEF CorroboratedByHosts, EarnedStep
<1> QED BY <1>1, <1>2, <1>3, BatchStep, RingStep, PTL DEF BatchSpec

-----------------------------------------------------------------------------
(* The stages: what they make of a poll is a list of events *)

IsEvent(e) == "items" \in DOMAIN e /\ IsSequence(e.items)
AreEvents(events) == IsSequence(events) /\ \A k \in DOMAIN events : IsEvent(events[k])
IsRun(run) == DOMAIN run = {"events", "seen", "raised"} /\ AreEvents(run.events)

\* what holds before and after each round of a loop of the stages; p is what the loop is given
ListSoFar(p, n, s) == IsSequence(s)
ListsSoFar(p, n, s) == IsSequence(s) /\ \A k \in DOMAIN s : IsSequence(s[k])
FreshSoFar(p, n, acc) == IsSequence(acc.fresh)
RunSoFar(p, n, run) == IsRun(run)

Keeping == INSTANCE FoldProofs WITH Op <- PickedToo, Good <- ListSoFar
Meeting == INSTANCE FoldProofs WITH Op <- UnlessMet, Good <- ListSoFar
Packing == INSTANCE FoldProofs WITH Op <- IntoLast, Good <- ListsSoFar
Marking == INSTANCE FoldProofs WITH Op <- MarkedToo, Good <- FreshSoFar
Streaming == INSTANCE FoldProofs WITH Op <- Through, Good <- RunSoFar
StageAfter(p, run, st) == StageRun(run, st)
Chaining == INSTANCE FoldProofs WITH Op <- StageAfter, Good <- RunSoFar

LEMMA ListFacts ==
  ASSUME NEW s, IsSequence(s)
  PROVE  Len(s) \in Nat /\ DOMAIN s = 1 .. Len(s) /\ s = [k \in 1 .. Len(s) |-> s[k]]
BY DEF IsSequence

LEMMA SeqIsList == ASSUME NEW S, NEW s \in Seq(S) PROVE IsSequence(s)
<1>1. Len(s) \in Nat /\ DOMAIN s = 1 .. Len(s) /\ s = [k \in 1 .. Len(s) |-> s[k]]
  OBVIOUS
<1>2. s \in [1 .. Len(s) -> {s[k] : k \in DOMAIN s}]
  BY <1>1
<1> QED BY <1>1, <1>2, SeqDef DEF IsSequence

LEMMA FcnIsList == ASSUME NEW N \in Int, NEW s, s = [k \in 1 .. N |-> s[k]] PROVE IsSequence(s)
<1>1. PICK m \in Nat : 1 .. m = 1 .. N
  <2>1. CASE N \in Nat
    BY <2>1
  <2>2. CASE N \notin Nat
    <3>1. 1 .. 0 = 1 .. N
      BY <2>2
    <3> QED BY <3>1
  <2> QED BY <2>1, <2>2
<1>2. DOMAIN s = 1 .. m
  BY <1>1
<1>3. s \in [1 .. m -> {s[k] : k \in DOMAIN s}]
  BY <1>1, <1>2
<1> QED BY <1>3, SeqDef DEF IsSequence

LEMMA EmptyIsList == IsSequence(<<>>) /\ DOMAIN <<>> = {}
<1>1. <<>> \in Seq({}) /\ DOMAIN <<>> = {}
  OBVIOUS
<1> QED BY <1>1, SeqIsList

LEMMA OneIsList == ASSUME NEW x PROVE IsSequence(<<x>>) /\ DOMAIN <<x>> = {1} /\ <<x>>[1] = x
<1>1. <<x>> \in Seq({x}) /\ DOMAIN <<x>> = {1} /\ <<x>>[1] = x
  OBVIOUS
<1> QED BY <1>1, SeqIsList

LEMMA AppendIsList ==
  ASSUME NEW s, IsSequence(s), NEW x
  PROVE  LET r == Append(s, x) IN
         /\ IsSequence(r) /\ DOMAIN r = 1 .. Len(s) + 1
         /\ \A k \in DOMAIN r : r[k] = x \/ (k \in DOMAIN s /\ r[k] = s[k])
<1> DEFINE S == {s[k] : k \in DOMAIN s} \cup {x}
           r == Append(s, x)
<1>0. s \in Seq({s[k] : k \in DOMAIN s})
  BY DEF IsSequence
<1>1. s \in Seq(S) /\ x \in S /\ DOMAIN s = 1 .. Len(s) /\ Len(s) \in Nat
  BY <1>0, SeqMonotonic
<1> HIDE DEF S
<1>2. r \in Seq(S) /\ Len(r) = Len(s) + 1 /\ DOMAIN r = 1 .. Len(s) + 1
      /\ r[Len(s) + 1] = x /\ \A k \in 1 .. Len(s) : r[k] = s[k]
  BY <1>1
<1> HIDE DEF r
<1>3. IsSequence(r)
  BY <1>2, SeqIsList
<1>4. ASSUME NEW k \in DOMAIN r PROVE r[k] = x \/ (k \in DOMAIN s /\ r[k] = s[k])
  <2>1. k \in 1 .. Len(s) \/ k = Len(s) + 1
    BY <1>1, <1>2
  <2> QED BY <1>1, <1>2, <2>1
<1> QED BY <1>2, <1>3, <1>4 DEF r

LEMMA ConcatIsList ==
  ASSUME NEW s, IsSequence(s), NEW t, IsSequence(t)
  PROVE  LET r == s \o t IN
         /\ IsSequence(r)
         /\ \A k \in DOMAIN r : (k \in DOMAIN s /\ r[k] = s[k]) \/ \E m \in DOMAIN t : r[k] = t[m]
<1> DEFINE S == {s[k] : k \in DOMAIN s} \cup {t[k] : k \in DOMAIN t}
           r == s \o t
<1>1. s \in Seq(S) /\ t \in Seq(S) /\ DOMAIN s = 1 .. Len(s) /\ Len(s) \in Nat /\ DOMAIN t = 1 .. Len(t) /\ Len(t) \in Nat
  <2>1. s \in Seq({s[k] : k \in DOMAIN s}) /\ t \in Seq({t[k] : k \in DOMAIN t})
    BY DEF IsSequence
  <2>2. s \in Seq(S) /\ t \in Seq(S)
    BY <2>1, SeqMonotonic
  <2> QED BY <2>2
<1> HIDE DEF S
<1>2. /\ r \in Seq(S) /\ Len(r) = Len(s) + Len(t)
      /\ \A k \in 1 .. Len(s) + Len(t) : r[k] = IF k <= Len(s) THEN s[k] ELSE t[k - Len(s)]
  BY <1>1, ConcatProperties
<1> HIDE DEF r
<1>3. IsSequence(r) /\ DOMAIN r = 1 .. Len(s) + Len(t)
  BY <1>1, <1>2, SeqIsList
<1>4. ASSUME NEW k \in DOMAIN r PROVE (k \in DOMAIN s /\ r[k] = s[k]) \/ \E m \in DOMAIN t : r[k] = t[m]
  <2>1. CASE k <= Len(s)
    BY <1>1, <1>2, <1>3, <2>1
  <2>2. CASE ~ (k <= Len(s))
    <3>1. k - Len(s) \in DOMAIN t
      BY <1>1, <1>3, <2>2
    <3> QED BY <1>2, <1>3, <2>2, <3>1
  <2> QED BY <2>1, <2>2
<1> QED BY <1>3, <1>4 DEF r

\* A part of a list, from place a to place b.
LEMMA PartIsList ==
  ASSUME NEW s, IsSequence(s), NEW a \in 1 .. Len(s) + 1, NEW b \in a - 1 .. Len(s)
  PROVE  IsSequence(SubSeq(s, a, b)) /\ Len(SubSeq(s, a, b)) = b - a + 1
<1> DEFINE S == {s[k] : k \in DOMAIN s}
<1>1. s \in Seq(S)
  BY DEF IsSequence
<1> HIDE DEF S
<1>2. SubSeq(s, a, b) \in Seq(S) /\ Len(SubSeq(s, a, b)) = b - a + 1
  BY <1>1, SubSeqProperties
<1> QED BY <1>2, SeqIsList

\* The loops of the stages over the items of an event end in a list.
LEMMA PickedIsSeq == ASSUME NEW s, IsSequence(s), NEW wanted PROVE IsSequence(Picked(s, wanted))
<1>1. Len(s) \in Nat /\ ListSoFar(wanted, 0, <<>>)
  BY ListFacts, EmptyIsList DEF ListSoFar
<1>2. \A x : \A n \in 1 .. Len(s) : ListSoFar(wanted, n - 1, x) => ListSoFar(wanted, n, PickedToo(wanted, x, s[n]))
  BY AppendIsList DEF ListSoFar, PickedToo
<1>3. ListSoFar(wanted, Len(s), Keeping!Looped(wanted, <<>>, s))
  BY <1>1, <1>2, Keeping!FoldKeeps
<1> QED BY <1>3, Zenon DEF ListSoFar, Picked, Keeping!Looped, Keeping!Folded, Folded

LEMMA FirstsIsSeq == ASSUME NEW s, IsSequence(s), NEW f PROVE IsSequence(Firsts(s, f))
<1>1. Len(s) \in Nat /\ ListSoFar(f, 0, <<>>)
  BY ListFacts, EmptyIsList DEF ListSoFar
<1>2. \A x : \A n \in 1 .. Len(s) : ListSoFar(f, n - 1, x) => ListSoFar(f, n, UnlessMet(f, x, s[n]))
  BY AppendIsList DEF ListSoFar, UnlessMet
<1>3. ListSoFar(f, Len(s), Meeting!Looped(f, <<>>, s))
  BY <1>1, <1>2, Meeting!FoldKeeps
<1> QED BY <1>3, Zenon DEF ListSoFar, Firsts, Meeting!Looped, Meeting!Folded, Folded

LEMMA FreshIsSeq ==
  ASSUME NEW s, IsSequence(s), NEW st, NEW memory
  PROVE  IsSequence(Marked(st, memory, s).fresh)
<1> DEFINE base == [fresh |-> <<>>, seen |-> memory]
<1>1. Len(s) \in Nat /\ FreshSoFar(st, 0, base)
  BY ListFacts, EmptyIsList DEF FreshSoFar
<1>2. ASSUME NEW acc, NEW n \in 1 .. Len(s), FreshSoFar(st, n - 1, acc) PROVE FreshSoFar(st, n, MarkedToo(st, acc, s[n]))
  <2>1. MarkedToo(st, acc, s[n]).fresh \in {acc.fresh, Append(acc.fresh, s[n])}
    BY DEF MarkedToo
  <2> QED BY <1>2, <2>1, AppendIsList DEF FreshSoFar
<1> HIDE DEF base
<1>3. FreshSoFar(st, Len(s), Marking!Looped(st, base, s))
  BY <1>1, <1>2, Marking!FoldKeeps
<1> QED BY <1>3, Zenon DEF base, FreshSoFar, Marked, Marking!Looped, Marking!Folded, Folded

LEMMA PackedIsSeq ==
  ASSUME NEW s, IsSequence(s), NEW budget
  PROVE  LET chunks == ByBudget(s, budget) IN IsSequence(chunks) /\ \A k \in DOMAIN chunks : IsSequence(chunks[k])
<1>1. Len(s) \in Nat /\ ListsSoFar(budget, 0, <<>>)
  BY ListFacts, EmptyIsList DEF ListsSoFar
<1>2. ASSUME NEW out, NEW n \in 1 .. Len(s), ListsSoFar(budget, n - 1, out)
      PROVE  ListsSoFar(budget, n, IntoLast(budget, out, s[n]))
  <2> DEFINE r == IntoLast(budget, out, s[n])
  <2>0. IsSequence(out) /\ Len(out) \in Nat /\ DOMAIN out = 1 .. Len(out) /\ \A k \in DOMAIN out : IsSequence(out[k])
    BY <1>2, ListFacts DEF ListsSoFar
  <2>1. CASE r = Append(out, <<s[n]>>)
    <3>1. IsSequence(<<s[n]>>)
      BY OneIsList
    <3> QED BY <2>0, <2>1, <3>1, AppendIsList DEF ListsSoFar
  <2>2. CASE out # <<>> /\ r = Append(Front(out), Append(Last(out), s[n]))
    <3> DEFINE front == SubSeq(out, 1, Len(out) - 1)
    <3>1. Len(out) # 0
      BY <2>0, <2>2 DEF IsSequence
    <3>2. Len(out) - 1 \in 0 .. Len(out) /\ 1 \in 1 .. Len(out) + 1 /\ Len(out) \in DOMAIN out
      BY <2>0, <3>1
    <3>3. IsSequence(front) /\ DOMAIN front = 1 .. Len(out) - 1 /\ \A k \in DOMAIN front : front[k] = out[k]
      <4> DEFINE S == {out[k] : k \in DOMAIN out}
      <4>1. out \in Seq(S)
        BY <2>0 DEF IsSequence
      <4> HIDE DEF S
      <4>2. front \in Seq(S) /\ DOMAIN front = 1 .. Len(out) - 1 /\ \A k \in 1 .. Len(out) - 1 : front[k] = out[k]
        BY <3>2, <4>1
      <4> QED BY <4>2, SeqIsList
    <3>4. IsSequence(Append(Last(out), s[n]))
      BY <2>0, <3>2, AppendIsList DEF Last
    <3>5. r = Append(front, Append(Last(out), s[n]))
      BY <2>2 DEF Front
    <3> HIDE DEF front, r
    <3>6. IsSequence(r) /\ \A k \in DOMAIN r : IsSequence(r[k])
      <4>1. \A k \in DOMAIN front : IsSequence(front[k])
        BY <2>0, <3>3
      <4> QED BY <3>3, <3>4, <3>5, <4>1, AppendIsList
    <3> QED BY <3>6 DEF r, ListsSoFar
  <2> QED BY <2>1, <2>2 DEF IntoLast
<1>3. ListsSoFar(budget, Len(s), Packing!Looped(budget, <<>>, s))
  BY <1>1, <1>2, Packing!FoldKeeps
<1> QED BY <1>3, Zenon DEF ListsSoFar, ByBudget, Packing!Looped, Packing!Folded, Folded

LEMMA CutIsSeq ==
  ASSUME NEW s, IsSequence(s), NEW size \in Nat \ {0}
  PROVE  LET chunks == BySize(s, size) IN IsSequence(chunks) /\ \A k \in DOMAIN chunks : IsSequence(chunks[k])
<1> DEFINE L == Len(s)
           q == (L + size - 1) \div size
           end(k) == IF k * size < L THEN k * size ELSE L
           chunks == BySize(s, size)
<1>1. L \in Nat
  BY ListFacts
<1>2. q \in Nat /\ q * size <= L + size - 1
  <2> HIDE DEF L
  <2>1. L + size - 1 \in Nat
    BY <1>1
  <2> QED BY <2>1
<1>3. chunks = [k \in 1 .. q |-> SubSeq(s, (k - 1) * size + 1, end(k))]
  BY DEF BySize
<1> HIDE DEF q, chunks, L
<1>4. ASSUME NEW k \in 1 .. q PROVE IsSequence(SubSeq(s, (k - 1) * size + 1, end(k)))
  <2>1. (k - 1) * size \in Nat /\ k * size \in Nat /\ k * size = (k - 1) * size + size
    BY <1>2
  <2>2. k * size <= q * size
    BY <1>2
  <2>3. (k - 1) * size <= L
    <3>1. k * size <= L + size - 1
      BY <1>1, <1>2, <2>1, <2>2
    <3> QED BY <1>1, <2>1, <3>1
  <2> DEFINE a == (k - 1) * size
             b == k * size
  <2> HIDE DEF a, b
  <2>4. a \in Nat /\ b \in Nat /\ b = a + size /\ a <= L
    BY <2>1, <2>3 DEF a, b
  <2>5. a + 1 \in 1 .. L + 1 /\ (IF b < L THEN b ELSE L) \in a .. L
    BY <1>1, <2>4
  <2>6. IsSequence(SubSeq(s, a + 1, IF b < L THEN b ELSE L))
    <3> DEFINE lo == a + 1
               hi == IF b < L THEN b ELSE L
    <3>1. lo \in 1 .. Len(s) + 1 /\ hi \in lo - 1 .. Len(s)
      BY <1>1, <2>4, <2>5 DEF L
    <3> HIDE DEF lo, hi
    <3>2. IsSequence(SubSeq(s, lo, hi))
      BY <3>1, PartIsList
    <3> QED BY <3>2 DEF lo, hi
  <2> QED BY <2>6 DEF a, b
<1>5. DOMAIN chunks = 1 .. q /\ \A k \in 1 .. q : IsSequence(chunks[k])
  BY <1>3, <1>4
<1>6. IsSequence(chunks)
  <2>1. chunks = [k \in 1 .. q |-> chunks[k]]
    BY <1>3
  <2> HIDE DEF end
  <2> QED BY <1>2, <2>1, FcnIsList
<1> QED BY <1>5, <1>6 DEF chunks

LEMMA NoEvents == AreEvents(<<>>)
BY EmptyIsList DEF AreEvents

LEMMA OneEvent == ASSUME NEW e, IsEvent(e) PROVE AreEvents(<<e>>)
BY OneIsList DEF AreEvents

\* An event with another list of items.
LEMMA ListOfIsEvent ==
  ASSUME NEW e, IsEvent(e), NEW items, IsSequence(items)
  PROVE  IsEvent(ListOf(e, items)) /\ ListOf(e, items).items = items
<1> DEFINE r == ListOf(e, items)
<1>1. "items" \in DOMAIN e
  BY DEF IsEvent
<1>2. DOMAIN r = DOMAIN e /\ r.items = items
  BY <1>1 DEF ListOf
<1> HIDE DEF r
<1> QED BY <1>1, <1>2 DEF IsEvent, r

\* An item for each item.
LEMMA MappedIsSeq ==
  ASSUME NEW s, IsSequence(s), NEW t, t = [k \in DOMAIN s |-> t[k]]
  PROVE  IsSequence(t)
<1>1. Len(s) \in Int /\ DOMAIN s = 1 .. Len(s)
  BY ListFacts
<1>2. t = [k \in 1 .. Len(s) |-> t[k]]
  BY <1>1
<1> QED BY <1>1, <1>2, FcnIsList

LEMMA SelectEvents == ASSUME NEW st, NEW e, IsEvent(e) PROVE AreEvents(Select(st, e))
<1> DEFINE kept == Picked(e.items, {item \in ToSet(e.items) : Matches(item, st.where)})
           listed == ListOf(e, kept)
           shown == [k \in DOMAIN listed.items |-> Project(listed.items[k], st.fields)]
<1>1. IsSequence(kept)
  BY PickedIsSeq DEF IsEvent
<1>2. IsEvent(listed) /\ listed.items = kept
  <2> HIDE DEF kept
  <2> QED BY <1>1, ListOfIsEvent
<1>3. Select(st, e) = IF ~ e.list /\ kept = <<>> THEN <<>> ELSE <<ListOf(listed, shown)>>
  BY Zenon DEF Select, Each
<1>4. shown = [k \in DOMAIN listed.items |-> shown[k]]
  OBVIOUS
<1> HIDE DEF kept, listed, shown
<1>5. IsEvent(ListOf(listed, shown))
  BY <1>1, <1>2, <1>4, MappedIsSeq, ListOfIsEvent
<1> QED BY <1>3, <1>5, NoEvents, OneEvent

LEMMA FilterEvents == ASSUME NEW st, NEW e, IsEvent(e) PROVE AreEvents(Filter(st, e))
<1> DEFINE kept == Picked(e.items, {item \in ToSet(e.items) : Test(st, item)})
<1>1. IsSequence(kept)
  BY PickedIsSeq DEF IsEvent
<1>2. Filter(st, e) = IF ~ e.list /\ kept = <<>> THEN <<>> ELSE <<ListOf(e, kept)>>
  BY DEF Filter
<1> HIDE DEF kept
<1> QED BY <1>1, <1>2, ListOfIsEvent, NoEvents, OneEvent

LEMMA SortEvents == ASSUME NEW st, NEW e, IsEvent(e) PROVE AreEvents(Sort(st, e))
<1>1. PICK t : t = [k \in DOMAIN e.items |-> t[k]] /\ Sort(st, e) = <<IF e.list THEN ListOf(e, t) ELSE e>>
  <2> DEFINE key(i) == Field(e.items[i], st.key)
             first(i, j) == LET lo == IF st.reverse THEN j ELSE i
                                hi == IF st.reverse THEN i ELSE j
                            IN \/ Before(key(lo), key(hi))
                               \/ ~Before(key(hi), key(lo)) /\ i < j
             order == SetToSortSeq(DOMAIN e.items, first)
             t == [k \in DOMAIN e.items |-> e.items[order[k]]]
  <2>1. Sort(st, e) = <<IF e.list THEN ListOf(e, t) ELSE e>>
    BY Zenon DEF Sort
  <2> HIDE DEF order
  <2>2. t = [k \in DOMAIN e.items |-> t[k]]
    OBVIOUS
  <2> HIDE DEF t
  <2> QED BY <2>1, <2>2
<1>2. IsEvent(ListOf(e, t))
  BY <1>1, MappedIsSeq, ListOfIsEvent DEF IsEvent
<1> QED BY <1>1, <1>2, OneEvent

LEMMA LimitEvents == ASSUME NEW st, st.count \in Nat, NEW e, IsEvent(e) PROVE AreEvents(Limit(st, e))
<1> DEFINE n == Len(e.items)
           from == IF n > st.count THEN n - st.count + 1 ELSE 1
           to == IF st.count < n THEN st.count ELSE n
<1>1. IsSequence(e.items) /\ n \in Nat
  BY ListFacts DEF IsEvent
<1>2. Limit(st, e) = <<IF ~ e.list THEN e
                       ELSE ListOf(e, IF st.from = "tail" THEN SubSeq(e.items, from, n) ELSE SubSeq(e.items, 1, to))>>
  BY DEF Limit
<1>3. from \in 1 .. n + 1 /\ n \in from - 1 .. n /\ 1 \in 1 .. n + 1 /\ to \in 1 - 1 .. n
  <2> HIDE DEF n
  <2> QED BY <1>1
<1>4. IsSequence(SubSeq(e.items, from, n)) /\ IsSequence(SubSeq(e.items, 1, to))
  <2> HIDE DEF from, to
  <2> QED BY <1>1, <1>3, PartIsList
<1> HIDE DEF from, to, n
<1> QED BY <1>2, <1>4, ListOfIsEvent, OneEvent

\* A stage that changes each item on its own.
LEMMA EachEvents ==
  ASSUME NEW e, IsEvent(e), NEW t, t = [k \in DOMAIN e.items |-> t[k]]
  PROVE  AreEvents(<<ListOf(e, t)>>)
BY MappedIsSeq, ListOfIsEvent, OneEvent DEF IsEvent

LEMMA RenameEvents == ASSUME NEW st, NEW e, IsEvent(e) PROVE AreEvents(Rename(st, e))
<1> DEFINE t == [k \in DOMAIN e.items |-> Renamed(e.items[k], st.old, st.new, st.drop_missing)]
<1>1. Rename(st, e) = <<ListOf(e, t)>>
  BY Zenon DEF Rename, Each
<1>2. t = [k \in DOMAIN e.items |-> t[k]]
  OBVIOUS
<1> HIDE DEF t
<1> QED BY <1>1, <1>2, EachEvents

LEMMA FillEvents == ASSUME NEW st, NEW e, IsEvent(e) PROVE AreEvents(Fill(st, e))
<1> DEFINE t == [k \in DOMAIN e.items |-> Filled(e.items[k], st.field, st.default)]
<1>1. Fill(st, e) = <<ListOf(e, t)>>
  BY Zenon DEF Fill, Each
<1>2. t = [k \in DOMAIN e.items |-> t[k]]
  OBVIOUS
<1> HIDE DEF t
<1> QED BY <1>1, <1>2, EachEvents

LEMMA UniqueEvents == ASSUME NEW st, NEW e, IsEvent(e) PROVE AreEvents(Unique(st, e))
BY FirstsIsSeq, ListOfIsEvent, OneEvent DEF Unique, IsEvent

LEMMA AggregateEvents == ASSUME NEW st, NEW e, IsEvent(e) PROVE AreEvents(Aggregate(st, e))
<1> DEFINE firsts == Firsts(e.items, st.by)
           t == [k \in DOMAIN firsts |-> GroupRow(e.items, st.by, Field(firsts[k], st.by), st.field)]
<1>1. Aggregate(st, e) = <<IF e.list THEN ListOf(e, t) ELSE e>>
  BY DEF Aggregate
<1>2. IsSequence(firsts)
  BY FirstsIsSeq DEF IsEvent
<1>3. t = [k \in DOMAIN firsts |-> t[k]]
  OBVIOUS
<1> HIDE DEF t, firsts
<1> QED BY <1>1, <1>2, <1>3, MappedIsSeq, ListOfIsEvent, OneEvent

LEMMA ChunkEvents ==
  ASSUME NEW st, st.token_budget \in Nat, st.token_budget > 0 \/ st.size \in Nat \ {0}, NEW e, IsEvent(e)
  PROVE  AreEvents(Chunk(st, e))
<1> DEFINE chunks == Split(st, e.items)
           t == [k \in DOMAIN chunks |-> ListOf(e, chunks[k])]
<1>1. Chunk(st, e) = IF ~ e.list \/ e.items = <<>> THEN <<e>> ELSE t
  BY DEF Chunk
<1>2. IsSequence(chunks) /\ \A k \in DOMAIN chunks : IsSequence(chunks[k])
  BY PackedIsSeq, CutIsSeq DEF Split, IsEvent
<1> HIDE DEF chunks
<1>3. t = [k \in DOMAIN chunks |-> t[k]] /\ DOMAIN t = DOMAIN chunks
      /\ \A k \in DOMAIN t : t[k] = ListOf(e, chunks[k])
  OBVIOUS
<1> HIDE DEF t
<1>4. \A k \in DOMAIN t : IsEvent(t[k])
  BY <1>2, <1>3, ListOfIsEvent
<1>5. AreEvents(t)
  BY <1>2, <1>3, <1>4, MappedIsSeq DEF AreEvents
<1> QED BY <1>1, <1>5, OneEvent

LEMMA FlattenEvents == ASSUME NEW e, IsEvent(e) PROVE AreEvents(Flatten(e))
<1> DEFINE t == [k \in DOMAIN e.items |-> [e EXCEPT !.list = FALSE, !.items = <<e.items[k]>>]]
<1>1. Flatten(e) = IF e.list THEN t ELSE <<e>>
  BY DEF Flatten
<1>2. t = [k \in DOMAIN e.items |-> t[k]] /\ DOMAIN t = DOMAIN e.items
  OBVIOUS
<1>3. ASSUME NEW k \in DOMAIN t PROVE IsEvent(t[k])
  <2> DEFINE r == [e EXCEPT !.list = FALSE, !.items = <<e.items[k]>>]
  <2>1. t[k] = r
    BY <1>2, <1>3
  <2>2. "items" \in DOMAIN r /\ r.items = <<e.items[k]>>
    BY DEF IsEvent
  <2> HIDE DEF r
  <2> QED BY <2>1, <2>2, OneIsList DEF IsEvent
<1> HIDE DEF t
<1>4. AreEvents(t)
  BY <1>2, <1>3, MappedIsSeq DEF AreEvents, IsEvent
<1> QED BY <1>1, <1>4, OneEvent

\* A stage without a memory makes events of an event.
LEMMA StageEvents ==
  ASSUME NEW st, IsStage(st), st.kind # "dedupe", NEW e, IsEvent(e)
  PROVE  AreEvents(Stateless(st, e))
BY SelectEvents, FilterEvents, SortEvents, LimitEvents, RenameEvents, FillEvents, UniqueEvents, AggregateEvents,
   ChunkEvents, FlattenEvents DEF IsStage, Stateless

LEMMA MoreEvents ==
  ASSUME NEW events, AreEvents(events), NEW more, AreEvents(more)
  PROVE  AreEvents(events \o more)
BY ConcatIsList DEF AreEvents

LEMMA EventAppended ==
  ASSUME NEW events, AreEvents(events), NEW e, IsEvent(e)
  PROVE  AreEvents(Append(events, e))
BY AppendIsList DEF AreEvents

\* One event through one stage.
LEMMA ThroughKeeps ==
  ASSUME NEW st, IsStage(st), NEW run, IsRun(run), NEW e, IsEvent(e)
  PROVE  IsRun(Through(st, run, e))
<1>0. DOMAIN run = {"events", "seen", "raised"} /\ AreEvents(run.events)
  BY DEF RunSoFar, IsRun
<1>1. CASE run.raised
  BY <1>1 DEF Through
<1>2. CASE ~ run.raised /\ st.kind = "dedupe"
  <2> DEFINE m == Marked(st, run.seen, e.items)
             events == IF m.fresh = <<>> THEN run.events ELSE Append(run.events, ListOf(e, m.fresh))
  <2>1. IsSequence(m.fresh)
    BY FreshIsSeq DEF IsEvent
  <2>2. Through(st, run, e) = [run EXCEPT !.seen = m.seen, !.events = events]
    BY <1>0, <1>2 DEF Through
  <2> HIDE DEF m
  <2>3. AreEvents(events)
    BY <1>0, <2>1, ListOfIsEvent, EventAppended
  <2> HIDE DEF events
  <2> QED BY <1>0, <2>2, <2>3 DEF RunSoFar, IsRun
<1>3. CASE ~ run.raised /\ st.kind # "dedupe" /\ Through(st, run, e) = [run EXCEPT !.raised = TRUE]
  BY <1>0, <1>3 DEF RunSoFar, IsRun
<1>4. CASE ~ run.raised /\ st.kind # "dedupe" /\ Through(st, run, e) = [run EXCEPT !.events = @ \o Stateless(st, e)]
  <2>1. AreEvents(run.events \o Stateless(st, e))
    BY <1>0, <1>4, StageEvents, MoreEvents
  <2> QED BY <1>0, <1>4, <2>1 DEF RunSoFar, IsRun
<1> QED BY <1>1, <1>2, <1>3, <1>4 DEF Through

LEMMA StageRunKeeps ==
  ASSUME NEW st, IsStage(st), NEW run, IsRun(run)
  PROVE  IsRun(StageRun(run, st))
<1> DEFINE base == [run EXCEPT !.events = <<>>]
<1>1. AreEvents(run.events) /\ RunSoFar(st, 0, base)
  BY NoEvents DEF RunSoFar, IsRun
<1>2. Len(run.events) \in Nat /\ \A n \in 1 .. Len(run.events) : IsEvent(run.events[n])
  BY <1>1, ListFacts DEF AreEvents
<1>3. \A x : \A n \in 1 .. Len(run.events) : RunSoFar(st, n - 1, x) => RunSoFar(st, n, Through(st, x, run.events[n]))
  BY <1>2, ThroughKeeps DEF RunSoFar
<1> HIDE DEF base
<1>4. RunSoFar(st, Len(run.events), Streaming!Looped(st, base, run.events))
  BY <1>1, <1>2, <1>3, Streaming!FoldKeeps
<1> QED BY <1>4, Zenon DEF RunSoFar, base, StageRun, Streaming!Looped, Streaming!Folded, Folded

\* A job's stages make events of a poll, whatever its memory holds.
LEMMA RunMakesEvents ==
  ASSUME NEW chain, IsSequence(chain), \A k \in DOMAIN chain : IsStage(chain[k]), NEW memory, NEW e, IsEvent(e)
  PROVE  AreEvents(Run(chain, memory, e).events)
<1> DEFINE base == [events |-> <<e>>, seen |-> memory, raised |-> FALSE]
           done == Chaining!Looped(chain, base, chain)
<1>1. Len(chain) \in Nat /\ RunSoFar(chain, 0, base) /\ DOMAIN chain = 1 .. Len(chain)
  BY ListFacts, OneEvent DEF RunSoFar, IsRun
<1>2. ASSUME NEW x, NEW n \in 1 .. Len(chain), RunSoFar(chain, n - 1, x) PROVE RunSoFar(chain, n, StageAfter(chain, x, chain[n]))
  <2>1. IsStage(chain[n]) /\ IsRun(x)
    BY <1>1, <1>2 DEF RunSoFar, IsRun
  <2>2. IsRun(StageRun(x, chain[n]))
    BY <2>1, StageRunKeeps
  <2> QED BY <2>2 DEF RunSoFar, IsRun, StageAfter
<1> HIDE DEF base
<1>3. RunSoFar(chain, Len(chain), done)
  BY <1>1, <1>2, Chaining!FoldKeeps
<1>4. done = Folded(StageRun, base, chain)
  BY Zenon DEF StageAfter, Chaining!Looped, Chaining!Folded, Folded
<1> HIDE DEF done
<1>5. Run(chain, memory, e) = IF done.raised THEN [done EXCEPT !.events = <<>>] ELSE done
  BY <1>4, Zenon DEF Run, base
<1>6. AreEvents([done EXCEPT !.events = <<>>].events)
  BY <1>3, NoEvents DEF RunSoFar, IsRun
<1> QED BY <1>3, <1>5, <1>6 DEF RunSoFar, IsRun

-----------------------------------------------------------------------------
(* The rows of a sweep *)

\* the rows after some of those of a term, and after some of the terms
RowAfter(p, out, row) == AddedRow(out, row)
RowsAfter(p, out, list) == AddedRows(out, list)
RowsSoFar(p, n, out) ==
  IsSequence(out) /\ p.first \subseteq IdsOf(out) /\ \A m \in 1 .. n : p.list[m].id \in IdsOf(out)
TermsSoFar(terms, n, out) == IsSequence(out) /\ \A m \in 1 .. n : IdsOf(terms[m]) \subseteq IdsOf(out)
Adding == INSTANCE FoldProofs WITH Op <- RowAfter, Good <- RowsSoFar
Combining == INSTANCE FoldProofs WITH Op <- RowsAfter, Good <- TermsSoFar

LEMMA RowIsAdded ==
  ASSUME NEW out, IsSequence(out), NEW row
  PROVE  LET more == AddedRow(out, row) IN IsSequence(more) /\ IdsOf(out) \cup {row.id} \subseteq IdsOf(more)
<1>1. CASE row.id \in IdsOf(out)
  BY <1>1 DEF AddedRow
<1>2. CASE row.id \notin IdsOf(out)
  <2> DEFINE S == {out[k] : k \in DOMAIN out} \cup {row}
             more == Append(out, row)
  <2>1. out \in Seq({out[k] : k \in DOMAIN out})
    BY DEF IsSequence
  <2>2. out \in Seq(S) /\ row \in S
    BY <2>1, SeqMonotonic
  <2> HIDE DEF S
  <2>3. /\ DOMAIN out = 1 .. Len(out) /\ DOMAIN more = 1 .. Len(out) + 1 /\ Len(out) \in Nat
        /\ \A k \in DOMAIN out : more[k] = out[k]
        /\ more[Len(out) + 1] = row
    BY <2>2, AppendedJob
  <2>4. IsSequence(more) /\ AddedRow(out, row) = more
    BY <1>2, AppendIsList DEF AddedRow
  <2> HIDE DEF more
  <2>5. \A k \in DOMAIN out : k \in DOMAIN more /\ more[k].id = out[k].id
    BY <2>3
  <2>6. Len(out) + 1 \in DOMAIN more /\ more[Len(out) + 1].id = row.id
    BY <2>3
  <2> QED BY <2>4, <2>5, <2>6 DEF IdsOf
<1> QED BY <1>1, <1>2

LEMMA TermIsAdded ==
  ASSUME NEW out, IsSequence(out), NEW list, IsSequence(list)
  PROVE  LET more == AddedRows(out, list) IN IsSequence(more) /\ IdsOf(out) \cup IdsOf(list) \subseteq IdsOf(more)
<1> DEFINE p == [first |-> IdsOf(out), list |-> list]
           more == Adding!Looped(p, out, list)
<1>1. Len(list) \in Nat /\ DOMAIN list = 1 .. Len(list) /\ p.first = IdsOf(out) /\ p.list = list
  BY ListFacts
<1> HIDE DEF p
<1>2. RowsSoFar(p, 0, out)
  BY <1>1 DEF RowsSoFar
<1>3. ASSUME NEW x, NEW n \in 1 .. Len(list), RowsSoFar(p, n - 1, x) PROVE RowsSoFar(p, n, RowAfter(p, x, list[n]))
  <2>1. IsSequence(x) /\ p.first \subseteq IdsOf(x) /\ \A m \in 1 .. n - 1 : list[m].id \in IdsOf(x)
    BY <1>1, <1>3 DEF RowsSoFar
  <2>2. IsSequence(AddedRow(x, list[n])) /\ IdsOf(x) \cup {list[n].id} \subseteq IdsOf(AddedRow(x, list[n]))
    BY <2>1, RowIsAdded
  <2>3. \A m \in 1 .. n : m = n \/ m \in 1 .. n - 1
    BY <1>1
  <2> QED BY <1>1, <2>1, <2>2, <2>3 DEF RowsSoFar, RowAfter
<1>4. RowsSoFar(p, Len(list), more)
  <2> HIDE DEF more
  <2> QED BY <1>1, <1>2, <1>3, Adding!FoldKeeps DEF more
<1>5. more = AddedRows(out, list)
  BY Zenon DEF RowAfter, AddedRows, Adding!Looped, Adding!Folded, Folded
<1> HIDE DEF more
<1>6. IsSequence(more) /\ IdsOf(out) \subseteq IdsOf(more) /\ \A m \in 1 .. Len(list) : list[m].id \in IdsOf(more)
  BY <1>1, <1>4 DEF RowsSoFar
<1>7. IdsOf(list) \subseteq IdsOf(more)
  <2>1. IdsOf(list) = {list[m].id : m \in 1 .. Len(list)}
    BY <1>1 DEF IdsOf
  <2> QED BY <1>6, <2>1
<1> QED BY <1>5, <1>6, <1>7

\* Every product a term found has a row.
LEMMA TermsAreAdded ==
  ASSUME NEW terms, IsSequence(terms), \A k \in DOMAIN terms : IsSequence(terms[k])
  PROVE  LET all == Combined(terms) IN IsSequence(all) /\ \A k \in DOMAIN terms : IdsOf(terms[k]) \subseteq IdsOf(all)
<1> DEFINE all == Combining!Looped(terms, <<>>, terms)
<1>1. Len(terms) \in Nat /\ DOMAIN terms = 1 .. Len(terms) /\ TermsSoFar(terms, 0, <<>>)
  BY ListFacts, EmptyIsList DEF TermsSoFar
<1>2. ASSUME NEW x, NEW n \in 1 .. Len(terms), TermsSoFar(terms, n - 1, x)
      PROVE  TermsSoFar(terms, n, RowsAfter(terms, x, terms[n]))
  <2>1. IsSequence(x) /\ IsSequence(terms[n]) /\ \A m \in 1 .. n - 1 : IdsOf(terms[m]) \subseteq IdsOf(x)
    BY <1>1, <1>2 DEF TermsSoFar
  <2>2. /\ IsSequence(AddedRows(x, terms[n]))
        /\ IdsOf(x) \cup IdsOf(terms[n]) \subseteq IdsOf(AddedRows(x, terms[n]))
    BY <2>1, TermIsAdded
  <2>3. \A m \in 1 .. n : m = n \/ m \in 1 .. n - 1
    BY <1>1
  <2> QED BY <2>1, <2>2, <2>3 DEF TermsSoFar, RowsAfter
<1>3. TermsSoFar(terms, Len(terms), all)
  BY <1>1, <1>2, Combining!FoldKeeps
<1>4. all = Combined(terms)
  BY Zenon DEF RowsAfter, Combined, Combining!Looped, Combining!Folded, Folded
<1> HIDE DEF all
<1> QED BY <1>1, <1>3, <1>4 DEF TermsSoFar

LEMMA FoundIsSeq ==
  ASSUME NEW met \in Seq(Seq(Products) \cup {Bare, NoPage})
  PROVE  IsSequence(Found(Rendered(met)))
<1> DEFINE pg == Rendered(met)
           good == {k \in DOMAIN met : met[k] \notin {NoPage, Bare}}
<1>1. pg \in {Bare, NoPage} \/ pg \in Seq(Products)
  <2>1. CASE good = {}
    BY <2>1 DEF Rendered
  <2>2. CASE good # {}
    <3>1. good \subseteq Nat
      OBVIOUS
    <3>2. \E k \in good : \A m \in good : k <= m
      <4> HIDE DEF good
      <4> QED BY <2>2, <3>1, Loop!LeastOfNat
    <3> DEFINE first == CHOOSE k \in good : \A m \in good : k <= m
    <3>3. first \in good
      <4> HIDE DEF good
      <4> QED BY <3>2
    <3>4. pg = met[first]
      BY <2>2 DEF Rendered
    <3> HIDE DEF first, pg
    <3> QED BY <3>3, <3>4
  <2> QED BY <2>1, <2>2
<1> HIDE DEF pg
<1>2. CASE pg \in {NoPage, Bare}
  BY <1>2, EmptyIsList DEF Found, pg
<1>3. CASE pg \notin {NoPage, Bare}
  <2> DEFINE to == IF Len(pg) < MaxResults THEN Len(pg) ELSE MaxResults
  <2>1. pg \in Seq(Products) /\ IsSequence(pg) /\ Len(pg) \in Nat
    BY <1>1, <1>3, SeqIsList
  <2>2. 1 \in 1 .. Len(pg) + 1 /\ to \in 1 - 1 .. Len(pg)
    BY <2>1, MarketAssumption DEF MarketAssumption
  <2>3. Found(pg) = SubSeq(pg, 1, to)
    BY <1>3 DEF Found
  <2> HIDE DEF to
  <2>4. IsSequence(Found(pg))
    BY <2>1, <2>2, <2>3, PartIsList
  <2> QED BY <2>4 DEF pg
<1> QED BY <1>2, <1>3

LEMMA SweepRowsAre ==
  ASSUME NEW pages \in Searches, NEW detailed
  PROVE  /\ IsSequence(SweepRows(pages, detailed))
         /\ \A k \in DOMAIN pages : ToSet(Found(Rendered(pages[k]))) \subseteq IdsOf(SweepRows(pages, detailed))
<1> DEFINE terms == Results(pages, detailed)
           found(k) == Found(Rendered(pages[k]))
<1>1. pages \in Seq(Seq(Seq(Products) \cup {Bare, NoPage}))
  BY MarketAssumption DEF MarketAssumption
<1>2. IsSequence(pages)
  BY <1>1, SeqIsList
<1>3. DOMAIN terms = DOMAIN pages /\ terms = [k \in DOMAIN pages |-> terms[k]]
  BY DEF Results
<1>4. ASSUME NEW k \in DOMAIN pages
      PROVE  IsSequence(terms[k]) /\ IdsOf(terms[k]) = ToSet(found(k))
  <2> DEFINE list == TermRows(found(k), detailed[k])
             at == found(k)
  <2>1. pages[k] \in Seq(Seq(Products) \cup {Bare, NoPage})
    BY <1>1
  <2>2. IsSequence(at)
    BY <2>1, FoundIsSeq
  <2>3. terms[k] = list
    BY DEF Results
  <2> HIDE DEF at, terms
  <2>4. list = [i \in DOMAIN at |-> list[i]] /\ \A i \in DOMAIN at : list[i].id = at[i]
    BY DEF TermRows, at
  <2> HIDE DEF list
  <2>5. IsSequence(list)
    BY <2>2, <2>4, MappedIsSeq
  <2>6. IdsOf(list) = ToSet(at)
    BY <2>4 DEF IdsOf, ToSet
  <2> QED BY <2>3, <2>5, <2>6 DEF at
<1> HIDE DEF terms, found
<1>5. IsSequence(terms)
  BY <1>2, <1>3, MappedIsSeq
<1>6. IsSequence(Combined(terms)) /\ \A k \in DOMAIN terms : IdsOf(terms[k]) \subseteq IdsOf(Combined(terms))
  BY <1>3, <1>4, <1>5, TermsAreAdded
<1>7. SweepRows(pages, detailed) = Combined(terms)
  BY DEF SweepRows, terms
<1> QED BY <1>3, <1>4, <1>6, <1>7 DEF found

-----------------------------------------------------------------------------
(* Details fetched *)

\* What was detailed within the TTL is marked, and skipped by a sweep under way.
MarketInv ==
  /\ surfaced \in [Products -> Nat] /\ surfacedDisk \in [Products -> Nat] /\ enriched \in [Products -> Nat]
  /\ \A p \in Products : enriched[p] <= Ttl
  /\ lost \in BOOLEAN
  /\ ~ lost => \A p \in Products :
       /\ surfaced[p] <= enriched[p]
       /\ sweep # NoSweep /\ enriched[p] < Ttl => p \in sweep

LEMMA TtlIsNat == Ttl \in Nat \ {0}
BY MarketAssumption DEF MarketAssumption

LEMMA AgedBy ==
  ASSUME NEW ages \in [Products -> Nat]
  PROVE  /\ Aged(ages) \in [Products -> Nat]
         /\ \A p \in Products : Aged(ages)[p] = IF ages[p] < Ttl THEN ages[p] + 1 ELSE Ttl
BY TtlIsNat DEF Aged

LEMMA MarketKeeps == MarketInv /\ [MarketNext]_marketVars => MarketInv'
<1> SUFFICES ASSUME MarketInv, [MarketNext]_marketVars PROVE MarketInv'
  OBVIOUS
<1>1. CASE SweepBegin
  BY <1>1, TtlIsNat DEF SweepBegin, MarketInv, FreshIds
<1>2. CASE MarketTick
  <2>1. /\ surfaced' \in [Products -> Nat] /\ surfacedDisk' \in [Products -> Nat] /\ enriched' \in [Products -> Nat]
        /\ \A p \in Products : /\ surfaced'[p] = IF surfaced[p] < Ttl THEN surfaced[p] + 1 ELSE Ttl
                               /\ enriched'[p] = IF enriched[p] < Ttl THEN enriched[p] + 1 ELSE Ttl
    BY <1>2, AgedBy DEF MarketTick, MarketInv
  <2> QED BY <1>2, <2>1, TtlIsNat DEF MarketTick, MarketInv
<1>3. CASE MarketRestart
  BY <1>3 DEF MarketRestart, MarketInv
<1>4. ASSUME NEW pages \in Searches, NEW detailed \in [DOMAIN pages -> SUBSET Products], SweepEnd(pages, detailed)
      PROVE  MarketInv'
  <2> DEFINE ids == IdsOf(SweepRows(pages, detailed))
  <2>1. /\ sweep' = NoSweep /\ lost' = lost
        /\ enriched' = [p \in Products |-> IF p \in fetched' THEN 0 ELSE enriched[p]]
        /\ surfaced' = [p \in Products |-> IF p \in ids THEN 0 ELSE surfaced[p]]
        /\ surfacedDisk' \in {surfaced', surfacedDisk}
    BY <1>4 DEF SweepEnd, MarkSeen
  <2>2. fetched' \subseteq ids
    <3>1. \A k \in DOMAIN pages : detailed[k] \subseteq ids
      BY <1>4, SweepRowsAre DEF SweepEnd
    <3> HIDE DEF ids
    <3> QED BY <1>4, <3>1 DEF SweepEnd
  <2> HIDE DEF ids
  <2> QED BY <2>1, <2>2, TtlIsNat DEF MarketInv
<1>5. CASE UNCHANGED marketVars
  BY <1>5 DEF marketVars, MarketInv
<1> QED BY <1>1, <1>2, <1>3, <1>4, <1>5 DEF MarketNext

\* For any products and searches no detail page is fetched again within its TTL, unless a
\* restart lost marks (poll/marketplace.py: _SeenStore).
THEOREM DetailsOncePerTtl == MarketSpec => DetailsFetchedOncePerTtl
<1>1. MarketInit => MarketInv
  <2>1. Ttl \in Nat /\ Expired \in [Products -> Nat] /\ \A p \in Products : Expired[p] = Ttl
    BY TtlIsNat DEF Expired
  <2> SUFFICES ASSUME MarketInit PROVE MarketInv
    OBVIOUS
  <2>2. /\ surfaced = Expired /\ surfacedDisk = Expired /\ enriched = Expired
        /\ sweep = NoSweep /\ lost \in BOOLEAN
    BY DEF MarketInit
  <2>3. \A p \in Products : surfaced[p] <= enriched[p] /\ enriched[p] <= Ttl
    BY <2>1, <2>2
  <2> QED BY <2>1, <2>2, <2>3, Zenon DEF MarketInv
<1>2. ASSUME MarketInv, [MarketNext]_marketVars, sweep # NoSweep, sweep' = NoSweep, ~ lost, NEW p \in fetched'
      PROVE  enriched[p] = Ttl
  <2>1. CASE MarketRestart
    BY <1>2, <2>1 DEF MarketRestart
  <2>2. ASSUME NEW pages \in Searches, NEW detailed \in [DOMAIN pages -> SUBSET Products], SweepEnd(pages, detailed)
        PROVE  enriched[p] = Ttl
    <3>1. PICK k \in DOMAIN pages : p \in detailed[k]
      BY <1>2, <2>2 DEF SweepEnd
    <3>2. p \in Products /\ p \notin sweep
      BY <2>2, <3>1 DEF SweepEnd
    <3> QED BY <1>2, <3>2, TtlIsNat DEF MarketInv
  <2> QED BY <1>2, <2>1, <2>2 DEF MarketNext, SweepBegin, MarketTick, marketVars
<1>3. MarketInv /\ [MarketNext]_marketVars =>
        ((sweep # NoSweep /\ sweep' = NoSweep /\ ~lost) => \A p \in fetched' : enriched[p] = Ttl)
  BY <1>2
<1>4. MarketInv /\ [MarketNext]_marketVars =>
        [(sweep # NoSweep /\ sweep' = NoSweep /\ ~lost) => \A p \in fetched' : enriched[p] = Ttl]_marketVars
  BY <1>3
<1> QED BY <1>1, <1>4, MarketKeeps, PTL DEF MarketSpec, DetailsFetchedOncePerTtl

\* In a job flow, too, details are fetched once per TTL.
THEOREM FlowDetails == Spec => DetailsFetchedOncePerTtl
<1>1. Init => MarketInit
  BY DEF Init
<1>2. [Next]_vars => [MarketNext]_marketVars
  BY FlowSteps
<1>3. Spec => MarketSpec
  BY <1>1, <1>2, PTL DEF Spec, MarketSpec
<1> QED BY <1>3, DetailsOncePerTtl, PTL

-----------------------------------------------------------------------------
(* The flow: nothing is lost *)

\* A changed poll delivers what the job's stages make of it.
LEMMA PollDelivers ==
  ASSUME NEW j \in Jobs, IsJob(conf[j]), NEW list, NEW items, IsSequence(items), Poll(j, list, items)
  PROVE  \E F : SinkNext(F)
<1> DEFINE polled == [job |-> j, ts |-> polls, list |-> list, items |-> items]
           run == Run(conf[j].stages, seen[j], polled)
           F == {run.events[k] : k \in DOMAIN run.events}
<1>1. IsSequence(conf[j].stages) /\ \A k \in DOMAIN conf[j].stages : IsStage(conf[j].stages[k])
  BY DEF IsJob, IsSequence
<1>2. IsEvent(polled)
  BY DEF IsEvent
<1>3. Deliver(j, run)
  BY DEF Poll
<1> HIDE DEF polled
<1>4. AreEvents(run.events)
  BY <1>1, <1>2, RunMakesEvents
<1> HIDE DEF run
<1>5. run.events \in Seq(F)
  BY <1>4 DEF AreEvents, IsSequence
<1> HIDE DEF F
<1>6. SinkNext(F)
  BY <1>3, <1>5 DEF SinkNext
<1> QED BY <1>6

\* A step of the flow is one of the pipeline, for some events.
LEMMA FlowDelivers ==
  ASSUME FlowInv, [Next]_vars
  PROVE  \E F : [SinkNext(F)]_pipeVars
<1>0. \A j \in Jobs : IsJob(conf[j])
  BY StartsAssumption DEF FlowInv
<1>1. ASSUME UNCHANGED pipeVars PROVE \E F : [SinkNext(F)]_pipeVars
  <2>1. [SinkNext({})]_pipeVars
    BY <1>1
  <2> QED BY <2>1
<1>2. ASSUME NEW j \in Jobs, NEW list, NEW items, IsSequence(items), Poll(j, list, items)
      PROVE  \E F : [SinkNext(F)]_pipeVars
  BY <1>0, <1>2, PollDelivers
<1>3. CASE PipeNext
  <2>1. ASSUME NEW j \in Jobs, PostOK(j) \/ PostRefused(j) \/ PostFails(j) \/ CsvAppend(j) \/ NextEvent(j)
        PROVE  SinkNext({})
    BY <2>1 DEF SinkNext
  <2>2. ASSUME NEW j \in Jobs, NEW items \in conf[j].brings, Poll(j, TRUE, items)
        PROVE  \E F : [SinkNext(F)]_pipeVars
    BY <1>0, <1>2, <2>2 DEF IsJob, IsSequence
  <2>3. ASSUME NEW b \in {"up", "down", "refuses"}, BackendTurns(b) PROVE SinkNext({})
    BY <2>3 DEF SinkNext
  <2> QED BY <1>3, <2>1, <2>2, <2>3 DEF PipeNext
<1>4. ASSUME NEW j \in Of(PageKinds), PageStep(j) PROVE \E F : [SinkNext(F)]_pipeVars
  <2>1. j \in Jobs /\ IsSequence(<<[page |-> FingerprintOf(conf[j].kind)]>>)
    BY OneIsList DEF Of
  <2> QED BY <1>1, <1>2, <1>4, <2>1 DEF PageStep
<1>5. ASSUME NEW j \in Of({"market"}), MarketStep(j) PROVE \E F : [SinkNext(F)]_pipeVars
  <2>1. j \in Jobs /\ \A pages \in Searches : \A detailed : IsSequence(SweepRows(pages, detailed))
    BY SweepRowsAre DEF Of
  <2> QED BY <1>1, <1>2, <1>5, <2>1 DEF MarketStep
<1>6. ASSUME NEW j \in Of({"harvest"}), HarvestStep(j) PROVE \E F : [SinkNext(F)]_pipeVars
  <2>1. ASSUME NEW titles \in Titles PROVE IsSequence([k \in DOMAIN titles |-> [id |-> titles[k]]])
    <3> DEFINE t == [k \in DOMAIN titles |-> [id |-> titles[k]]]
    <3>1. IsSequence(titles)
      BY StartsAssumption, SeqIsList DEF StartsAssumption
    <3>2. t = [k \in DOMAIN titles |-> t[k]]
      OBVIOUS
    <3> HIDE DEF t
    <3>3. IsSequence(t)
      BY <3>1, <3>2, MappedIsSeq
    <3> QED BY <3>3 DEF t
  <2>2. j \in Jobs
    BY DEF Of
  <2> QED BY <1>1, <1>2, <1>6, <2>1, <2>2 DEF HarvestStep
<1>7. CASE Crash
  <2>1. SinkNext({})
    BY <1>7 DEF Crash, SinkNext
  <2> QED BY <2>1
<1>8. CASE UNCHANGED vars
  BY <1>1, <1>8 DEF vars
<1> QED BY <1>3, <1>4, <1>5, <1>6, <1>7, <1>8 DEF Next

\* There is a set of events of which SinkInv is true; deliveries make it larger.
Accounted == \E E : SinkInv(E)

LEMMA FlowAccounts == FlowInv /\ Accounted /\ [Next]_vars => Accounted'
<1> SUFFICES ASSUME FlowInv, Accounted, [Next]_vars PROVE Accounted'
  OBVIOUS
<1>1. PICK E : SinkInv(E)
  BY DEF Accounted
<1>2. PICK F : [SinkNext(F)]_pipeVars
  BY FlowDelivers
<1>3. SinkInv(E \cup F)
  BY <1>1, SinkGrows
<1>4. [SinkNext(E \cup F)]_pipeVars
  <2>1. Seq(F) \subseteq Seq(E \cup F)
    BY SeqMonotonic
  <2> QED BY <1>2, <2>1 DEF SinkNext
<1>5. SinkInv(E \cup F)'
  BY <1>3, <1>4, SinkStep
<1> QED BY <1>5 DEF Accounted

\* For any jobs, stages and bounds of the spool, whatever the sources bring, over outages, races
\* of the jobs for one file, evictions and restarts: what reached the sinks is settled, spooled,
\* or still with a webhook (jobs/pipeline.py, jobs/sinks.py: WebhookSink).
THEOREM NothingIsLost == Spec => []NothingLost
<1>1. Init => Accounted
  <2> SUFFICES ASSUME Init PROVE Accounted
    OBVIOUS
  <2>1. PipeInit /\ \A j \in Jobs : conf[j].web \in BOOLEAN
    BY StartsAssumption DEF Init, IsJob
  <2>2. SinkInv({})
    BY <2>1, SinkStarts
  <2> QED BY <2>2 DEF Accounted
<1>2. Accounted => NothingLost
  BY DEF Accounted, SinkInv, NothingLost, Stays, Safe, Pending, ToSet
<1> QED BY <1>1, <1>2, FlowAccounts, FlowHolds, PTL DEF Spec
=============================================================================
