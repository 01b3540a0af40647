--------------------------- MODULE ScrapeAppProofs ---------------------------
(***************************************************************************)
(* Proofs about ScrapeApp, for any requests, callers, configurations,      *)
(* pages, cache size and mirrors: an etag goes only with content of the    *)
(* html it names, a scrape fails only at the end of its strategy's chain,  *)
(* and the paid search is asked last.  And about the FetchBackends         *)
(* under it, for any getters, hosts, callers and recipes: no slot of a     *)
(* host's semaphore is lost or invented, and no page outlives its render.  *)
(***************************************************************************)
EXTENDS ScrapeApp, FetchBackends, FiniteSetTheorems, FunctionTheorems, SequenceTheorems, TLAPS

-----------------------------------------------------------------------------
(* Orders *)

StrictOrder(S, order) ==
  /\ \A x \in S : <<x, x>> \notin order
  /\ \A x, y, z \in S : <<x, y>> \in order /\ <<y, z>> \in order => <<x, z>> \in order
  /\ \A x, y \in S : x = y \/ <<x, y>> \in order \/ <<y, x>> \in order

\* Of two members the one that comes before the other has fewer before it.
LEMMA BeforeGrows ==
  ASSUME NEW S, IsFiniteSet(S), NEW order, StrictOrder(S, order),
         NEW x \in S, NEW y \in S, <<x, y>> \in order
  PROVE  /\ Cardinality(Before(x, S, order)) \in Nat /\ Cardinality(Before(y, S, order)) \in Nat
         /\ Cardinality(Before(x, S, order)) < Cardinality(Before(y, S, order))
<1> DEFINE X == Before(x, S, order)  Y == Before(y, S, order)
<1>1. X \subseteq Y /\ X # Y /\ Y \subseteq S
  BY DEF StrictOrder, Before
<1>2. IsFiniteSet(X) /\ IsFiniteSet(Y)
  BY <1>1, FS_Subset
<1>3. Cardinality(X) <= Cardinality(Y) /\ Cardinality(X) # Cardinality(Y)
  BY <1>1, <1>2, FS_Subset
<1>4. Cardinality(X) \in Nat /\ Cardinality(Y) \in Nat
  BY <1>2, FS_CardinalityType
<1> HIDE DEF X, Y
<1> QED BY <1>3, <1>4 DEF X, Y

\* A strict total order puts every member of a finite set in its place, and nothing else.
LEMMA InOrderIsOnto ==
  ASSUME NEW S, IsFiniteSet(S), NEW order, StrictOrder(S, order)
  PROVE  /\ InOrder(S, order) \in Seq(S)
         /\ Len(InOrder(S, order)) = Cardinality(S)
         /\ \A x \in S : \E i \in 1..Cardinality(S) : InOrder(S, order)[i] = x
<1> DEFINE n == Cardinality(S)
           rank == [x \in S |-> Cardinality(Before(x, S, order)) + 1]
<1>1. n \in Nat /\ IsFiniteSet(1..n) /\ Cardinality(1..n) = n
  BY FS_CardinalityType, FS_Interval
<1>2. ASSUME NEW x \in S
      PROVE  Cardinality(Before(x, S, order)) \in Nat /\ Cardinality(Before(x, S, order)) < n
  <2>1. Before(x, S, order) \subseteq S /\ Before(x, S, order) # S
    BY DEF StrictOrder, Before
  <2>2. IsFiniteSet(Before(x, S, order)) /\ Cardinality(Before(x, S, order)) <= n
    BY <2>1, FS_Subset
  <2>3. Cardinality(Before(x, S, order)) # n
    BY <2>1, FS_Subset
  <2>4. Cardinality(Before(x, S, order)) \in Nat
    BY <2>2, FS_CardinalityType
  <2> HIDE DEF n
  <2> QED BY <1>1, <2>2, <2>3, <2>4
<1>3. rank \in [S -> 1..n]
  <2> HIDE DEF n
  <2> QED BY <1>1, <1>2
<1>4. ASSUME NEW x \in S, NEW y \in S, rank[x] = rank[y] PROVE x = y
  <2>1. Cardinality(Before(x, S, order)) = Cardinality(Before(y, S, order))
    BY <1>2, <1>4
  <2>2. <<x, y>> \notin order
    BY <2>1, BeforeGrows
  <2>3. <<y, x>> \notin order
    BY <2>1, BeforeGrows
  <2> QED BY <2>2, <2>3 DEF StrictOrder
<1>5. rank \in Injection(S, 1..n)
  BY <1>3, <1>4, Fun_IsInj
<1>6. rank \in Surjection(S, 1..n)
  BY <1>1, <1>5, FS_Injection
<1>7. \A i \in 1..n : \E x \in S : rank[x] = i
  BY <1>6 DEF Surjection
<1>8. ASSUME NEW i \in 1..n PROVE InOrder(S, order)[i] \in S /\ rank[InOrder(S, order)[i]] = i
  <2>1. PICK x \in S : rank[x] = i
    BY <1>7
  <2>2. Cardinality(Before(x, S, order)) = i - 1
    BY <2>1, <1>2
  <2>3. InOrder(S, order)[i] \in S /\ Cardinality(Before(InOrder(S, order)[i], S, order)) = i - 1
    BY <2>2 DEF InOrder
  <2> QED BY <2>3, <1>1
<1>9. DOMAIN InOrder(S, order) = 1..n /\ InOrder(S, order) \in [1..n -> S]
  BY <1>8 DEF InOrder
<1>10. InOrder(S, order) \in Seq(S) /\ Len(InOrder(S, order)) = n
  <2> HIDE DEF n
  <2> QED BY <1>1, <1>9
<1>11. ASSUME NEW x \in S PROVE \E i \in 1..n : InOrder(S, order)[i] = x
  <2>1. rank[x] \in 1..n
    BY <1>3
  <2>2. InOrder(S, order)[rank[x]] = x
    BY <2>1, <1>4, <1>8
  <2> QED BY <2>1, <2>2
<1> QED BY <1>10, <1>11

-----------------------------------------------------------------------------
(* ScrapeCache and the rows on disk: every operation shows only entries it was given *)

LEMMA EntryFound ==
  ASSUME NEW S, NEW c \in Seq(S), NEW key, Holds(c, key)
  PROVE  /\ Where(c, key) \in 1..Len(c) /\ Entry(c, key) \in S
         /\ Entry(c, key).key = key
BY DEF Holds, Where, Entry

LEMMA WithoutType ==
  ASSUME NEW S, NEW c \in Seq(S), NEW key
  PROVE  Without(c, key) \in Seq(S)
BY EntryFound DEF Without, RemoveAt

LEMMA TouchedType ==
  ASSUME NEW S, NEW c \in Seq(S), NEW key
  PROVE  Touched(c, key) \in Seq(S)
BY EntryFound, WithoutType DEF Touched

LEMMA GotType ==
  ASSUME NEW S, NEW c \in Seq(S), NEW key
  PROVE  Got(c, key) \in S \cup {NoEntry} /\ (Got(c, key) # NoEntry => Got(c, key).key = key)
BY EntryFound DEF Got

LEMMA PutType ==
  ASSUME NEW S, NEW c \in Seq(S), NEW e \in S
  PROVE  Put(c, e) \in Seq(S)
<1>1. Append(Without(c, e.key), e) \in Seq(S) /\ Append(Without(c, e.key), e) # <<>>
  BY WithoutType, AppendProperties
<1> QED BY <1>1, HeadTailProperties DEF Put

LEMMA LoadedType ==
  ASSUME NEW S, NEW rows \in Seq(S)
  PROVE  Loaded(rows) \in Seq(S)
<1>1. CASE Len(rows) <= MaxEntries
  BY <1>1 DEF Loaded
<1>2. CASE ~(Len(rows) <= MaxEntries)
  <2>1. MaxEntries \in Nat /\ Len(rows) \in Nat
    BY ScrapeAssumption DEF ScrapeAssumption
  <2>2. \A i \in Len(rows) - MaxEntries + 1 .. Len(rows) : rows[i] \in S
    BY <1>2, <2>1
  <2>3. SubSeq(rows, Len(rows) - MaxEntries + 1, Len(rows)) \in Seq(S)
    BY <2>1, <2>2, SubSeqProperties
  <2> QED BY <1>2, <2>3 DEF Loaded
<1> QED BY <1>1, <1>2

LEMMA FlushedType ==
  ASSUME NEW S, NEW c \in Seq(S), disk \in Seq(S)
  PROVE  Flushed(c) \in Seq(S)
<1> DEFINE new == {i \in DOMAIN c : ~Holds(disk, c[i].key)}
           places == InOrder(new, Ascending(new))
           kept == [i \in DOMAIN disk |-> IF Holds(c, disk[i].key) THEN Entry(c, disk[i].key) ELSE disk[i]]
           added == [i \in DOMAIN places |-> c[places[i]]]
<1>1. new \subseteq 1..Len(c) /\ IsFiniteSet(new)
  <2>1. Len(c) \in Nat /\ DOMAIN c = 1..Len(c)
    OBVIOUS
  <2>2. new \subseteq 1..Len(c)
    BY <2>1
  <2>3. IsFiniteSet(1..Len(c))
    BY <2>1, FS_Interval
  <2> HIDE DEF new
  <2> QED BY <2>2, <2>3, FS_Subset
<1>2. StrictOrder(new, Ascending(new))
  BY <1>1 DEF StrictOrder, Ascending
<1>3. places \in Seq(new)
  BY <1>1, <1>2, InOrderIsOnto
<1>4. \A i \in DOMAIN places : c[places[i]] \in S
  BY <1>1, <1>3
<1>5. added \in Seq(S)
  <2> HIDE DEF places, new
  <2> QED BY <1>3, <1>4
<1>6. kept \in Seq(S)
  BY EntryFound
<1> QED BY <1>5, <1>6, ConcatProperties DEF Flushed

-----------------------------------------------------------------------------
(* Etags *)

ModeNames == {"links", "auto", "article", "record", "multi"}
Strategies == {"auto", "http", "obscura", "browser", "sitemap_news", "rss"}
Legs == {"direct", "http", "obscura", "browser", "sitemap", "feed"}
Payloads == [from : {"page", "feed"}, v : Bodies]
Tags == {doc.html : doc \in Sites} \cup {NoTag}
Entries == [key : ModeNames, payload : Payloads, tag : Tags, of : {"answer", "shell", "torn"}]
ReqType == [pc : Legs \cup {"idle", "failed"}, mode : ModeNames, strat : Strategies,
            cached : Entries \cup {NoEntry}, body : Bodies \cup {NoBody}, thin : BOOLEAN,
            tag : Tags, torn : BOOLEAN, tried : SUBSET Legs]

\* an entry no 304 turns into another html's content
Sound == {e \in Entries : Confirmed(e)}

\* a request whose etag names what it has, or what it waits for, unless that was torn
Vouched(q) ==
  /\ q.cached \in Sound \cup {NoEntry}
  /\ q.tag # NoTag /\ q.body = NoBody /\ ~q.torn => site.html = q.tag
  /\ q.tag # NoTag /\ q.body # NoBody /\ (q.body.data = NoData \/ ~q.torn) => q.body.html = q.tag

\* no leg of the fetch has its turn when there is a body
Unfetched(q) == q.pc \in {"direct", "http", "obscura", "browser"} => q.body = NoBody

SoundInv ==
  /\ conf \in Confs /\ site \in Sites
  /\ stat \in [Backends -> [s : Nat, n : Nat]]
  /\ cache \in Seq(Sound) /\ disk \in Seq(Sound)
  /\ req \in [Requests -> ReqType]
  /\ \A r \in Requests : Vouched(req[r]) /\ Unfetched(req[r])

\* A page, what an HTTP answer has of it, and nothing at all are told apart by their fields.
LEMMA PageTypes ==
  /\ Sites \subseteq Bodies
  /\ \A doc \in Sites :
       /\ doc.html \in Tags /\ doc.html # NoTag /\ doc.data # NoData /\ doc # NoBody
       /\ Served(doc.html) \in Bodies /\ Served(doc.html) # NoBody
       /\ Served(doc.html).html = doc.html /\ Served(doc.html).data = NoData
  /\ \A body \in Bodies : body = Served(body.html) \/ (body \in Sites /\ body.data # NoData)
<1>1. \A doc \in Sites : doc.html \in Nat \ {0} /\ doc.data \in Nat \ {0}
  <2>1. Sites \subseteq [html : Nat \ {0}, data : Nat \ {0}]
    BY ScrapeAssumption, Zenon DEF ScrapeAssumption
  <2> QED BY <2>1
<1>2. \A html : Served(html).html = html /\ Served(html).data = NoData
  BY DEF Served
<1>3. \A doc \in Sites : doc # NoBody /\ doc.data # NoData /\ doc.html # NoTag
  BY <1>1, <1>2 DEF NoBody, NoData, NoTag
<1>4. ASSUME NEW doc \in Sites PROVE Served(doc.html) \in Bodies /\ Served(doc.html) # NoBody
  <2>1. Served(doc.html).html = doc.html /\ NoBody.html = NoTag
    BY <1>2 DEF NoBody
  <2>2. Served(doc.html) \in Bodies
    BY Zenon DEF Bodies
  <2> QED BY <1>3, <2>1, <2>2
<1>5. ASSUME NEW body \in Bodies PROVE body = Served(body.html) \/ (body \in Sites /\ body.data # NoData)
  <2>1. CASE body \in Sites
    BY <2>1, <1>3
  <2>2. CASE body \in {Served(doc.html) : doc \in Sites}
    <3>1. PICK doc \in Sites : body = Served(doc.html)
      BY <2>2
    <3> QED BY <1>2, <3>1
  <2> QED BY <2>1, <2>2 DEF Bodies
<1>6. Sites \subseteq Bodies /\ \A doc \in Sites : doc.html \in Tags
  BY DEF Bodies, Tags
<1> QED BY <1>2, <1>3, <1>4, <1>5, <1>6

LEMMA ConfPages == \A c \in Confs : c.pages \subseteq Sites
<1>1. Confs \subseteq [override : {"auto", "http", "obscura", "browser", "sitemap_news", "rss"},
                      rss : BOOLEAN, browser : BOOLEAN, learn : BOOLEAN,
                      pages : SUBSET Sites, asks : [Requests -> SUBSET (Modes \X Renders)]]
  BY ScrapeAssumption, Zenon DEF ScrapeAssumption
<1> QED BY <1>1

\* What _finalize_links writes is confirmed when the answer itself would be.
LEMMA FinalizeSound ==
  ASSUME SoundInv, NEW mode, NEW p, NEW tag, NEW of,
         [key |-> mode, payload |-> p, tag |-> tag, of |-> of] \in Sound
  PROVE  Finalize(mode, p, tag, of) \in Seq(Sound)
<1> DEFINE prior == Got(cache, mode)
           same == prior # NoEntry /\ Fp(mode, prior.payload) = Fp(mode, p)
           keeps == same /\ tag = NoTag
           new == [key |-> mode, payload |-> p, tag |-> tag, of |-> of]
           e == [key |-> mode, payload |-> IF same THEN prior.payload ELSE p,
                 tag |-> IF keeps THEN prior.tag ELSE tag, of |-> IF keeps THEN prior.of ELSE of]
<1>1. prior \in Sound \cup {NoEntry} /\ (prior # NoEntry => prior.key = mode)
  BY GotType DEF SoundInv
<1>2. Touched(cache, mode) \in Seq(Sound)
  BY TouchedType DEF SoundInv
<1>3. CASE keeps
  <2>1. prior \in Entries /\ prior \in Sound /\ prior.key = mode
    BY <1>1, <1>3 DEF Sound
  <2>2. e = prior
    BY <1>3, <2>1 DEF Entries
  <2> QED BY <2>1, <2>2, <1>2, PutType DEF Finalize
<1>4. CASE same /\ tag # NoTag
  <2>1. prior \in Entries /\ Fp(mode, prior.payload) = Fp(mode, p)
    BY <1>1, <1>4 DEF Sound
  <2>2. e = [key |-> mode, payload |-> prior.payload, tag |-> tag, of |-> of]
    BY <1>4
  <2>3. new \in Entries /\ Confirmed(new)
    BY DEF Sound
  <2>4. e \in Entries
    BY <2>1, <2>2, <2>3 DEF Entries
  <2>5. prior.payload.from = p.from
    BY <2>1 DEF Fp
  <2>6. ResultFromCache(e) = ResultFromCache(new)
    BY <2>1, <2>2, <2>5 DEF ResultFromCache
  <2>7. e.key = new.key /\ e.tag = new.tag /\ e.of = new.of
    BY <2>2
  <2> HIDE DEF e, new
  <2>8. Confirmed(e)
    BY <2>3, <2>6, <2>7 DEF Confirmed
  <2>9. Put(Touched(cache, mode), e) \in Seq(Sound)
    <3>1. e \in Sound
      BY <2>4, <2>8 DEF Sound
    <3> QED BY <3>1, <1>2, PutType
  <2> QED BY <2>9 DEF Finalize, e
<1>5. CASE ~same
  <2>1. e = new
    BY <1>5
  <2> QED BY <2>1, <1>2, PutType DEF Finalize
<1> QED BY <1>3, <1>4, <1>5

\* The same for the entry every other mode writes.
LEMMA StoredSound ==
  ASSUME SoundInv, NEW mode, NEW p, NEW tag, NEW of,
         [key |-> mode, payload |-> p, tag |-> tag, of |-> of] \in Sound
  PROVE  Stored(mode, p, tag, of) \in Seq(Sound)
BY PutType DEF Stored, SoundInv

LEMMA TimesMonotone ==
  ASSUME NEW x \in Nat, NEW y \in Nat, NEW n \in Nat, n > 0
  PROVE  /\ x > y <=> x * n > y * n
         /\ x = y <=> x * n = y * n
OBVIOUS

\* Fractions compared by their cross products are compared transitively.
LEMMA CrossTransitive ==
  ASSUME NEW s1 \in Nat, NEW s2 \in Nat, NEW s3 \in Nat,
         NEW n1 \in Nat, NEW n2 \in Nat, NEW n3 \in Nat, n1 > 0, n2 > 0, n3 > 0,
         s1 * n2 >= s2 * n1, s2 * n3 >= s3 * n2
  PROVE  /\ s1 * n3 >= s3 * n1
         /\ s1 * n3 = s3 * n1 <=> s1 * n2 = s2 * n1 /\ s2 * n3 = s3 * n2
<1> DEFINE a == s1 * n2  b == s2 * n1  c == s2 * n3  d == s3 * n2  e == s1 * n3  f == s3 * n1
<1>1. a \in Nat /\ b \in Nat /\ c \in Nat /\ d \in Nat /\ e \in Nat /\ f \in Nat
  OBVIOUS
<1>2. a * n3 = e * n2 /\ b * n3 = c * n1 /\ d * n1 = f * n2
  OBVIOUS
<1>3. a >= b /\ c >= d
  OBVIOUS
<1> HIDE DEF a, b, c, d, e, f
<1>4. /\ a > b <=> a * n3 > b * n3
      /\ a = b <=> a * n3 = b * n3
      /\ c > d <=> c * n1 > d * n1
      /\ c = d <=> c * n1 = d * n1
      /\ e > f <=> e * n2 > f * n2
      /\ e = f <=> e * n2 = f * n2
  BY <1>1, TimesMonotone
<1> DEFINE a3 == a * n3  b3 == b * n3  c1 == c * n1  d1 == d * n1  e2 == e * n2  f2 == f * n2
<1>5. /\ a3 \in Nat /\ b3 \in Nat /\ c1 \in Nat /\ d1 \in Nat /\ e2 \in Nat /\ f2 \in Nat
      /\ a3 = e2 /\ b3 = c1 /\ d1 = f2
      /\ a > b <=> a3 > b3
      /\ a = b <=> a3 = b3
      /\ c > d <=> c1 > d1
      /\ c = d <=> c1 = d1
      /\ e > f <=> e2 > f2
      /\ e = f <=> e2 = f2
  BY <1>1, <1>2, <1>4
<1> HIDE DEF a3, b3, c1, d1, e2, f2
<1>6. e >= f /\ (e = f <=> a = b /\ c = d)
  BY <1>1, <1>3, <1>5
<1> QED BY <1>6 DEF a, b, c, d, e, f

\* Among the backends that were tried there is always one better than the others: success
\* rates are compared exactly, and ties end at the names.
LEMMA RecommendedIsKnown ==
  ASSUME stat \in [Backends -> [s : Nat, n : Nat]], Known # {}
  PROVE  Recommended \in Known
<1>1. \A b \in Known : stat[b].s \in Nat /\ stat[b].n \in Nat /\ stat[b].n > 0
  BY DEF Known
<1>2. \A a, b \in Known : a = b \/ Better(a, b) \/ Better(b, a)
  BY <1>1 DEF Better, Known, Backends, Rank
<1>3. ASSUME NEW a \in Known, NEW b \in Known, NEW c \in Known, Better(a, b), Better(b, c)
      PROVE  Better(a, c)
  <2> DEFINE ab == stat[a].s * stat[b].n  ba == stat[b].s * stat[a].n
             bc == stat[b].s * stat[c].n  cb == stat[c].s * stat[b].n
             ac == stat[a].s * stat[c].n  ca == stat[c].s * stat[a].n
  <2>1. /\ ab \in Nat /\ ba \in Nat /\ bc \in Nat /\ cb \in Nat /\ ac \in Nat /\ ca \in Nat
        /\ Rank[a] \in Nat /\ Rank[b] \in Nat /\ Rank[c] \in Nat
    BY <1>1 DEF Known, Backends, Rank
  <2>2. ab >= ba /\ bc >= cb
    BY <1>3, <2>1 DEF Better
  <2>3. ac >= ca /\ (ac = ca <=> ab = ba /\ bc = cb)
    <3> DEFINE sa == stat[a].s  na == stat[a].n  sb == stat[b].s  nb == stat[b].n
               sc == stat[c].s  nc == stat[c].n
    <3>1. /\ sa \in Nat /\ sb \in Nat /\ sc \in Nat /\ na \in Nat /\ nb \in Nat /\ nc \in Nat
          /\ na > 0 /\ nb > 0 /\ nc > 0
      BY <1>1
    <3>2. sa * nb >= sb * na /\ sb * nc >= sc * nb
      BY <2>2
    <3> HIDE DEF sa, na, sb, nb, sc, nc
    <3>3. sa * nc >= sc * na /\ (sa * nc = sc * na <=> sa * nb = sb * na /\ sb * nc = sc * nb)
      BY <3>1, <3>2, CrossTransitive
    <3> QED BY <3>3 DEF sa, na, sb, nb, sc, nc
  <2>4. /\ ab = ba => stat[a].n > stat[b].n \/ (stat[a].n = stat[b].n /\ Rank[a] < Rank[b])
        /\ bc = cb => stat[b].n > stat[c].n \/ (stat[b].n = stat[c].n /\ Rank[b] < Rank[c])
    BY <1>3, <2>1 DEF Better
  <2>5. ac > ca \/ (ac = ca /\ (stat[a].n > stat[c].n \/ (stat[a].n = stat[c].n /\ Rank[a] < Rank[c])))
    <3> HIDE DEF ab, ba, bc, cb, ac, ca
    <3> QED BY <1>1, <2>1, <2>3, <2>4
  <2> QED BY <2>5 DEF Better
<1>4. \E b \in Known : \A other \in Known \ {b} : Better(b, other)
  BY <1>2, <1>3 DEF Known, Backends
<1> QED BY <1>4 DEF Recommended

LEMMA StrategyType ==
  ASSUME SoundInv, NEW how \in Renders
  PROVE  Strategy(how) \in Strategies /\ conf.override \in Strategies
<1>1. conf.override \in Strategies /\ how \in Strategies
  BY ScrapeAssumption DEF ScrapeAssumption, SoundInv, Strategies
<1>2. Biased \in Strategies
  BY RecommendedIsKnown DEF SoundInv, Biased, Known, Backends, Strategies
<1> QED BY <1>1, <1>2 DEF Strategy

LEMMA AttemptType ==
  ASSUME SoundInv, NEW b \in Backends, NEW ok \in BOOLEAN
  PROVE  Attempt(b, ok) \in [Backends -> [s : Nat, n : Nat]]
BY DEF SoundInv, Attempt

\* A step that leaves configuration, site and disk alone and hands each request on
\* vouched for keeps the invariant.
LEMMA SoundKept ==
  ASSUME SoundInv, NEW r \in Requests, NEW q \in ReqType, Vouched(q), Unfetched(q),
         UNCHANGED <<conf, site, disk>>, cache' \in Seq(Sound),
         stat' \in [Backends -> [s : Nat, n : Nat]], req' = [req EXCEPT ![r] = q]
  PROVE  SoundInv'
<1>1. Sound' = Sound
  BY DEF Sound, Confirmed
<1>2. req' \in [Requests -> ReqType]
  BY DEF SoundInv
<1>3. ASSUME NEW k \in Requests PROVE Vouched(req[k])' /\ Unfetched(req[k])'
  <2>1. req'[k] = IF k = r THEN q ELSE req[k]
    BY DEF SoundInv
  <2>2. Vouched(req'[k]) /\ Unfetched(req'[k])
    BY <2>1 DEF SoundInv
  <2> QED BY <2>2, <1>1 DEF Vouched, Unfetched
<1> QED BY <1>1, <1>2, <1>3 DEF SoundInv

LEMMA FreshSound == Fresh \in ReqType /\ Vouched(Fresh) /\ Unfetched(Fresh)
BY DEF Fresh, ReqType, Vouched, Unfetched, ModeNames, Strategies, Tags

LEMMA ToSound ==
  ASSUME SoundInv, NEW q \in ReqType, Vouched(q), NEW leg \in Legs,
         q.body = NoBody \/ leg \in {"sitemap", "feed"}
  PROVE  To(q, leg) \in ReqType /\ Vouched(To(q, leg)) /\ Unfetched(To(q, leg))
<1>1. To(q, leg) \in ReqType
  BY DEF To, ReqType, Tags
<1>2. Vouched(To(q, leg))
  BY DEF To, Vouched, ReqType
<1>3. Unfetched(To(q, leg))
  BY DEF To, Unfetched, ReqType
<1> QED BY <1>1, <1>2, <1>3

LEMMA AnswerSound ==
  ASSUME SoundInv, NEW r \in Requests, NEW q \in ReqType, Vouched(q), q.body # NoBody, Answer(r, q),
         UNCHANGED <<conf, site, disk>>, stat' \in [Backends -> [s : Nat, n : Nat]]
  PROVE  SoundInv'
<1> DEFINE p == [from |-> "page", v |-> q.body]
           e == [key |-> q.mode, payload |-> p, tag |-> q.tag, of |-> Of(q)]
<1>1. /\ q.body \in Bodies /\ q.mode \in ModeNames /\ q.tag \in Tags /\ q.torn \in BOOLEAN
      /\ Of(q) \in {"answer", "shell", "torn"}
  BY DEF ReqType, Of
<1>2. e \in Entries
  BY <1>1 DEF Payloads, Entries
<1>3. ResultFromCache(e) = Fp(e.key, [from |-> "page", v |-> q.body])
  BY DEF ResultFromCache
<1>4. e.tag = q.tag /\ e.of = Of(q)
  OBVIOUS
<1> HIDE DEF e
<1>5. Confirmed(e)
  <2>1. CASE q.tag = NoTag
    BY <2>1, <1>4 DEF Confirmed
  <2>2. CASE q.tag # NoTag /\ q.body.data = NoData
    <3>1. e.of = "answer" /\ q.body = Served(q.tag)
      BY <2>2, <1>1, <1>4, PageTypes DEF Of, Vouched
    <3> QED BY <3>1, <1>3, <1>4 DEF Confirmed
  <2>3. CASE q.tag # NoTag /\ q.body.data # NoData /\ ~q.torn
    <3>1. q.body # Served(q.body.html)
      BY <2>3 DEF Served
    <3>2. e.of = "shell" /\ q.body \in Sites /\ q.body.html = e.tag
      BY <2>3, <3>1, <1>1, <1>4, PageTypes DEF Of, Vouched
    <3> DEFINE shown == Fp(e.key, [from |-> "page", v |-> q.body])
    <3>3. ResultFromCache(e) = shown
      BY <1>3
    <3>4. \E doc \in Sites : doc.html = e.tag /\ ResultFromCache(e) = Fp(e.key, [from |-> "page", v |-> doc])
      BY <3>2, <3>3
    <3> QED BY <3>2, <3>4 DEF Confirmed
  <2>4. CASE q.tag # NoTag /\ q.body.data # NoData /\ q.torn
    BY <2>4, <1>4 DEF Of, Confirmed
  <2> QED BY <2>1, <2>2, <2>3, <2>4
<1>6. [key |-> q.mode, payload |-> p, tag |-> q.tag, of |-> Of(q)] \in Sound
  BY <1>2, <1>5 DEF Sound, e
<1>7. cache' = Stored(q.mode, p, q.tag, Of(q)) \/ cache' = Finalize(q.mode, p, q.tag, Of(q))
  BY DEF Answer
<1> HIDE DEF p
<1>8. cache' \in Seq(Sound)
  BY <1>6, <1>7, StoredSound, FinalizeSound
<1>9. req' = [req EXCEPT ![r] = Fresh]
  BY DEF Answer
<1> QED BY <1>8, <1>9, FreshSound, SoundKept

LEMMA FailSound ==
  ASSUME SoundInv, NEW r \in Requests, NEW q \in ReqType, Fail(r, q),
         UNCHANGED <<conf, site, disk>>, stat' \in [Backends -> [s : Nat, n : Nat]]
  PROVE  SoundInv'
<1> DEFINE f == [Fresh EXCEPT !.pc = "failed", !.mode = q.mode, !.strat = q.strat, !.tried = q.tried]
<1>1. f \in ReqType /\ Vouched(f) /\ Unfetched(f)
  <2>1. q.mode \in ModeNames /\ q.strat \in Strategies /\ q.tried \in SUBSET Legs
    BY DEF ReqType
  <2>2. Fresh \in ReqType /\ Vouched(Fresh)
    BY FreshSound
  <2>3. f \in ReqType
    BY <2>1, <2>2 DEF ReqType
  <2>4. /\ f.cached = Fresh.cached /\ f.tag = Fresh.tag /\ f.body = Fresh.body
        /\ f.torn = Fresh.torn /\ f.pc = "failed"
    BY DEF Fresh
  <2> HIDE DEF f
  <2> QED BY <2>2, <2>3, <2>4 DEF Vouched, Unfetched
<1>2. req' = [req EXCEPT ![r] = f] /\ cache' \in Seq(Sound)
  BY DEF Fail, SoundInv
<1> HIDE DEF f
<1> QED BY <1>1, <1>2, SoundKept

LEMMA AfterFetchSound ==
  ASSUME SoundInv, NEW r \in Requests, NEW q \in ReqType, Vouched(q), AfterFetch(r, q),
         UNCHANGED <<conf, site, disk>>, stat' \in [Backends -> [s : Nat, n : Nat]]
  PROVE  SoundInv'
<1>1. CASE req' = [req EXCEPT ![r] = To(q, "sitemap")] /\ UNCHANGED cache
  BY <1>1, ToSound, SoundKept DEF Legs, SoundInv
<1>2. CASE MultiEnds(r, q)
  BY <1>2, FreshSound, SoundKept DEF MultiEnds, SoundInv
<1>3. CASE q.body # NoBody /\ Answer(r, q)
  BY <1>3, AnswerSound
<1>4. CASE Fail(r, q)
  BY <1>4, FailSound
<1> QED BY <1>1, <1>2, <1>3, <1>4 DEF AfterFetch

LEMMA BeginSound ==
  ASSUME SoundInv, NEW r \in Requests, BeginCooled(r) \/ Begin(r)
  PROVE  SoundInv'
<1>1. CASE BeginCooled(r)
  <2>1. PICK mode \in Modes : cache' = Touched(cache, mode)
    BY <1>1 DEF BeginCooled
  <2>2. cache' \in Seq(Sound)
    BY <2>1, TouchedType DEF SoundInv
  <2>3. req' = [req EXCEPT ![r] = Fresh] /\ UNCHANGED <<conf, site, disk, stat>>
    BY <1>1 DEF BeginCooled
  <2> QED BY <2>2, <2>3, FreshSound, SoundKept DEF SoundInv
<1>2. CASE Begin(r)
  <2>1. PICK mode \in Modes, how \in Renders, force \in BOOLEAN :
          LET uses == ~force /\ mode # "multi"
              s == IF mode = "multi" THEN (IF how # "auto" THEN how ELSE conf.override)
                   ELSE Strategy(how)
              q == [Fresh EXCEPT !.mode = mode, !.strat = s,
                                 !.cached = IF uses THEN Got(cache, mode) ELSE NoEntry] IN
          /\ <<mode, how>> \in conf.asks[r]
          /\ Ready(r)
          /\ cooldown = 0 \/ force \/ mode = "multi"
          /\ cache' = IF uses THEN Touched(cache, mode) ELSE cache
          /\ req' = [req EXCEPT ![r] = To(q, IF Direct(mode) THEN "direct" ELSE FirstLeg(s))]
          /\ UNCHANGED <<conf, site, disk, policy, stat>>
    BY <1>2 DEF Begin
  <2> DEFINE uses == ~force /\ mode # "multi"
             s == IF mode = "multi" THEN (IF how # "auto" THEN how ELSE conf.override)
                  ELSE Strategy(how)
             held == IF uses THEN Got(cache, mode) ELSE NoEntry
             q == [Fresh EXCEPT !.mode = mode, !.strat = s, !.cached = held]
             leg == IF Direct(mode) THEN "direct" ELSE FirstLeg(s)
  <2>2. cache' \in Seq(Sound)
    BY <2>1, TouchedType DEF SoundInv
  <2>3. s \in Strategies /\ leg \in Legs
    <3>1. s \in Strategies
      BY StrategyType, ScrapeAssumption DEF ScrapeAssumption, Strategies
    <3> HIDE DEF s
    <3> QED BY <3>1 DEF FirstLeg, Legs
  <2>4. Got(cache, mode) \in Sound \cup {NoEntry}
    BY GotType DEF SoundInv
  <2>5. q \in ReqType /\ Vouched(q) /\ q.body = NoBody
    <3>1. held \in Sound \cup {NoEntry} /\ held \in Entries \cup {NoEntry}
      BY <2>4 DEF Sound
    <3>2. mode \in ModeNames
      BY ScrapeAssumption DEF ScrapeAssumption, ModeNames
    <3> HIDE DEF held, s
    <3>4. q \in ReqType
      BY <3>1, <3>2, <2>3, FreshSound DEF ReqType
    <3>5. q.cached = held /\ q.tag = NoTag /\ q.body = NoBody
      BY DEF Fresh
    <3> HIDE DEF q
    <3> QED BY <3>1, <3>4, <3>5 DEF Vouched
  <2>6. req' = [req EXCEPT ![r] = To(q, leg)]
    BY <2>1
  <2> HIDE DEF q, leg
  <2>7. To(q, leg) \in ReqType /\ Vouched(To(q, leg)) /\ Unfetched(To(q, leg))
    BY <2>3, <2>5, ToSound
  <2> QED BY <2>1, <2>2, <2>6, <2>7, SoundKept DEF SoundInv
<1> QED BY <1>1, <1>2

\* The sitemap's and the feed's links carry no etag.
LEMMA FeedSound ==
  ASSUME SoundInv, NEW mode \in ModeNames
  PROVE  Finalize(mode, [from |-> "feed", v |-> site], NoTag, "answer") \in Seq(Sound)
<1> DEFINE e == [key |-> mode, payload |-> [from |-> "feed", v |-> site], tag |-> NoTag, of |-> "answer"]
<1>1. site \in Bodies
  BY PageTypes DEF SoundInv
<1>2. e \in Entries
  BY <1>1 DEF Entries, Payloads, Tags
<1>3. Confirmed(e)
  BY DEF Confirmed
<1>4. e \in Sound
  BY <1>2, <1>3 DEF Sound
<1> QED BY <1>4, FinalizeSound

LEMMA DirectSound ==
  ASSUME SoundInv, NEW r \in Requests, DirectAnswer(r)
  PROVE  SoundInv'
<1>1. UNCHANGED <<conf, site, disk, stat>>
  BY DEF DirectAnswer
<1>2. req[r] \in ReqType /\ Vouched(req[r]) /\ req[r].body = NoBody
  BY DEF SoundInv, DirectAnswer, At, Unfetched
<1>3. CASE /\ cache' = Finalize(req[r].mode, [from |-> "feed", v |-> site], NoTag, "answer")
           /\ req' = [req EXCEPT ![r] = Fresh]
  <2>1. cache' \in Seq(Sound)
    BY <1>2, <1>3, FeedSound DEF ReqType
  <2> QED BY <1>1, <1>3, <2>1, FreshSound, SoundKept DEF SoundInv
<1>4. CASE req' = [req EXCEPT ![r] = To(req[r], FirstLeg(req[r].strat))] /\ UNCHANGED cache
  <2>1. FirstLeg(req[r].strat) \in Legs
    BY DEF FirstLeg, Legs
  <2> DEFINE q == To(req[r], FirstLeg(req[r].strat))
  <2>2. q \in ReqType /\ Vouched(q) /\ Unfetched(q)
    BY <1>2, <2>1, ToSound
  <2> QED BY <1>1, <1>4, <2>2, SoundKept DEF SoundInv
<1> QED BY <1>3, <1>4 DEF DirectAnswer

LEMMA HttpSound ==
  ASSUME SoundInv, NEW r \in Requests,
         HttpNotModified(r) \/ HttpBody(r) \/ HttpThin(r) \/ HttpFails(r)
  PROVE  SoundInv'
<1> DEFINE StatOk == stat' \in [Backends -> [s : Nat, n : Nat]]
<1>1. /\ req[r] \in ReqType /\ Vouched(req[r]) /\ req[r].body = NoBody
      /\ cache \in Seq(Sound)
      /\ site \in Sites /\ site.html \in Tags /\ Served(site.html) \in Bodies
      /\ Served(site.html) # NoBody /\ Served(site.html).html = site.html
  BY PageTypes DEF SoundInv, Unfetched, HttpNotModified, HttpBody, HttpThin, HttpFails, At
<1>2. \A ok \in BOOLEAN : Attempt("http", ok) \in [Backends -> [s : Nat, n : Nat]]
  BY AttemptType DEF Backends
<1>3. CASE HttpNotModified(r)
  BY <1>1, <1>2, <1>3, FreshSound, SoundKept DEF HttpNotModified
<1>4. CASE HttpBody(r)
  <2> DEFINE q == [req[r] EXCEPT !.body = Served(site.html), !.tag = site.html]
  <2>1. q \in ReqType /\ Vouched(q)
    <3>1. q \in ReqType
      BY <1>1 DEF ReqType
    <3>2. q.cached = req[r].cached /\ q.tag = site.html /\ q.body = Served(site.html)
      BY <1>1 DEF ReqType
    <3> HIDE DEF q
    <3> QED BY <1>1, <3>1, <3>2 DEF Vouched
  <2>2. AfterFetch(r, q) /\ UNCHANGED <<conf, site, disk>> /\ StatOk
    BY <1>2, <1>4 DEF HttpBody
  <2> HIDE DEF q
  <2> QED BY <2>1, <2>2, AfterFetchSound
<1>5. CASE HttpThin(r)
  <2> DEFINE q == [req[r] EXCEPT !.body = Served(site.html), !.thin = TRUE, !.tag = site.html]
             on == [q EXCEPT !.body = NoBody, !.thin = FALSE]
  <2>1. q \in ReqType /\ Vouched(q) /\ q.tag = site.html
    <3>1. q \in ReqType
      BY <1>1 DEF ReqType
    <3>2. q.cached = req[r].cached /\ q.tag = site.html /\ q.body = Served(site.html)
      BY <1>1 DEF ReqType
    <3> HIDE DEF q
    <3> QED BY <1>1, <3>1, <3>2 DEF Vouched
  <2>2. on \in ReqType /\ Vouched(on) /\ on.body = NoBody
    <3> HIDE DEF q
    <3>1. on \in ReqType
      BY <2>1 DEF ReqType
    <3>2. on.cached = q.cached /\ on.tag = site.html /\ on.body = NoBody
      BY <2>1 DEF ReqType
    <3> HIDE DEF on
    <3> QED BY <2>1, <3>1, <3>2 DEF Vouched
  <2>3. UNCHANGED <<conf, site, disk>> /\ StatOk
    BY <1>2, <1>5 DEF HttpThin
  <2>4. AfterFetch(r, q) \/ (req' = [req EXCEPT ![r] = To(on, "obscura")] /\ UNCHANGED cache)
    BY <1>5 DEF HttpThin
  <2> HIDE DEF q, on
  <2>5. To(on, "obscura") \in ReqType /\ Vouched(To(on, "obscura")) /\ Unfetched(To(on, "obscura"))
    BY <2>2, ToSound DEF Legs
  <2> QED BY <1>1, <2>1, <2>3, <2>4, <2>5, AfterFetchSound, SoundKept
<1>6. CASE HttpFails(r)
  <2>1. UNCHANGED <<conf, site, disk>> /\ StatOk
    BY <1>2, <1>6 DEF HttpFails
  <2>2. PICK tag \in {NoTag, site.html} :
          LET q == [req[r] EXCEPT !.tag = tag] IN
          AfterFetch(r, q) \/ (req' = [req EXCEPT ![r] = To(q, "obscura")] /\ UNCHANGED cache)
    BY <1>6 DEF HttpFails
  <2> DEFINE q == [req[r] EXCEPT !.tag = tag]
  <2>3. tag \in Tags /\ tag \in {NoTag, site.html}
    BY <1>1 DEF Tags
  <2>4. q \in ReqType /\ q.cached = req[r].cached /\ q.body = NoBody /\ q.tag = tag
    BY <1>1, <2>3 DEF ReqType
  <2>5. AfterFetch(r, q) \/ (req' = [req EXCEPT ![r] = To(q, "obscura")] /\ UNCHANGED cache)
    BY <2>2
  <2> HIDE DEF q
  <2>6. Vouched(q)
    BY <1>1, <2>3, <2>4 DEF Vouched
  <2>7. To(q, "obscura") \in ReqType /\ Vouched(To(q, "obscura")) /\ Unfetched(To(q, "obscura"))
    BY <2>4, <2>6, ToSound DEF Legs
  <2> QED BY <1>1, <2>1, <2>4, <2>5, <2>6, <2>7, AfterFetchSound, SoundKept
<1> QED BY <1>3, <1>4, <1>5, <1>6

LEMMA RenderSound ==
  ASSUME SoundInv, NEW r \in Requests, NEW b \in {"obscura", "browser"},
         Rendered(r, b) \/ RenderFails(r, b)
  PROVE  SoundInv'
<1>1. /\ req[r] \in ReqType /\ Vouched(req[r])
      /\ req[r].body = NoBody /\ site \in Bodies /\ site # NoBody /\ site.data # NoData
  BY PageTypes DEF SoundInv, Unfetched, Rendered, RenderFails, At
<1>2. stat' \in [Backends -> [s : Nat, n : Nat]] /\ UNCHANGED <<conf, site, disk>>
  BY AttemptType DEF Rendered, RenderFails, SoundInv, Backends
<1>3. CASE Rendered(r, b)
  <2>1. PICK thin \in BOOLEAN : AfterFetch(r, [req[r] EXCEPT !.body = site, !.thin = thin])
    BY <1>3 DEF Rendered
  <2> DEFINE q == [req[r] EXCEPT !.body = site, !.thin = thin]
  <2>2. q \in ReqType
    BY <1>1 DEF ReqType
  <2>3. q.cached = req[r].cached /\ q.tag = req[r].tag /\ q.torn = req[r].torn /\ q.body = site
    BY <1>1 DEF ReqType
  <2>4. AfterFetch(r, q)
    BY <2>1
  <2> HIDE DEF q
  <2>5. Vouched(q)
    BY <1>1, <2>3 DEF Vouched
  <2> QED BY <1>2, <2>2, <2>4, <2>5, AfterFetchSound
<1>4. CASE RenderFails(r, b)
  <2> DEFINE q == [req[r] EXCEPT !.body = NoBody]
  <2>1. /\ q \in ReqType /\ q.cached = req[r].cached /\ q.tag = req[r].tag
        /\ q.torn = req[r].torn /\ q.body = NoBody
    BY <1>1 DEF ReqType
  <2>2. AfterFetch(r, q)
    BY <1>4 DEF RenderFails
  <2> HIDE DEF q
  <2>3. Vouched(q)
    BY <1>1, <2>1 DEF Vouched
  <2> QED BY <1>2, <2>1, <2>2, <2>3, AfterFetchSound
<1> QED BY <1>3, <1>4

LEMMA AltSound ==
  ASSUME SoundInv, NEW r \in Requests, AltAnswers(r) \/ AltFails(r)
  PROVE  SoundInv'
<1>1. req[r] \in ReqType /\ Vouched(req[r])
  BY DEF SoundInv
<1>2. stat' \in [Backends -> [s : Nat, n : Nat]] /\ UNCHANGED <<conf, site, disk>>
  BY DEF AltAnswers, AltFails, SoundInv
<1>3. CASE AltAnswers(r)
  <2>1. cache' \in Seq(Sound) /\ req' = [req EXCEPT ![r] = Fresh]
    BY <1>1, <1>3, FeedSound DEF AltAnswers, AltWins, ReqType
  <2> QED BY <1>2, <2>1, FreshSound, SoundKept
<1>4. CASE AltFails(r)
  <2>1. CASE req' = [req EXCEPT ![r] = To(req[r], "feed")] /\ UNCHANGED cache
    <3> DEFINE q == To(req[r], "feed")
    <3>1. q \in ReqType /\ Vouched(q) /\ Unfetched(q)
      BY <1>1, ToSound DEF Legs
    <3> QED BY <1>2, <2>1, <3>1, SoundKept DEF SoundInv
  <2>2. CASE req[r].body # NoBody /\ Answer(r, req[r])
    BY <1>1, <1>2, <2>2, AnswerSound
  <2>3. CASE Fail(r, req[r])
    BY <1>1, <1>2, <2>3, FailSound
  <2> QED BY <1>4, <2>1, <2>2, <2>3 DEF AltFails
<1> QED BY <1>3, <1>4

LEMMA LegSound ==
  ASSUME SoundInv, NEW r \in Requests, Leg(r)
  PROVE  SoundInv'
BY DirectSound, HttpSound, RenderSound, AltSound DEF Leg

LEMMA RestartSound ==
  ASSUME SoundInv, NEW rows \in Seq(Sound), Restart(rows)
  PROVE  SoundInv'
<1>1. Sound' = Sound
  BY DEF Restart, Sound, Confirmed
<1>2. disk' \in Seq(Sound) /\ cache' \in Seq(Sound)
  BY LoadedType DEF Restart
<1>3. req' \in [Requests -> ReqType] /\ \A r \in Requests : req'[r] = Fresh
  BY FreshSound DEF Restart
<1>4. \A r \in Requests : Vouched(req[r])' /\ Unfetched(req[r])'
  <2>1. Vouched(Fresh) /\ Unfetched(Fresh)
    BY FreshSound
  <2> QED BY <1>1, <1>3, <2>1 DEF Vouched, Unfetched, Restart
<1> QED BY <1>1, <1>2, <1>3, <1>4 DEF SoundInv, Restart

LEMMA TimeSound ==
  ASSUME SoundInv, PublishPage \/ Cool \/ Expire
  PROVE  SoundInv'
<1>1. CASE PublishPage
  <2>1. PICK doc \in conf.pages :
          /\ site' = doc
          /\ req' = [r \in Requests |->
                       IF Torn(req[r], doc.html) THEN [req[r] EXCEPT !.torn = TRUE] ELSE req[r]]
          /\ UNCHANGED <<conf, cache, disk, policy, stat>>
    BY <1>1 DEF PublishPage
  <2>2. site' \in Sites
    BY <2>1, ConfPages DEF SoundInv
  <2>3. ASSUME NEW r \in Requests PROVE req'[r] \in ReqType /\ Vouched(req[r])' /\ Unfetched(req[r])'
    <3>1. /\ req[r] \in ReqType /\ Vouched(req[r]) /\ Unfetched(req[r])
          /\ req'[r] = IF Torn(req[r], doc.html) THEN [req[r] EXCEPT !.torn = TRUE] ELSE req[r]
      BY <2>1 DEF SoundInv
    <3>2. CASE Torn(req[r], doc.html)
      <4> DEFINE q == [req[r] EXCEPT !.torn = TRUE]
      <4>1. /\ q \in ReqType /\ q.torn /\ q.cached = req[r].cached /\ q.body = req[r].body
            /\ q.pc = req[r].pc
        BY <3>1 DEF ReqType
      <4>2. req'[r] = q /\ q.body = NoBody
        BY <3>1, <3>2, <4>1 DEF Torn
      <4> HIDE DEF q
      <4> QED BY <3>1, <4>1, <4>2 DEF Vouched, Unfetched
    <3>3. CASE ~Torn(req[r], doc.html)
      BY <2>1, <3>1, <3>3 DEF Torn, Vouched, Unfetched
    <3> QED BY <3>2, <3>3
  <2>4. req' \in [Requests -> ReqType]
    BY <2>1, <2>3
  <2> QED BY <2>1, <2>2, <2>3, <2>4 DEF SoundInv
<1>2. CASE Cool
  BY <1>2 DEF Cool, SoundInv, Sound, Confirmed, Vouched, Unfetched
<1>3. CASE Expire
  <2>1. PICK i \in DOMAIN cache : cache' = Without(cache, cache[i].key) /\ UNCHANGED <<conf, site, disk, stat, req>>
    BY <1>3 DEF Expire
  <2>2. cache' \in Seq(Sound) /\ Sound' = Sound
    BY <2>1, WithoutType DEF SoundInv, Sound, Confirmed
  <2> QED BY <2>1, <2>2 DEF SoundInv, Vouched, Unfetched
<1> QED BY <1>1, <1>2, <1>3

LEMMA ServiceSound ==
  ASSUME SoundInv, [Next]_vars
  PROVE  SoundInv'
<1>1. CASE ServiceNext
  BY <1>1, BeginSound, LegSound, TimeSound DEF ServiceNext
<1>2. CASE Stop
  <2>1. Flushed(cache) \in Seq(Sound)
    BY FlushedType DEF SoundInv
  <2> QED BY <1>2, <2>1, RestartSound DEF Stop
<1>3. CASE Crash
  BY <1>3, RestartSound DEF Crash, SoundInv
<1>4. CASE UNCHANGED vars
  BY <1>4 DEF vars, SoundInv, Sound, Confirmed, Vouched, Unfetched
<1> QED BY <1>1, <1>2, <1>3, <1>4 DEF Next

LEMMA InitSound == Init => SoundInv
<1> SUFFICES ASSUME Init PROVE SoundInv
  OBVIOUS
<1>1. site \in Sites
  BY ConfPages DEF Init
<1>2. Fresh \in ReqType /\ Vouched(Fresh) /\ Unfetched(Fresh)
  BY FreshSound
<1>3. req \in [Requests -> ReqType] /\ \A r \in Requests : req[r] = Fresh
  BY <1>2 DEF Init
<1>4. stat \in [Backends -> [s : Nat, n : Nat]]
  BY DEF Init
<1> QED BY <1>1, <1>2, <1>3, <1>4 DEF Init, SoundInv

\* A step of the process is a step of the scrapes or leaves them alone.
LEMMA AppStep == [AppNext]_appVars => [Next]_vars
BY DEF AppNext, appVars, Next

\* Whatever is kept with an etag, in the cache, on disk or by a request on its way, is content of
\* the html that etag names, and a request that awaits a rendering has the etag of the html that
\* is to be rendered or is marked torn, through edits, flushes, stops, crashes and restarts.
THEOREM TagsStaySound == AppSpec => []SoundInv
<1>1. AppInit => SoundInv
  BY InitSound DEF AppInit
<1>2. SoundInv /\ [AppNext]_appVars => SoundInv'
  BY AppStep, ServiceSound
<1> QED BY <1>1, <1>2, PTL DEF AppSpec

\* An etag in the cache, on disk or in a request's hands is kept with content of the html it names,
\* for any number of requests, pages and entries, across restarts and the return of old pages.
THEOREM RevalidationHolds == AppSpec => []RevalidationIsSound
<1>1. SoundInv => RevalidationIsSound
  <2> SUFFICES ASSUME SoundInv PROVE RevalidationIsSound
    OBVIOUS
  <2>1. ASSUME NEW c \in {cache, disk}, NEW i \in DOMAIN c PROVE Confirmed(c[i])
    <3>1. c \in Seq(Sound)
      BY DEF SoundInv
    <3>2. c[i] \in Sound
      BY <3>1
    <3> QED BY <3>2 DEF Sound
  <2>2. ASSUME NEW r \in Requests, req[r].cached # NoEntry PROVE Confirmed(req[r].cached)
    BY <2>2 DEF SoundInv, Vouched, Sound
  <2> QED BY <2>1, <2>2 DEF RevalidationIsSound
<1> QED BY <1>1, TagsStaySound, PTL

-----------------------------------------------------------------------------
(* The chain of legs *)

Directs(q) == IF Direct(q.mode) THEN {"direct"} ELSE {}

\* what a request has tried by the time it stands where it stands
Climbed(q) ==
  /\ q.pc = "direct" => Direct(q.mode) /\ q.tried = {"direct"}
  /\ q.pc \in Backends =>
       /\ q.pc \in BackendsOf(q.strat)
       /\ q.tried = Directs(q) \cup {q.pc}
                      \cup (IF q.pc = "obscura" THEN BackendsOf(q.strat) ELSE {})
  /\ q.pc \in {"sitemap", "feed"} => q.mode \in {"links", "auto"} /\ (q.pc = "feed" => conf.rss)
  /\ q.pc \in {"sitemap", "feed"} /\ q.body = NoBody =>
       q.tried = Directs(q) \cup BackendsOf(q.strat) \cup {"sitemap", q.pc}
  /\ q.pc = "failed" => q.tried = Chain(q.mode, q.strat)

ClimbInv == \A r \in Requests : Climbed(req[r])

LEMMA ClimbKept ==
  ASSUME SoundInv, ClimbInv, NEW r \in Requests, NEW q, Climbed(q), UNCHANGED conf,
         req' = [req EXCEPT ![r] = q]
  PROVE  ClimbInv'
<1> SUFFICES ASSUME NEW k \in Requests PROVE Climbed(req[k])'
  BY DEF ClimbInv
<1>1. req'[k] = IF k = r THEN q ELSE req[k]
  BY DEF SoundInv
<1>2. Climbed(req'[k])
  BY <1>1 DEF ClimbInv
<1> QED BY <1>2 DEF Climbed, Directs, Direct, Chain

LEMMA FreshClimbed == Climbed(Fresh)
BY DEF Fresh, Climbed, Backends

\* What the end of the fetch needs: without a body, every backend of the strategy was asked.
LEMMA AfterFetchClimbs ==
  ASSUME SoundInv, ClimbInv, NEW r \in Requests, NEW q \in ReqType, AfterFetch(r, q), UNCHANGED conf,
         q.body = NoBody => q.tried = Directs(q) \cup BackendsOf(q.strat)
  PROVE  ClimbInv'
<1>1. CASE WantsAlt(q) /\ req' = [req EXCEPT ![r] = To(q, "sitemap")]
  <2>1. Climbed(To(q, "sitemap"))
    <3>1. /\ To(q, "sitemap").pc = "sitemap" /\ To(q, "sitemap").tried = q.tried \cup {"sitemap"}
          /\ To(q, "sitemap").mode = q.mode /\ To(q, "sitemap").strat = q.strat
          /\ To(q, "sitemap").body = q.body
      BY DEF To, ReqType
    <3>2. q.mode \in {"links", "auto"}
      BY <1>1 DEF WantsAlt
    <3> QED BY <3>1, <3>2 DEF Climbed, Directs, Backends
  <2> QED BY <1>1, <2>1, ClimbKept
<1>2. CASE req' = [req EXCEPT ![r] = Fresh]
  BY <1>2, FreshClimbed, ClimbKept
<1>3. CASE q.mode # "multi" /\ ~WantsAlt(q) /\ q.body = NoBody /\ Fail(r, q)
  <2> DEFINE f == [Fresh EXCEPT !.pc = "failed", !.mode = q.mode, !.strat = q.strat, !.tried = q.tried]
  <2>1. f.pc = "failed" /\ f.mode = q.mode /\ f.strat = q.strat /\ f.tried = q.tried
    BY DEF Fresh
  <2>2. req' = [req EXCEPT ![r] = f]
    BY <1>3 DEF Fail
  <2>3. q.mode \notin {"links", "auto"}
    BY <1>3 DEF WantsAlt
  <2> HIDE DEF f
  <2>4. Climbed(f)
    BY <1>3, <2>1, <2>3 DEF Climbed, Directs, Chain, Backends
  <2> QED BY <2>2, <2>4, ClimbKept
<1> QED BY <1>1, <1>2, <1>3 DEF AfterFetch, Answer, MultiEnds

LEMMA ToFields ==
  ASSUME NEW q \in ReqType, NEW leg
  PROVE  /\ To(q, leg).pc = leg /\ To(q, leg).tried = q.tried \cup {leg} /\ To(q, leg).mode = q.mode
         /\ To(q, leg).strat = q.strat /\ To(q, leg).body = q.body
BY DEF To, ReqType

\* A pinned or learned backend is the first leg, and without one HTTP is.
LEMMA FirstLegClimbs ==
  ASSUME NEW q \in ReqType, q.tried = Directs(q)
  PROVE  Climbed(To(q, FirstLeg(q.strat)))
<1>1. FirstLeg(q.strat) \in Backends /\ FirstLeg(q.strat) \in BackendsOf(q.strat)
  BY DEF FirstLeg, BackendsOf, Backends
<1>2. FirstLeg(q.strat) = "obscura" => BackendsOf(q.strat) = {"obscura"}
  BY DEF FirstLeg, BackendsOf, Backends
<1> QED BY <1>1, <1>2, ToFields DEF Climbed, Directs, Backends

LEMMA BeginClimbs ==
  ASSUME SoundInv, ClimbInv, NEW r \in Requests, BeginCooled(r) \/ Begin(r)
  PROVE  ClimbInv'
<1>1. CASE BeginCooled(r)
  BY <1>1, FreshClimbed, ClimbKept DEF BeginCooled
<1>2. CASE Begin(r)
  <2>1. PICK mode \in Modes, how \in Renders, force \in BOOLEAN :
          LET uses == ~force /\ mode # "multi"
              s == IF mode = "multi" THEN (IF how # "auto" THEN how ELSE conf.override)
                   ELSE Strategy(how)
              q == [Fresh EXCEPT !.mode = mode, !.strat = s,
                                 !.cached = IF uses THEN Got(cache, mode) ELSE NoEntry] IN
          /\ <<mode, how>> \in conf.asks[r]
          /\ Ready(r)
          /\ cooldown = 0 \/ force \/ mode = "multi"
          /\ cache' = IF uses THEN Touched(cache, mode) ELSE cache
          /\ req' = [req EXCEPT ![r] = To(q, IF Direct(mode) THEN "direct" ELSE FirstLeg(s))]
          /\ UNCHANGED <<conf, site, disk, policy, stat>>
    BY <1>2 DEF Begin
  <2> DEFINE s == IF mode = "multi" THEN (IF how # "auto" THEN how ELSE conf.override)
                  ELSE Strategy(how)
             held == IF ~force /\ mode # "multi" THEN Got(cache, mode) ELSE NoEntry
             q == [Fresh EXCEPT !.mode = mode, !.strat = s, !.cached = held]
             leg == IF Direct(mode) THEN "direct" ELSE FirstLeg(s)
  <2>2. req' = [req EXCEPT ![r] = To(q, leg)] /\ UNCHANGED conf
    BY <2>1
  <2>3. leg = IF Direct(q.mode) THEN "direct" ELSE FirstLeg(q.strat)
    BY DEF Fresh
  <2>4. /\ To(q, leg).pc = leg /\ To(q, leg).tried = {leg} /\ To(q, leg).strat = q.strat
        /\ To(q, leg).mode = q.mode
    <3> HIDE DEF s, held, leg
    <3> QED BY DEF To, Fresh
  <2> HIDE DEF q, leg
  <2>5. FirstLeg(q.strat) \in BackendsOf(q.strat) /\ FirstLeg(q.strat) \in Backends
    BY DEF FirstLeg, BackendsOf, Backends
  <2>6. FirstLeg(q.strat) = "obscura" => BackendsOf(q.strat) = {"obscura"}
    BY DEF FirstLeg, BackendsOf, Backends
  <2>7. Climbed(To(q, leg))
    BY <2>3, <2>4, <2>5, <2>6 DEF Climbed, Directs, Backends
  <2> QED BY <2>2, <2>7, ClimbKept
<1> QED BY <1>1, <1>2

\* Only a strategy without a backend of its own goes on from HTTP to the renderer.
LEMMA ToObscuraClimbs ==
  ASSUME NEW p \in ReqType, Climbed(p), p.pc = "http", p.strat # "http",
         NEW q \in ReqType, q.strat = p.strat, q.tried = p.tried, q.mode = p.mode
  PROVE  Climbed(To(q, "obscura"))
<1>1. BackendsOf(q.strat) = {"http", "obscura"} /\ p.tried = Directs(p) \cup {"http"}
  BY DEF Climbed, BackendsOf, Backends
<1>2. Directs(q) = Directs(p) /\ Directs(To(q, "obscura")) = Directs(q)
  BY ToFields DEF Directs
<1> QED BY <1>1, <1>2, ToFields DEF Climbed, Backends

LEMMA LegClimbs ==
  ASSUME SoundInv, ClimbInv, NEW r \in Requests, Leg(r)
  PROVE  ClimbInv'
<1>1. req[r] \in ReqType /\ Climbed(req[r]) /\ Unfetched(req[r]) /\ site \in Sites
  BY DEF SoundInv, ClimbInv
<1>2. /\ site \in Bodies /\ site # NoBody
      /\ site.html \in Tags /\ Served(site.html) \in Bodies /\ Served(site.html) # NoBody
  BY <1>1, PageTypes
<1>3. CASE DirectAnswer(r)
  <2>1. UNCHANGED conf /\ (req' = [req EXCEPT ![r] = Fresh] \/ req' = [req EXCEPT ![r] = To(req[r], FirstLeg(req[r].strat))])
    BY <1>3 DEF DirectAnswer
  <2>2. req[r].tried = Directs(req[r])
    BY <1>1, <1>3 DEF Climbed, DirectAnswer, At, Directs
  <2> QED BY <1>1, <2>1, <2>2, FreshClimbed, FirstLegClimbs, ClimbKept
<1>4. CASE HttpNotModified(r)
  BY <1>4, FreshClimbed, ClimbKept DEF HttpNotModified
<1>5. CASE HttpBody(r)
  <2> DEFINE q == [req[r] EXCEPT !.body = Served(site.html), !.tag = site.html]
  <2>1. q \in ReqType /\ q.body = Served(site.html) /\ AfterFetch(r, q) /\ UNCHANGED conf
    BY <1>1, <1>2, <1>5 DEF ReqType, HttpBody
  <2> HIDE DEF q
  <2> QED BY <1>2, <2>1, AfterFetchClimbs
<1>6. CASE HttpThin(r)
  <2> DEFINE q == [req[r] EXCEPT !.body = Served(site.html), !.thin = TRUE, !.tag = site.html]
             on == [q EXCEPT !.body = NoBody, !.thin = FALSE]
  <2>1. /\ q \in ReqType /\ q.body = Served(site.html)
        /\ q.strat = req[r].strat /\ q.tried = req[r].tried /\ q.mode = req[r].mode
    BY <1>1, <1>2 DEF ReqType
  <2>2. on \in ReqType /\ on.strat = req[r].strat /\ on.tried = req[r].tried /\ on.mode = req[r].mode
    <3> HIDE DEF q
    <3> QED BY <2>1 DEF ReqType
  <2>3. UNCHANGED conf /\ (AfterFetch(r, q) \/ (req[r].strat # "http" /\ req' = [req EXCEPT ![r] = To(on, "obscura")]))
    BY <1>6 DEF HttpThin
  <2>4. req[r].pc = "http"
    BY <1>6 DEF HttpThin, At
  <2> HIDE DEF q, on
  <2>5. req[r].strat # "http" => Climbed(To(on, "obscura"))
    BY <1>1, <2>2, <2>4, ToObscuraClimbs
  <2> QED BY <1>2, <2>1, <2>3, <2>5, AfterFetchClimbs, ClimbKept
<1>7. CASE HttpFails(r)
  <2>1. PICK tag \in {NoTag, site.html} :
          LET q == [req[r] EXCEPT !.tag = tag] IN
          \/ req[r].strat = "http" /\ AfterFetch(r, q)
          \/ req[r].strat # "http" /\ req' = [req EXCEPT ![r] = To(q, "obscura")]
    BY <1>7 DEF HttpFails
  <2> DEFINE q == [req[r] EXCEPT !.tag = tag]
  <2>2. q \in ReqType /\ q.strat = req[r].strat /\ q.tried = req[r].tried /\ q.mode = req[r].mode
    BY <1>1, <1>2 DEF ReqType, Tags
  <2>3. req[r].pc = "http" /\ UNCHANGED conf
    BY <1>7 DEF HttpFails, At
  <2>4. \/ req[r].strat = "http" /\ AfterFetch(r, q)
        \/ req[r].strat # "http" /\ req' = [req EXCEPT ![r] = To(q, "obscura")]
    BY <2>1
  <2> HIDE DEF q
  <2>5. req[r].strat # "http" => Climbed(To(q, "obscura"))
    BY <1>1, <2>2, <2>3, ToObscuraClimbs
  <2>6. req[r].strat = "http" => q.tried = Directs(q) \cup BackendsOf(q.strat)
    BY <1>1, <2>2, <2>3 DEF Climbed, Directs, BackendsOf, Backends
  <2> QED BY <2>2, <2>3, <2>4, <2>5, <2>6, AfterFetchClimbs, ClimbKept
<1>8. ASSUME NEW b \in {"obscura", "browser"}, Rendered(r, b)
      PROVE  ClimbInv'
  <2>1. PICK thin \in BOOLEAN : AfterFetch(r, [req[r] EXCEPT !.body = site, !.thin = thin])
    BY <1>8 DEF Rendered
  <2> DEFINE q == [req[r] EXCEPT !.body = site, !.thin = thin]
  <2>2. q \in ReqType /\ q.body = site /\ AfterFetch(r, q) /\ UNCHANGED conf
    BY <1>1, <1>2, <1>8, <2>1 DEF ReqType, Rendered
  <2> HIDE DEF q
  <2> QED BY <1>2, <2>2, AfterFetchClimbs
<1>9. ASSUME NEW b \in {"obscura", "browser"}, RenderFails(r, b)
      PROVE  ClimbInv'
  <2> DEFINE q == [req[r] EXCEPT !.body = NoBody]
  <2>1. q \in ReqType /\ q.strat = req[r].strat /\ q.tried = req[r].tried /\ q.mode = req[r].mode
    BY <1>1 DEF ReqType
  <2>2. AfterFetch(r, q) /\ UNCHANGED conf /\ req[r].pc = b
    BY <1>9 DEF RenderFails, At
  <2>3. BackendsOf(q.strat) = {"http", "obscura"} \/ BackendsOf(q.strat) = {q.strat}
    BY DEF BackendsOf
  <2> HIDE DEF q
  <2>4. q.tried = Directs(q) \cup BackendsOf(q.strat)
    BY <1>1, <2>1, <2>2, <2>3 DEF Climbed, Directs, Backends
  <2> QED BY <2>1, <2>2, <2>4, AfterFetchClimbs
<1>10. CASE AltAnswers(r)
  BY <1>10, FreshClimbed, ClimbKept DEF AltAnswers, AltWins
<1>11. CASE AltFails(r)
  <2>1. CASE /\ At(r, "sitemap") /\ AfterSitemap(r) = "feed"
             /\ req' = [req EXCEPT ![r] = To(req[r], "feed")]
    <3>1. Climbed(To(req[r], "feed"))
      <4>1. conf.rss
        BY <2>1 DEF AfterSitemap
      <4> QED BY <1>1, <2>1, <4>1, ToFields DEF Climbed, Directs, Backends, At
    <3> QED BY <1>11, <2>1, <3>1, ClimbKept DEF AltFails
  <2>2. CASE Answer(r, req[r])
    BY <1>11, <2>2, FreshClimbed, ClimbKept DEF AltFails, Answer
  <2>3. CASE /\ At(r, "feed") \/ (At(r, "sitemap") /\ AfterSitemap(r) = "none")
             /\ req[r].body = NoBody /\ Fail(r, req[r])
    <3> DEFINE f == [Fresh EXCEPT !.pc = "failed", !.mode = req[r].mode, !.strat = req[r].strat,
                                  !.tried = req[r].tried]
    <3>1. f.pc = "failed" /\ f.mode = req[r].mode /\ f.strat = req[r].strat /\ f.tried = req[r].tried
      BY DEF Fresh
    <3>2. req' = [req EXCEPT ![r] = f] /\ UNCHANGED conf
      BY <1>11, <2>3 DEF Fail, AltFails
    <3>6. conf.rss \in BOOLEAN
      BY ScrapeAssumption DEF ScrapeAssumption, SoundInv
    <3>3. /\ req[r].mode \in {"links", "auto"} /\ (req[r].pc = "feed") = conf.rss
          /\ req[r].pc \in {"sitemap", "feed"}
          /\ req[r].tried = Directs(req[r]) \cup BackendsOf(req[r].strat) \cup {"sitemap", req[r].pc}
      BY <1>1, <2>3, <3>6 DEF Climbed, At, AfterSitemap
    <3>4. req[r].tried = Chain(req[r].mode, req[r].strat)
      BY <3>3, <3>6 DEF Chain, Directs
    <3> HIDE DEF f
    <3>5. Climbed(f)
      BY <3>1, <3>4 DEF Climbed, Backends
    <3> QED BY <3>2, <3>5, ClimbKept
  <2> QED BY <1>11, <2>1, <2>2, <2>3 DEF AltFails
<1> QED BY <1>3, <1>4, <1>5, <1>6, <1>7, <1>8, <1>9, <1>10, <1>11 DEF Leg

LEMMA PublishClimbs ==
  ASSUME SoundInv, ClimbInv, PublishPage
  PROVE  ClimbInv'
<1> SUFFICES ASSUME NEW r \in Requests PROVE Climbed(req[r])'
  BY DEF ClimbInv
<1>1. req[r] \in ReqType /\ Climbed(req[r]) /\ UNCHANGED conf
  BY DEF SoundInv, ClimbInv, PublishPage
<1>2. req'[r] = [req[r] EXCEPT !.torn = TRUE] \/ req'[r] = req[r]
  BY DEF PublishPage
<1>3. /\ req'[r].pc = req[r].pc /\ req'[r].mode = req[r].mode /\ req'[r].strat = req[r].strat
      /\ req'[r].tried = req[r].tried /\ req'[r].body = req[r].body
  BY <1>1, <1>2 DEF ReqType
<1> QED BY <1>1, <1>3 DEF Climbed, Directs, Direct, Chain

\* For any override, pin, learned outcome and mode, a failed scrape has asked exactly the legs its
\* strategy has for the mode: no concurrent request, cooldown or new outcome lets it skip one.
THEOREM EscalationHolds == AppSpec => []EscalationComplete
<1>1. AppInit => ClimbInv
  BY FreshClimbed DEF AppInit, Init, ClimbInv
<1>2. ASSUME SoundInv, ClimbInv, [Next]_vars PROVE ClimbInv'
  <2>1. CASE ServiceNext
    BY <1>2, <2>1, BeginClimbs, LegClimbs, PublishClimbs
       DEF ServiceNext, Cool, Expire, ClimbInv, Climbed, Directs, Direct, Chain
  <2>2. CASE Stop \/ Crash
    <3>1. \A r \in Requests : req'[r] = Fresh
      BY <2>2 DEF Stop, Crash, Restart
    <3> QED BY <3>1 DEF ClimbInv, Climbed, Backends, Fresh
  <2>3. CASE UNCHANGED vars
    BY <1>2, <2>3 DEF vars, ClimbInv, Climbed, Directs, Direct, Chain
  <2> QED BY <1>2, <2>1, <2>2, <2>3 DEF Next
<1>3. ClimbInv => EscalationComplete
  BY DEF ClimbInv, Climbed, EscalationComplete
<1>4. SoundInv /\ ClimbInv /\ [AppNext]_appVars => ClimbInv'
  BY <1>2, AppStep
<1> QED BY <1>1, <1>3, <1>4, TagsStaySound, PTL DEF AppSpec

-----------------------------------------------------------------------------
(* The paid leg *)

WalkType == [at : {"idle", "nitter", "syndication", "brave"}, rest : Seq(Mirrors),
             pays : BOOLEAN, cut : BOOLEAN]

\* the free sources a walk has still to ask: every one that has offered posts all along
\* is among them, but for the mirrors when blank items cut their leg short
StillToAsk(w) ==
  (IF w.at = "nitter" THEN {w.rest[i] : i \in 1..Len(w.rest)} ELSE {})
    \cup (IF w.cut THEN Mirrors ELSE {})
    \cup (IF w.at \in {"nitter", "syndication"} THEN {Syndication} ELSE {})

PaidInv ==
  /\ askers \subseteq Callers
  /\ online \in [Free -> Answers] /\ score \in [Mirrors -> Nat]
  /\ walk \in [Callers -> WalkType] /\ steady \in [Callers -> SUBSET Free]
  /\ \A c \in Callers :
       /\ steady[c] \subseteq {s \in Free : online[s] = "posts"}
       /\ walk[c].at = "nitter" => walk[c].rest # <<>>
       /\ walk[c].at # "idle" => steady[c] \subseteq StillToAsk(walk[c])

LEMMA SocialConstants ==
  PoolSize \in Nat /\ IsFiniteSet(Mirrors) /\ Mirrors \subseteq Nat /\ Syndication \notin Mirrors
BY SocialAssumption, FS_Interval DEF SocialAssumption, Mirrors, Syndication

\* A walk begins with every healthy mirror in its list.
LEMMA BestFirstIsAll ==
  ASSUME score \in [Mirrors -> Nat], NEW S \in SUBSET Mirrors
  PROVE  /\ BestFirst(S) \in Seq(Mirrors)
         /\ \A m \in S : \E i \in 1..Len(BestFirst(S)) : BestFirst(S)[i] = m
<1> DEFINE order == {p \in S \X S : Goes(p[1], p[2])}
<1>1. IsFiniteSet(S) /\ S \subseteq Nat
  BY SocialConstants, FS_Subset
<1>2. \A m \in S : score[m] \in Nat
  OBVIOUS
<1>3. \A x, y \in S : <<x, y>> \in order <=> Goes(x, y)
  OBVIOUS
<1> HIDE DEF order
<1>4. StrictOrder(S, order)
  BY <1>1, <1>2, <1>3 DEF StrictOrder, Goes
<1>5. /\ InOrder(S, order) \in Seq(S) /\ Len(InOrder(S, order)) = Cardinality(S)
      /\ \A x \in S : \E i \in 1..Cardinality(S) : InOrder(S, order)[i] = x
  BY <1>1, <1>4, InOrderIsOnto
<1>6. BestFirst(S) = InOrder(S, order)
  BY DEF BestFirst, order
<1>7. InOrder(S, order) \in Seq(Mirrors)
  BY <1>5, SeqMonotonic
<1> QED BY <1>5, <1>6, <1>7

\* The walk of one caller moves, the sources stay as they are.
LEMMA WalkMoves ==
  ASSUME PaidInv, NEW c \in Callers, NEW w \in WalkType, NEW kept \in SUBSET Free,
         UNCHANGED <<askers, online>>, score' \in [Mirrors -> Nat],
         walk' = [walk EXCEPT ![c] = w], steady' = [steady EXCEPT ![c] = kept],
         kept \subseteq {s \in Free : online[s] = "posts"},
         w.at = "nitter" => w.rest # <<>>,
         w.at # "idle" => kept \subseteq StillToAsk(w)
  PROVE  PaidInv'
<1>1. walk' \in [Callers -> WalkType] /\ steady' \in [Callers -> SUBSET Free]
  BY DEF PaidInv
<1>2. ASSUME NEW k \in Callers
      PROVE  /\ steady'[k] \subseteq {s \in Free : online'[s] = "posts"}
             /\ walk'[k].at = "nitter" => walk'[k].rest # <<>>
             /\ walk'[k].at # "idle" => steady'[k] \subseteq StillToAsk(walk'[k])
  <2>1. walk'[k] = (IF k = c THEN w ELSE walk[k]) /\ steady'[k] = (IF k = c THEN kept ELSE steady[k])
    BY DEF PaidInv
  <2>2. CASE k = c
    BY <2>1, <2>2
  <2>3. CASE k # c
    BY <2>1, <2>3 DEF PaidInv
  <2> QED BY <2>2, <2>3
<1> QED BY <1>1, <1>2 DEF PaidInv, StillToAsk

LEMMA EndsKeeps ==
  ASSUME PaidInv, NEW c \in Callers, Ends(c), UNCHANGED <<askers, online>>, score' \in [Mirrors -> Nat]
  PROVE  PaidInv'
<1>1. Resting \in WalkType /\ Resting.at = "idle"
  BY DEF Resting, WalkType
<1>2. walk' = [walk EXCEPT ![c] = Resting] /\ steady' = [steady EXCEPT ![c] = {}]
  BY DEF Ends
<1> HIDE DEF Resting
<1> QED BY <1>1, <1>2, WalkMoves

LEMMA AskKeeps ==
  ASSUME PaidInv, NEW c \in Callers, Ask(c)
  PROVE  PaidInv'
<1> DEFINE list == BestFirst(Healthy)
           kept == {s \in Healthy \cup {Syndication} : online[s] = "posts"}
<1>1. PICK pays \in BOOLEAN : walk' = [Walking(c, list) EXCEPT ![c].pays = pays]
  BY DEF Ask
<1> DEFINE w == [walk[c] EXCEPT !.at = IF list = <<>> THEN "syndication" ELSE "nitter",
                                !.rest = list, !.pays = pays]
<1>2. list \in Seq(Mirrors) /\ \A m \in Healthy : \E i \in 1..Len(list) : list[i] = m
  BY BestFirstIsAll DEF PaidInv, Healthy
<1>3. walk[c] \in WalkType
  BY DEF PaidInv
<1> HIDE DEF list
<1>4. w \in WalkType /\ w.rest = list /\ w.at = (IF list = <<>> THEN "syndication" ELSE "nitter")
  BY <1>2, <1>3 DEF WalkType
<1>5. walk' = [walk EXCEPT ![c] = w]
  BY <1>1 DEF PaidInv, Walking, WalkType
<1>6. kept \in SUBSET Free /\ kept \subseteq {s \in Free : online[s] = "posts"}
  BY DEF Healthy, Free
<1>7. kept \subseteq StillToAsk(w)
  <2> HIDE DEF w
  <2> SUFFICES ASSUME NEW s \in Healthy \cup {Syndication} PROVE s \in StillToAsk(w)
    OBVIOUS
  <2>1. CASE s = Syndication
    BY <1>4, <2>1 DEF StillToAsk
  <2>2. CASE s \in Healthy
    <3>1. PICK i \in 1..Len(list) : list[i] = s
      BY <1>2, <2>2
    <3>2. list # <<>>
      BY <1>2, <3>1
    <3> QED BY <1>4, <3>1, <3>2 DEF StillToAsk
  <2> QED BY <2>1, <2>2
<1>8. /\ UNCHANGED <<askers, online, score>> /\ score' \in [Mirrors -> Nat]
      /\ steady' = [steady EXCEPT ![c] = kept]
  BY DEF Ask, PaidInv, pool
<1> HIDE DEF w, kept
<1> QED BY <1>4, <1>5, <1>6, <1>7, <1>8, WalkMoves

LEMMA MirrorKeeps ==
  ASSUME PaidInv, NEW c \in Callers, MirrorAnswers(c)
  PROVE  PaidInv'
<1> DEFINE m == Head(walk[c].rest)
<1>1. walk[c] \in WalkType /\ walk[c].at = "nitter" /\ walk[c].rest # <<>> /\ walk[c].rest \in Seq(Mirrors)
  BY DEF PaidInv, MirrorAnswers, WalkType
<1>2. m \in Mirrors /\ m = walk[c].rest[1] /\ UNCHANGED <<askers, online>>
  BY <1>1, SocialConstants DEF MirrorAnswers
<1>3. CASE online[m] = "posts" /\ MirrorWorks(m) /\ Ends(c)
  <2>1. score' \in [Mirrors -> Nat]
    BY <1>2, <1>3, SocialAssumption DEF SocialAssumption, MirrorWorks, PaidInv
  <2> QED BY <1>2, <1>3, <2>1, EndsKeeps
<1>4. CASE /\ online[m] = "blank" /\ MirrorWorks(m)
           /\ walk' = [Walking(c, <<>>) EXCEPT ![c].cut = TRUE] /\ UNCHANGED steady
  <2> DEFINE w == [walk[c] EXCEPT !.at = "syndication", !.rest = <<>>, !.cut = TRUE]
  <2>1. score' \in [Mirrors -> Nat]
    BY <1>2, <1>4, SocialAssumption DEF SocialAssumption, MirrorWorks, PaidInv
  <2>2. w \in WalkType /\ w.at = "syndication" /\ w.cut = TRUE
    <3>1. <<>> \in Seq(Mirrors)
      OBVIOUS
    <3> DEFINE none == <<>>
               v == [walk[c] EXCEPT !.at = "syndication", !.rest = none, !.cut = TRUE]
    <3>2. none \in Seq(Mirrors)
      BY <3>1
    <3> HIDE DEF none
    <3>3. v \in WalkType /\ v.at = "syndication" /\ v.cut = TRUE
      BY <1>1, <3>2 DEF WalkType
    <3> QED BY <3>3 DEF none
  <2>3. walk' = [walk EXCEPT ![c] = w] /\ steady' = [steady EXCEPT ![c] = steady[c]]
    BY <1>4 DEF PaidInv, Walking, WalkType
  <2>4. steady[c] \in SUBSET Free /\ steady[c] \subseteq {s \in Free : online[s] = "posts"}
    BY DEF PaidInv
  <2> HIDE DEF w
  <2>5. steady[c] \subseteq StillToAsk(w)
    BY <2>2, <2>4 DEF StillToAsk, Free
  <2> QED BY <1>2, <2>1, <2>2, <2>3, <2>4, <2>5, WalkMoves
<1>5. CASE online[m] = "down" /\ MirrorFails(m) /\ walk' = Walking(c, Others(c)) /\ UNCHANGED steady
  <2> DEFINE rest == Tail(walk[c].rest)
             w == [walk[c] EXCEPT !.at = IF rest = <<>> THEN "syndication" ELSE "nitter", !.rest = rest]
  <2>1. score' \in [Mirrors -> Nat]
    BY <1>2, <1>5 DEF MirrorFails, PaidInv
  <2>2. rest \in Seq(Mirrors) /\ Len(rest) = Len(walk[c].rest) - 1
        /\ \A i \in 1..Len(rest) : rest[i] = walk[c].rest[i + 1]
    BY <1>1, HeadTailProperties
  <2>3. w \in WalkType /\ w.rest = rest /\ w.cut = walk[c].cut /\ w.at = (IF rest = <<>> THEN "syndication" ELSE "nitter")
    <3> HIDE DEF rest
    <3> QED BY <1>1, <2>2 DEF WalkType
  <2>4. walk' = [walk EXCEPT ![c] = w] /\ steady' = [steady EXCEPT ![c] = steady[c]]
    BY <1>5 DEF PaidInv, Walking, WalkType, Others
  <2>5. /\ steady[c] \in SUBSET Free /\ steady[c] \subseteq {s \in Free : online[s] = "posts"}
        /\ steady[c] \subseteq StillToAsk(walk[c]) /\ m \notin steady[c]
    BY <1>1, <1>5 DEF PaidInv
  <2>6. steady[c] \subseteq StillToAsk(w)
    <3> SUFFICES ASSUME NEW s \in steady[c] PROVE s \in StillToAsk(w)
      OBVIOUS
    <3>1. CASE s \in Mirrors /\ walk[c].cut
      BY <2>3, <3>1 DEF StillToAsk
    <3>2. CASE s = Syndication
      BY <2>3, <3>2 DEF StillToAsk
    <3>3. CASE \E i \in 1..Len(walk[c].rest) : s = walk[c].rest[i]
      <4>1. PICK i \in 1..Len(walk[c].rest) : s = walk[c].rest[i]
        BY <3>3
      <4>2. i # 1
        BY <1>2, <2>5, <4>1
      <4>3. i - 1 \in 1..Len(rest) /\ rest[i - 1] = s
        <5>1. Len(walk[c].rest) \in Nat
          BY <1>1
        <5> HIDE DEF rest
        <5> QED BY <2>2, <4>1, <4>2, <5>1
      <4>4. rest # <<>>
        <5> HIDE DEF rest
        <5> QED BY <4>3
      <4> HIDE DEF w, rest
      <4> QED BY <2>3, <4>3, <4>4 DEF StillToAsk
    <3> QED BY <1>1, <2>5, <3>1, <3>2, <3>3 DEF StillToAsk
  <2>7. w.at = "nitter" => w.rest # <<>>
    BY <2>3
  <2> HIDE DEF w
  <2> QED BY <1>2, <2>1, <2>3, <2>4, <2>5, <2>6, <2>7, WalkMoves
<1> QED BY <1>3, <1>4, <1>5 DEF MirrorAnswers

LEMMA SyndicationKeeps ==
  ASSUME PaidInv, NEW c \in Callers, SyndicationAnswers(c)
  PROVE  PaidInv'
<1>1. walk[c] \in WalkType /\ walk[c].at = "syndication"
  BY DEF PaidInv, SyndicationAnswers
<1>2. UNCHANGED <<askers, online>> /\ score' \in [Mirrors -> Nat]
  BY DEF SyndicationAnswers, PaidInv, pool
<1>3. CASE Ends(c)
  BY <1>2, <1>3, EndsKeeps
<1>4. CASE /\ online[Syndication] # "posts"
           /\ walk' = [walk EXCEPT ![c].at = "brave"] /\ UNCHANGED steady
  <2> DEFINE w == [walk[c] EXCEPT !.at = "brave"]
  <2>1. w \in WalkType /\ w.at = "brave" /\ w.cut = walk[c].cut
    BY <1>1 DEF WalkType
  <2>2. walk' = [walk EXCEPT ![c] = w] /\ steady' = [steady EXCEPT ![c] = steady[c]]
    BY <1>4 DEF PaidInv
  <2>3. /\ steady[c] \in SUBSET Free /\ steady[c] \subseteq {s \in Free : online[s] = "posts"}
        /\ steady[c] \subseteq StillToAsk(walk[c]) /\ Syndication \notin steady[c]
    BY <1>1, <1>4 DEF PaidInv
  <2> HIDE DEF w
  <2>4. steady[c] \subseteq StillToAsk(w)
    BY <1>1, <2>1, <2>3 DEF StillToAsk
  <2> QED BY <1>2, <2>1, <2>2, <2>3, <2>4, WalkMoves
<1> QED BY <1>3, <1>4 DEF SyndicationAnswers

LEMMA OutsideKeeps ==
  ASSUME PaidInv,
         \/ \E m \in Mirrors : BenchEnds(m)
         \/ \E s \in Free, answer \in Answers : SourceTurns(s, answer)
         \/ SocialRestart
         \/ UNCHANGED socialVars
  PROVE  PaidInv'
<1>1. CASE \E m \in Mirrors : BenchEnds(m)
  BY <1>1 DEF BenchEnds, PaidInv, StillToAsk
<1>2. ASSUME NEW s \in Free, NEW answer \in Answers, SourceTurns(s, answer)
      PROVE  PaidInv'
  <2>1. /\ online' = [online EXCEPT ![s] = answer] /\ steady' = [c \in Callers |-> steady[c] \ {s}]
        /\ UNCHANGED <<askers, score, walk>>
    BY <1>2 DEF SourceTurns, pool
  <2>2. online' \in [Free -> Answers] /\ steady' \in [Callers -> SUBSET Free]
    BY <2>1 DEF PaidInv
  <2>3. ASSUME NEW c \in Callers
        PROVE  /\ steady'[c] \subseteq {x \in Free : online'[x] = "posts"}
               /\ walk[c].at # "idle" => steady'[c] \subseteq StillToAsk(walk[c])
    BY <2>1 DEF PaidInv
  <2> QED BY <2>1, <2>2, <2>3 DEF PaidInv, StillToAsk
<1>3. CASE SocialRestart
  <2>1. ScoreMax \in Nat
    BY SocialAssumption DEF SocialAssumption
  <2>2. Resting \in WalkType /\ Resting.at = "idle"
    BY DEF Resting, WalkType
  <2>3. /\ walk' = [c \in Callers |-> Resting] /\ steady' = [c \in Callers |-> {}]
        /\ score' = [m \in Mirrors |-> ScoreMax] /\ UNCHANGED <<askers, online>>
    BY <1>3 DEF SocialRestart, PoolFresh
  <2> HIDE DEF Resting
  <2> QED BY <2>1, <2>2, <2>3 DEF PaidInv
<1>4. CASE UNCHANGED socialVars
  BY <1>4 DEF socialVars, PaidInv, StillToAsk
<1> QED BY <1>1, <1>2, <1>3, <1>4

LEMMA SocialKeeps ==
  ASSUME PaidInv, [AppNext]_appVars
  PROVE  PaidInv'
<1>1. ASSUME NEW c \in askers, Ask(c) \/ MirrorAnswers(c) \/ SyndicationAnswers(c) \/ BraveAnswers(c)
      PROVE  PaidInv'
  <2>1. c \in Callers
    BY DEF PaidInv
  <2>2. CASE BraveAnswers(c)
    <3>1. Ends(c) /\ UNCHANGED <<askers, online>> /\ score' \in [Mirrors -> Nat]
      BY <2>2 DEF BraveAnswers, pool, PaidInv
    <3> QED BY <2>1, <3>1, EndsKeeps
  <2> QED BY <1>1, <2>1, <2>2, AskKeeps, MirrorKeeps, SyndicationKeeps
<1>2. CASE SocialNext
  BY <1>1, <1>2, OutsideKeeps DEF SocialNext
<1>3. CASE SocialRestart \/ UNCHANGED socialVars
  BY <1>3, OutsideKeeps
<1> QED BY <1>2, <1>3 DEF AppNext, appVars

\* The paid search is asked only when no free source has offered posts since the request
\* began, for any pool of mirrors and any number of concurrent requests that change it.
THEOREM PaidSearchIsLast == AppSpec => []PaidLegIsLast
<1>1. AppInit => PaidInv
  <2> SUFFICES ASSUME AppInit PROVE PaidInv
    OBVIOUS
  <2>1. ScoreMax \in Nat
    BY SocialAssumption DEF SocialAssumption
  <2>2. Resting \in WalkType /\ Resting.at = "idle"
    BY DEF Resting, WalkType
  <2>3. askers \subseteq Callers
    BY AppAssumption DEF AppAssumption, AppInit, Init
  <2>4. /\ walk = [c \in Callers |-> Resting] /\ steady = [c \in Callers |-> {}]
        /\ score = [m \in Mirrors |-> ScoreMax] /\ online = [s \in Free |-> "posts"]
    BY DEF AppInit, SocialInit
  <2>5. online \in [Free -> Answers]
    BY <2>4 DEF Answers
  <2> HIDE DEF Resting
  <2> QED BY <2>1, <2>2, <2>3, <2>4, <2>5 DEF PaidInv
<1>2. PaidInv => PaidLegIsLast
  <2> SUFFICES ASSUME PaidInv, NEW c \in Callers, walk[c].at = "brave"
               PROVE  steady[c] \subseteq (IF walk[c].cut THEN Mirrors ELSE {})
    BY DEF PaidLegIsLast
  <2>1. steady[c] \subseteq StillToAsk(walk[c])
    BY DEF PaidInv
  <2> QED BY <2>1 DEF StillToAsk
<1>3. PaidInv /\ [AppNext]_appVars => PaidInv'
  BY SocialKeeps
<1> QED BY <1>1, <1>2, <1>3, PTL DEF AppSpec

-----------------------------------------------------------------------------
(* The fetch backends: the slots of a host *)

Waiting(h) == [at |-> h, pc |-> "waiting"]
SentTo(h) == [at |-> h, pc |-> "sent"]
Away == [at |-> NoHost, pc |-> "idle"]

GetType == [at : Hosts \cup {NoHost}, pc : {"idle", "waiting", "sent"}]

HttpTypes ==
  /\ session \in BOOLEAN
  /\ sem \in [Hosts -> Int] /\ queue \in [Hosts -> Seq(Getters)]
  /\ get \in [Getters -> GetType]

\* the slots of a host add up, and its line holds getters that wait there, each of them once
Slots(h) ==
  IF sem[h] = NoSem THEN Sent(h) = {} /\ queue[h] = <<>>
  ELSE sem[h] >= 0 /\ sem[h] + Cardinality(Sent(h)) = PerHost
Line(h) ==
  /\ \A i \in 1..Len(queue[h]) : get[queue[h][i]] = Waiting(h)
  /\ \A i, k \in 1..Len(queue[h]) : queue[h][i] = queue[h][k] => i = k
HttpInv == HttpTypes /\ \A h \in Hosts : Slots(h) /\ Line(h)

LEMMA SentFinite == ASSUME NEW h PROVE IsFiniteSet(Sent(h)) /\ Cardinality(Sent(h)) \in Nat
BY FS_Subset, FS_CardinalityType, HttpAssumption DEF HttpAssumption, Sent

\* A free slot is one the semaphore counts, or one of a semaphore not made yet.
LEMMA SlotCount ==
  ASSUME HttpInv, NEW h \in Hosts
  PROVE  HostSem(h) \in Nat /\ HostSem(h) + Cardinality(Sent(h)) = PerHost
<1>1. Slots(h) /\ sem[h] \in Int /\ PerHost \in Nat /\ Cardinality(Sent(h)) \in Nat
  BY SentFinite, HttpAssumption DEF HttpAssumption, HttpInv, HttpTypes
<1>2. CASE sem[h] = NoSem
  <2>1. HostSem(h) = PerHost /\ Sent(h) = {}
    BY <1>1, <1>2 DEF Slots, HostSem
  <2>2. Cardinality(Sent(h)) = 0
    BY <2>1, FS_EmptySet
  <2> QED BY <1>1, <2>1, <2>2
<1>3. CASE sem[h] # NoSem
  BY <1>1, <1>3 DEF Slots, HostSem
<1> QED BY <1>2, <1>3

LEMMA GetStep ==
  ASSUME HttpInv, NEW g \in Getters, NEW h \in Hosts, Get(g, h)
  PROVE  HttpInv'
<1>1. HostSem(h) \in Nat /\ HostSem(h) + Cardinality(Sent(h)) = PerHost
  BY SlotCount
<1>2. CASE /\ HostSem(h) > 0 /\ queue[h] = <<>>
           /\ sem' = [sem EXCEPT ![h] = HostSem(h) - 1]
           /\ get' = [get EXCEPT ![g] = SentTo(h)]
           /\ UNCHANGED queue
  <2>1. HttpTypes'
    BY <1>1, <1>2 DEF Get, HttpInv, HttpTypes, GetType, SentTo
  <2>2. ASSUME NEW k \in Hosts PROVE Line(k)'
    BY <1>2, SMT DEF Get, HttpInv, HttpTypes, Line, Waiting, SentTo, GetType
  <2>3. g \notin Sent(h) /\ Sent(h)' = Sent(h) \cup {g}
    BY <1>2 DEF Get, Sent, SentTo, HttpInv, HttpTypes
  <2>4. Cardinality(Sent(h)') = Cardinality(Sent(h)) + 1
    BY <2>3, SentFinite, FS_AddElement
  <2>5. sem'[h] = HostSem(h) - 1
    BY <1>2 DEF HttpInv, HttpTypes
  <2>6. Slots(h)'
    BY <1>1, <1>2, <2>4, <2>5, SentFinite DEF Slots, NoSem
  <2>7. ASSUME NEW k \in Hosts \ {h} PROVE Slots(k)'
    <3>1. Sent(k)' = Sent(k) /\ sem'[k] = sem[k]
      BY <1>2 DEF Get, Sent, SentTo, HttpInv, HttpTypes
    <3> QED BY <3>1, <1>2 DEF HttpInv, Slots
  <2> QED BY <2>1, <2>2, <2>6, <2>7 DEF HttpInv
<1>3. CASE /\ HostSem(h) = 0 \/ queue[h] # <<>>
           /\ queue' = [queue EXCEPT ![h] = Append(@, g)]
           /\ get' = [get EXCEPT ![g] = Waiting(h)]
           /\ sem' = [sem EXCEPT ![h] = HostSem(h)]
  <2>1. HttpTypes'
    BY <1>1, <1>3 DEF Get, HttpInv, HttpTypes, GetType, Waiting
  <2>2. get[g].pc = "idle"
    BY DEF Get
  <2>3. ASSUME NEW k \in Hosts PROVE Slots(k)'
    <3>1. Sent(k)' = Sent(k)
      BY <1>3, <2>2 DEF Sent, Waiting, HttpInv, HttpTypes
    <3>2. sem'[k] = IF k = h THEN HostSem(h) ELSE sem[k]
      BY <1>3 DEF HttpInv, HttpTypes
    <3>3. k # h => queue'[k] = queue[k]
      BY <1>3 DEF HttpInv, HttpTypes
    <3> QED BY <1>1, <3>1, <3>2, <3>3 DEF Slots, HttpInv, NoSem
  <2>4. ASSUME NEW k \in Hosts \ {h} PROVE Line(k)'
    BY <1>3, <2>2 DEF HttpInv, HttpTypes, Line, Waiting
  <2>5. Line(h)'
    <3>1. Line(h) /\ queue[h] \in Seq(Getters) /\ queue'[h] = Append(queue[h], g)
      BY <1>3 DEF HttpInv, HttpTypes
    <3>2. \A i \in 1..Len(queue[h]) : queue[h][i] # g
      BY <2>2, <3>1 DEF Line, Waiting
    <3>3. \A i \in 1..Len(queue[h]) : queue'[h][i] = queue[h][i] /\ queue[h][i] \in Getters
      BY <3>1
    <3>4. Len(queue'[h]) = Len(queue[h]) + 1 /\ queue'[h][Len(queue[h]) + 1] = g
      BY <3>1
    <3>5. \A i \in 1..Len(queue[h]) : get'[queue[h][i]] = get[queue[h][i]]
      BY <1>3, <3>2, <3>3 DEF HttpInv, HttpTypes
    <3>6. get'[g] = Waiting(h)
      BY <1>3 DEF HttpInv, HttpTypes
    <3>7. Len(queue[h]) \in Nat
      BY <3>1
    <3>8. \A i \in 1..Len(queue'[h]) : i \in 1..Len(queue[h]) \/ i = Len(queue[h]) + 1
      BY <3>4, <3>7
    <3> QED BY <3>1, <3>2, <3>3, <3>4, <3>5, <3>6, <3>8 DEF Line, Waiting
  <2> QED BY <2>1, <2>3, <2>4, <2>5 DEF HttpInv
<1> QED BY <1>2, <1>3 DEF Get, SentTo, Waiting

LEMMA WokenStep ==
  ASSUME HttpInv, NEW h \in Hosts, Woken(h)
  PROVE  HttpInv'
<1> DEFINE g == Head(queue[h])
<1>1. /\ queue[h] \in Seq(Getters) /\ queue[h] # <<>> /\ sem[h] > 0 /\ sem[h] \in Int
      /\ Line(h) /\ Slots(h) /\ queue' = [queue EXCEPT ![h] = Tail(queue[h])]
  BY DEF Woken, HttpInv, HttpTypes
<1>2. g \in Getters /\ g = queue[h][1] /\ Len(queue[h]) \in Nat \ {0}
  BY <1>1
<1>3. get[g] = Waiting(h)
  BY <1>1, <1>2 DEF Line
<1>4. sem[h] # NoSem
  BY <1>1 DEF NoSem
<1>5. /\ queue'[h] = Tail(queue[h]) /\ Len(queue'[h]) = Len(queue[h]) - 1
      /\ \A i \in 1..Len(queue'[h]) : queue'[h][i] = queue[h][i + 1]
      /\ \A k \in Hosts \ {h} : queue'[k] = queue[k]
  BY <1>1 DEF HttpInv, HttpTypes
<1>6. \A x \in Getters : get'[x] = get[x] \/ x = g
  BY <1>2 DEF Woken, HttpInv, HttpTypes
<1>7. ASSUME NEW k \in Hosts PROVE Line(k)'
  <2>1. CASE k = h
    <3>1. \A i \in 1..Len(queue'[h]) : i + 1 \in 1..Len(queue[h]) /\ i + 1 # 1 /\ queue[h][i + 1] \in Getters
      BY <1>1, <1>2, <1>5
    <3>2. \A i \in 1..Len(queue'[h]) : queue'[h][i] # g
      BY <1>1, <1>2, <1>5, <3>1 DEF Line
    <3>3. \A i \in 1..Len(queue'[h]) : get'[queue'[h][i]] = Waiting(h)
      BY <1>1, <1>5, <1>6, <3>1, <3>2 DEF Line
    <3>4. ASSUME NEW i \in 1..Len(queue'[h]), NEW m \in 1..Len(queue'[h]), queue'[h][i] = queue'[h][m]
          PROVE  i = m
      <4>1. i + 1 = m + 1
        BY <1>1, <1>5, <3>1, <3>4 DEF Line
      <4> QED BY <4>1
    <3> QED BY <2>1, <3>3, <3>4 DEF Line, Waiting
  <2>2. CASE k # h
    <3>1. Line(k) /\ queue'[k] = queue[k] /\ queue[k] \in Seq(Getters)
      BY <1>5, <2>2 DEF HttpInv, HttpTypes
    <3>2. \A i \in 1..Len(queue[k]) : queue[k][i] \in Getters /\ queue[k][i] # g
      BY <1>3, <2>2, <3>1 DEF Line, Waiting
    <3> QED BY <1>6, <3>1, <3>2 DEF Line, Waiting
  <2> QED BY <2>1, <2>2
<1>8. CASE session
  <2>1. sem' = [sem EXCEPT ![h] = sem[h] - 1] /\ get' = [get EXCEPT ![g] = SentTo(h)]
    <3>1. [get[g] EXCEPT !.pc = "sent"] = SentTo(h)
      BY <1>3 DEF Waiting, SentTo
    <3> QED BY <1>8, <3>1 DEF Woken
  <2>2. g \notin Sent(h) /\ Sent(h)' = Sent(h) \cup {g}
    BY <1>2, <1>3, <2>1 DEF Sent, SentTo, Waiting, HttpInv, HttpTypes
  <2>3. Cardinality(Sent(h)') = Cardinality(Sent(h)) + 1
    BY <2>2, SentFinite, FS_AddElement
  <2>4. sem'[h] = sem[h] - 1
    BY <2>1 DEF HttpInv, HttpTypes
  <2>5. Slots(h)'
    BY <1>1, <1>4, <2>3, <2>4, SentFinite DEF Slots, NoSem
  <2>6. ASSUME NEW k \in Hosts \ {h} PROVE Slots(k)'
    <3>1. Sent(k)' = Sent(k) /\ sem'[k] = sem[k]
      BY <1>2, <1>3, <2>1 DEF Sent, SentTo, Waiting, HttpInv, HttpTypes
    <3> QED BY <3>1, <1>5 DEF HttpInv, Slots
  <2>7. HttpTypes'
    BY <1>1, <1>2, <2>1 DEF Woken, HttpInv, HttpTypes, GetType, SentTo
  <2> QED BY <1>7, <2>5, <2>6, <2>7 DEF HttpInv
<1>9. CASE ~ session
  <2>1. sem' = sem /\ get' = [get EXCEPT ![g] = Away]
    BY <1>9 DEF Woken, Away
  <2>2. ASSUME NEW k \in Hosts PROVE Slots(k)'
    <3>1. Sent(k)' = Sent(k)
      BY <1>2, <1>3, <2>1 DEF Sent, Away, Waiting, HttpInv, HttpTypes
    <3> QED BY <1>4, <1>5, <2>1, <3>1 DEF HttpInv, Slots
  <2>3. HttpTypes'
    BY <1>1, <1>2, <2>1 DEF Woken, HttpInv, HttpTypes, GetType, Away
  <2> QED BY <1>7, <2>2, <2>3 DEF HttpInv
<1> QED BY <1>8, <1>9, <1>1 DEF HttpInv, HttpTypes

LEMMA AnsweredStep ==
  ASSUME HttpInv, NEW g \in Getters, Answered(g)
  PROVE  HttpInv'
<1> DEFINE h == get[g].at
<1>1. get[g] \in GetType /\ get[g].pc = "sent"
  BY DEF Answered, HttpInv, HttpTypes
<1>2. ASSUME NEW k \in Hosts PROVE Line(k)'
  <2>1. Line(k) /\ queue' = queue /\ queue[k] \in Seq(Getters) /\ get' = [get EXCEPT ![g] = Away]
    BY DEF Answered, HttpInv, HttpTypes, Away
  <2>2. \A i \in 1..Len(queue[k]) : queue[k][i] \in Getters /\ queue[k][i] # g
    BY <1>1, <2>1 DEF Line, Waiting
  <2> QED BY <2>1, <2>2 DEF Line, Waiting, HttpInv, HttpTypes
<1>3. HttpTypes'
  <2>1. sem' = [sem EXCEPT ![h] = sem[h] + 1] /\ get' = [get EXCEPT ![g] = Away]
        /\ UNCHANGED <<session, queue>>
    BY DEF Answered, Away
  <2>2. h \in Hosts => sem[h] + 1 \in Int
    BY DEF HttpInv, HttpTypes
  <2>3. Away \in GetType
    BY DEF Away, GetType
  <2> HIDE DEF h
  <2> QED BY <2>1, <2>2, <2>3 DEF HttpInv, HttpTypes
<1>4. ASSUME NEW k \in Hosts PROVE Slots(k)'
  <2>1. CASE k = h
    <3>1. g \in Sent(k) /\ Sent(k)' = Sent(k) \ {g}
      BY <1>1, <2>1 DEF Answered, Sent, HttpInv, HttpTypes, GetType
    <3>2. Cardinality(Sent(k)') = Cardinality(Sent(k)) - 1
      BY <3>1, SentFinite, FS_RemoveElement
    <3>3. sem'[k] = sem[k] + 1 /\ sem[k] \in Int
      BY <2>1 DEF Answered, HttpInv, HttpTypes
    <3>4. Slots(k)
      BY DEF HttpInv
    <3> QED BY <3>1, <3>2, <3>3, <3>4, SentFinite DEF Slots, NoSem
  <2>2. CASE k # h
    <3>1. Sent(k)' = Sent(k) /\ sem'[k] = sem[k] /\ queue' = queue
      BY <1>1, <2>2 DEF Answered, Sent, HttpInv, HttpTypes
    <3> QED BY <3>1 DEF HttpInv, Slots
  <2> QED BY <2>1, <2>2
<1> QED BY <1>2, <1>3, <1>4 DEF HttpInv

LEMMA CloseStep == ASSUME HttpInv, CloseSession PROVE HttpInv'
<1>1. /\ queue' = queue /\ session' = FALSE
      /\ sem' = [h \in Hosts |-> sem[h] + Cardinality(Sent(h))]
      /\ get' = [g \in Getters |-> IF get[g].pc = "sent" THEN Away ELSE get[g]]
  BY DEF CloseSession, Away
<1>2. HttpTypes'
  <2>1. \A h \in Hosts : sem[h] + Cardinality(Sent(h)) \in Int
    BY SentFinite DEF HttpInv, HttpTypes
  <2> QED BY <1>1, <2>1 DEF HttpInv, HttpTypes, GetType, Away
<1>3. ASSUME NEW h \in Hosts PROVE Slots(h)' /\ Line(h)'
  <2>1. Sent(h)' = {} /\ Cardinality(Sent(h)') = 0
    <3>1. Sent(h)' = {}
      BY <1>1 DEF Sent, Away
    <3> QED BY <3>1, FS_EmptySet
  <2>2. Slots(h)'
    <3>1. Slots(h) /\ sem[h] \in Int /\ sem'[h] = sem[h] + Cardinality(Sent(h))
      BY <1>1 DEF HttpInv, HttpTypes
    <3>2. PerHost \in Nat
      BY HttpAssumption DEF HttpAssumption
    <3>3. Sent(h) = {} => Cardinality(Sent(h)) = 0
      BY FS_EmptySet
    <3> QED BY <1>1, <2>1, <3>1, <3>2, <3>3, SentFinite DEF Slots, NoSem
  <2>3. \A i \in 1..Len(queue[h]) : queue[h][i] \in Getters /\ get[queue[h][i]] = Waiting(h)
    BY DEF HttpInv, HttpTypes, Line
  <2> QED BY <1>1, <2>2, <2>3 DEF HttpInv, Line, Waiting
<1> QED BY <1>2, <1>3 DEF HttpInv

-----------------------------------------------------------------------------
(* Pages *)

LEMMA StepTypes ==
  ASSUME BrowserTypeOK, NEW r \in Renderers, More(r)
  PROVE  render[r].recipe \in Recipes /\ (Step(r).action = "goto" => Step(r).url \in Urls)
<1>1. render[r].recipe \in Recipes \cup {<<>>} /\ render[r].at \in Nat \ {0}
  BY DEF BrowserTypeOK
<1>2. render[r].at <= Len(render[r].recipe)
  BY DEF More
<1>3. render[r].recipe # <<>>
  BY <1>1, <1>2
<1> QED BY <1>1, <1>2, <1>3, BrowserAssumption DEF BrowserAssumption, Step

Phases == {"idle", "starting", "page", "goto", "step", "loop", "settle", "closing"}
RenderType ==
  [pc : Phases, url : Urls \cup {Blank}, recipe : Recipes \cup {<<>>}, at : Nat \ {0},
   iters : 0..MaxIters, prev : 0..MaxItems, html : Urls \cup {Blank}, cut : BOOLEAN]
Tab == [url : Urls \cup {Blank}, items : 0..MaxItems, pending : BOOLEAN]

LEMMA IdleType == Idle \in RenderType /\ Idle.pc = "idle"
BY BrowserAssumption DEF BrowserAssumption, Idle, RenderType, Phases

LEMMA AskedType ==
  ASSUME NEW url \in Starts, NEW recipe \in Recipes, NEW pc \in Phases
  PROVE  [Idle EXCEPT !.url = url, !.recipe = recipe, !.pc = pc] \in RenderType
<1>1. url \in Urls \cup {Blank}
  BY BrowserAssumption DEF BrowserAssumption
<1> QED BY <1>1, IdleType DEF Idle, RenderType

LEMMA PhaseType ==
  ASSUME NEW q \in RenderType, NEW pc \in Phases
  PROVE  [q EXCEPT !.pc = pc] \in RenderType /\ [q EXCEPT !.pc = pc].pc = pc
BY DEF RenderType

LEMMA DoneType ==
  ASSUME NEW q \in RenderType
  PROVE  Done(q) \in RenderType /\ Done(q).pc = "step"
<1>1. "step" \in Phases /\ 0 \in 0..MaxIters /\ 0 \in 0..MaxItems
  BY BrowserAssumption DEF BrowserAssumption, Phases
<1>2. q.at + 1 \in Nat \ {0}
  BY DEF RenderType
<1> QED BY <1>1, <1>2 DEF RenderType, Done

LEMMA TabType == ASSUME NEW url \in Urls \cup {Blank} PROVE NewTab(url) \in Tab
BY BrowserAssumption DEF BrowserAssumption, NewTab, Tab

LEMMA TypesOf ==
  BrowserTypeOK <=>
    /\ backend \in {"none", "starting", "ready", "broken"}
    /\ open \subseteq Renderers
    /\ page \in [Pages -> Tab] /\ render \in [Renderers -> RenderType]
BY DEF BrowserTypeOK, Tab, RenderType, Phases

LEMMA OwnPage ==
  ASSUME BrowserTypeOK, NEW r \in Renderers
  PROVE  PageOf(r) \in Pages /\ Shown(r) \in Tab
BY TypesOf DEF PageOf, Pages, Shown

\* the pages that are open belong to renders that have one
PageInv == BrowserTypeOK /\ PagesAreClosed

\* A render goes from one phase to another, its page open or not before as after.
LEMMA PhaseStep ==
  ASSUME PageInv, NEW r \in Renderers, NEW q \in RenderType, render' = [render EXCEPT ![r] = q],
         page' \in [Pages -> Tab], backend' \in {"none", "starting", "ready", "broken"},
         \/ open' = open /\ (r \in open => q.pc \notin {"idle", "starting", "page"})
         \/ open' = open \cup {r} /\ q.pc \notin {"idle", "starting", "page"}
         \/ open' = open \ {r}
  PROVE  PageInv'
<1>1. render' \in [Renderers -> RenderType] /\ open' \subseteq Renderers
  BY TypesOf DEF PageInv
<1>2. BrowserTypeOK'
  BY <1>1, TypesOf DEF BrowserTypeOK, Tab, RenderType, Phases
<1>3. ASSUME NEW x \in open' PROVE x \in Renderers /\ render'[x].pc \notin {"idle", "starting", "page"}
  <2>1. x \in open \/ x = r
    OBVIOUS
  <2>2. x \in open => x \in Renderers /\ render[x].pc \notin {"idle", "starting", "page"}
    BY DEF PageInv, PagesAreClosed, HasPage
  <2>3. render \in [Renderers -> RenderType]
    BY TypesOf DEF PageInv
  <2> QED BY <1>3, <2>1, <2>2, <2>3
<1>4. ASSUME NEW x \in open' PROVE render'[x].pc \in Phases
  BY <1>1, <1>3 DEF RenderType
<1>5. open' \subseteq HasPage'
  BY <1>1, <1>3, <1>4 DEF HasPage, Phases
<1> QED BY <1>2, <1>5 DEF PageInv, PagesAreClosed

LEMMA ProceedStep ==
  ASSUME PageInv, NEW r \in Renderers, Proceed(r) \/ LoopStops(r)
  PROVE  PageInv'
<1> DEFINE q == render[r]
<1>1. /\ q \in RenderType /\ render \in [Renderers -> RenderType] /\ page \in [Pages -> Tab]
      /\ backend \in {"none", "starting", "ready", "broken"}
      /\ PageOf(r) \in Pages /\ Shown(r) \in Tab
  BY TypesOf, OwnPage DEF PageInv
<1>2. r \in open => q.pc \in {"goto", "step", "loop", "settle", "closing"}
  BY DEF PageInv, PagesAreClosed, HasPage
<1>3. Idle \in RenderType /\ Idle.pc = "idle" /\ Done(q) \in RenderType /\ Done(q).pc = "step"
  BY <1>1, IdleType, DoneType
<1>4. \A pc \in Phases : [q EXCEPT !.pc = pc] \in RenderType /\ [q EXCEPT !.pc = pc].pc = pc
  BY <1>1, PhaseType
<1> HIDE DEF q
<1>5. ASSUME NEW pc \in Phases \ {"idle", "starting", "page"}, Go(r, pc), UNCHANGED <<backend, open>>,
             page' \in [Pages -> Tab]
      PROVE  PageInv'
  BY <1>1, <1>4, <1>5, PhaseStep DEF Go, q
<1>6. ASSUME NEW url \in Urls, Visit(r, url) PROVE page' \in [Pages -> Tab]
  <2>1. NewTab(url) \in Tab
    BY TabType
  <2> QED BY <1>1, <1>6, <2>1 DEF Visit
<1>7. ASSUME render' = [render EXCEPT ![r] = Done(@)], UNCHANGED <<backend, open>>,
             page' \in [Pages -> Tab]
      PROVE  PageInv'
  BY <1>1, <1>3, <1>7, PhaseStep DEF q
<1>10. ASSUME Started(r) PROVE PageInv'
  <2>1. r \notin open
    BY <1>2, <1>10 DEF Started, IsAt, q
  <2> QED BY <1>1, <1>4, <1>10, <2>1, PhaseStep DEF Started, Go, q, Phases
<1>22. ASSUME StartedInVain(r) PROVE PageInv'
  <2>1. r \notin open
    BY <1>2, <1>22 DEF StartedInVain, IsAt, q
  <2> DEFINE n == IF backend = "ready" THEN [q EXCEPT !.pc = "page", !.cut = FALSE] ELSE Idle
  <2>2. n \in RenderType
    BY <1>1, <1>3 DEF RenderType, Phases
  <2>3. render' = [render EXCEPT ![r] = n]
    BY <1>22 DEF StartedInVain, q
  <2> HIDE DEF n
  <2> QED BY <1>1, <1>22, <2>1, <2>2, <2>3, PhaseStep DEF StartedInVain
<1>11. ASSUME StartFails(r) \/ NewPageFails(r) PROVE PageInv'
  <2>1. r \notin open
    BY <1>2, <1>11 DEF StartFails, NewPageFails, IsAt, q
  <2> QED BY <1>1, <1>3, <1>11, <2>1, PhaseStep DEF StartFails, NewPageFails
<1>12. ASSUME NewPage(r) PROVE PageInv'
  <2>1. page' \in [Pages -> Tab]
    BY <1>1, <1>12, TabType DEF NewPage, Pages
  <2> QED BY <1>1, <1>4, <1>12, <2>1, PhaseStep DEF NewPage, Go, q, Phases
<1>13. ASSUME Goto(r) PROVE PageInv'
  <2>1. page' \in [Pages -> Tab]
    <3>1. NewTab(render[r].url) \in Tab
      BY <1>1, TabType DEF RenderType, q
    <3> QED BY <1>1, <1>13, <3>1 DEF Goto, Visit
  <2> QED BY <1>5, <1>13, <2>1 DEF Goto, Phases
<1>14. ASSUME GotoFails(r) PROVE PageInv'
  BY <1>1, <1>5, <1>14 DEF GotoFails, Phases
<1>15. ASSUME PlainStep(r) \/ LoopStops(r) \/ LoopMustStop(r) \/ Stable(r) PROVE PageInv'
  BY <1>1, <1>7, <1>15 DEF PlainStep, LoopMustStop, LoopStops, Stable
<1>16. ASSUME GotoStep(r) PROVE PageInv'
  <2>1. Step(r).url \in Urls
    BY <1>16, StepTypes DEF GotoStep, PageInv
  <2> QED BY <1>6, <1>7, <1>16, <2>1 DEF GotoStep
<1>17. ASSUME LoadMore(r) PROVE PageInv'
  <2> DEFINE n == [q EXCEPT !.pc = "loop", !.prev = IF Step(r).results THEN Shown(r).items ELSE 0]
  <2>1. n \in RenderType /\ n.pc = "loop"
    <3>1. (IF Step(r).results THEN Shown(r).items ELSE 0) \in 0..MaxItems
      BY <1>1, BrowserAssumption DEF Tab, BrowserAssumption
    <3> QED BY <1>1, <3>1 DEF RenderType, Phases
  <2>2. render' = [render EXCEPT ![r] = n]
    BY <1>17 DEF LoadMore, q
  <2> HIDE DEF n
  <2> QED BY <1>1, <1>17, <2>1, <2>2, PhaseStep DEF LoadMore
<1>18. ASSUME Click(r) PROVE PageInv'
  <2> DEFINE n == [q EXCEPT !.iters = Counted(q.iters), !.pc = IF Step(r).results THEN "settle" ELSE "loop"]
  <2>1. n \in RenderType /\ n.pc \in {"settle", "loop"}
    <3>1. q.iters < MaxIters
      BY <1>18 DEF Click, q
    <3>2. Counted(q.iters) \in 0..MaxIters
      BY <1>1, <3>1, BrowserAssumption DEF RenderType, Counted, BrowserAssumption
    <3>3. (IF Step(r).results THEN "settle" ELSE "loop") \in {"settle", "loop"}
      OBVIOUS
    <3>4. {"settle", "loop"} \subseteq Phases
      BY DEF Phases
    <3> HIDE DEF Phases
    <3> QED BY <1>1, <3>2, <3>3, <3>4 DEF RenderType
  <2>2. render' = [render EXCEPT ![r] = n]
    BY <1>18 DEF Click, q
  <2>3. page' \in [Pages -> Tab]
    BY <1>1, <1>18 DEF Click, Tab
  <2> QED BY <1>1, <1>18, <2>1, <2>2, <2>3, PhaseStep DEF Click
<1>19. ASSUME Grew(r) PROVE PageInv'
  <2> DEFINE n == [q EXCEPT !.pc = "loop", !.prev = Shown(r).items]
  <2>1. n \in RenderType /\ n.pc = "loop"
    BY <1>1 DEF RenderType, Phases, Tab
  <2>2. render' = [render EXCEPT ![r] = n]
    BY <1>19 DEF Grew, q
  <2> QED BY <1>1, <1>19, <2>1, <2>2, PhaseStep DEF Grew
<1>20. ASSUME Snapshot(r) PROVE PageInv'
  <2> DEFINE n == [q EXCEPT !.pc = "closing", !.html = Shown(r).url]
  <2>1. n \in RenderType /\ n.pc = "closing"
    BY <1>1 DEF RenderType, Phases, Tab
  <2>2. render' = [render EXCEPT ![r] = n] \/ Go(r, "closing")
    BY <1>20 DEF Snapshot, q
  <2> QED BY <1>1, <1>5, <1>20, <2>1, <2>2, PhaseStep DEF Snapshot, Phases
<1>21. ASSUME ClosePage(r) PROVE PageInv'
  BY <1>1, <1>3, <1>21, PhaseStep DEF ClosePage, Closes
<1> QED BY <1>10, <1>22, <1>11, <1>12, <1>13, <1>14, <1>15, <1>16, <1>17, <1>18, <1>19, <1>20, <1>21
        DEF Proceed

LEMMA BrowserStep ==
  PageInv /\ [BrowserNext]_browserVars => PageInv'
<1> SUFFICES ASSUME PageInv, [BrowserNext]_browserVars PROVE PageInv'
  OBVIOUS
<1>1. /\ render \in [Renderers -> RenderType] /\ page \in [Pages -> Tab]
      /\ backend \in {"none", "starting", "ready", "broken"}
      /\ open \subseteq Renderers
  BY TypesOf DEF PageInv
<1>2. ASSUME NEW r \in Renderers, NEW url \in Starts, NEW recipe \in Recipes, Render(r, url, recipe)
      PROVE  PageInv'
  <2>1. r \notin open
    BY <1>2 DEF Render, IsAt, PageInv, PagesAreClosed, HasPage
  <2> DEFINE n == [Idle EXCEPT !.url = url, !.recipe = recipe,
                               !.pc = IF backend = "none" THEN "starting" ELSE "page"]
  <2>2. n \in RenderType
    BY AskedType DEF Phases
  <2>3. render' = [render EXCEPT ![r] = n]
    BY <1>2 DEF Render
  <2>4. backend' \in {"none", "starting", "ready", "broken"} /\ page' = page /\ open' = open
    BY <1>1, <1>2 DEF Render
  <2> HIDE DEF n
  <2> QED BY <1>1, <2>1, <2>2, <2>3, <2>4, PhaseStep
<1>3. ASSUME NEW p \in Pages, Loads(p) PROVE PageInv'
  <2>1. page' \in [Pages -> Tab]
    <3> DEFINE more == IF page[p].items < MaxItems THEN page[p].items + 1 ELSE page[p].items
    <3>1. page[p] \in Tab /\ more \in 0..MaxItems
      BY <1>1, BrowserAssumption DEF Tab, BrowserAssumption
    <3>2. page' = [page EXCEPT ![p] = [page[p] EXCEPT !.pending = FALSE, !.items = more]]
      BY <1>3 DEF Loads
    <3> HIDE DEF more
    <3> QED BY <1>1, <3>1, <3>2 DEF Tab
  <2> QED BY <1>1, <1>3, <2>1, TypesOf
          DEF Loads, PageInv, PagesAreClosed, HasPage, BrowserTypeOK, Tab, RenderType, Phases
<1>4. ASSUME CloseBackend PROVE PageInv'
  <2>1. page' \in [Pages -> Tab]
    BY <1>4, TabType DEF CloseBackend
  <2>2. \A q \in RenderType : [q EXCEPT !.cut = TRUE] \in RenderType
    BY DEF RenderType
  <2>3. render' \in [Renderers -> RenderType]
    BY <1>1, <1>4, <2>2 DEF CloseBackend
  <2>4. BrowserTypeOK'
    BY <1>4, <2>1, <2>3 DEF CloseBackend, BrowserTypeOK, Tab, RenderType, Phases
  <2> QED BY <1>4, <2>4 DEF CloseBackend, PageInv, PagesAreClosed
<1>5. ASSUME UNCHANGED browserVars PROVE PageInv'
  BY <1>1, <1>5
     DEF browserVars, PageInv, PagesAreClosed, HasPage, BrowserTypeOK, Tab, RenderType, Phases, Pages
<1> QED BY <1>2, <1>3, <1>4, <1>5, ProceedStep DEF BrowserNext

-----------------------------------------------------------------------------
LEMMA HttpStep == HttpInv /\ [HttpNext]_httpVars => HttpInv'
<1> SUFFICES ASSUME HttpInv, [HttpNext]_httpVars PROVE HttpInv'
  OBVIOUS
<1>1. CASE UNCHANGED httpVars
  BY <1>1 DEF httpVars, HttpInv, HttpTypes, Slots, Line, Sent
<1> QED BY <1>1, GetStep, WokenStep, AnsweredStep, CloseStep DEF HttpNext

LEMMA HttpStart == HttpInit => HttpInv
<1>1. ASSUME HttpInit, NEW h \in Hosts PROVE Sent(h) = {}
  BY <1>1 DEF HttpInit, Sent
<1>2. ASSUME HttpInit PROVE \A h \in Hosts : sem[h] = NoSem /\ queue[h] = <<>> /\ sem[h] \in Int
  BY <1>2 DEF HttpInit, NoSem
<1>3. ASSUME HttpInit PROVE HttpTypes
  <2>1. NoSem \in Int /\ <<>> \in Seq(Getters) /\ Away \in GetType
    BY DEF NoSem, Away, GetType
  <2> QED BY <1>3, <2>1 DEF HttpInit, HttpTypes, Away
<1>4. Len(<<>>) = 0
  OBVIOUS
<1> QED BY <1>1, <1>2, <1>3, <1>4 DEF HttpInv, Slots, Line

\* For any number of getters and hosts no slot of a host's semaphore is lost or given twice
\* (fetch/http.py: get, close).
THEOREM SlotsHold == FetchSpec => []SlotsAddUp
<1>1. HttpInv => SlotsAddUp
  BY DEF HttpInv, Slots, SlotsAddUp
<1>2. FetchInit => HttpInv
  BY HttpStart DEF FetchInit
<1>3. HttpInv /\ [FetchNext]_fetchVars => HttpInv'
  BY HttpStep DEF FetchNext, fetchVars, httpVars
<1> QED BY <1>1, <1>2, <1>3, PTL DEF FetchSpec

\* Whatever recipes are run and wherever they fail, each open page belongs to a render that
\* still works on it or closes it (fetch/browser.py: render).
THEOREM PagesHold == FetchSpec => [](BrowserTypeOK /\ PagesAreClosed)
<1>1. FetchInit => PageInv
  <2> SUFFICES ASSUME BrowserInit PROVE PageInv
    BY DEF FetchInit
  <2>1. Idle \in RenderType /\ NewTab(Blank) \in Tab
    BY IdleType, TabType
  <2>2. render \in [Renderers -> RenderType] /\ page \in [Pages -> Tab]
    BY <2>1 DEF BrowserInit
  <2>3. backend = "none" /\ open = {}
    BY DEF BrowserInit
  <2>4. BrowserTypeOK
    BY <2>2, <2>3, TypesOf
  <2> QED BY <2>3, <2>4 DEF PageInv, PagesAreClosed
<1>2. PageInv /\ [FetchNext]_fetchVars => PageInv'
  BY BrowserStep DEF FetchNext, fetchVars, browserVars
<1> QED BY <1>1, <1>2, PTL DEF FetchSpec, PageInv

=============================================================================
