--------------------------- MODULE MCJobFlow -----------------------------
(* Small instances of JobFlow for TLC. *)
EXTENDS JobFlow

CONSTANTS j1, j2, p1, p2, w1, w2, w3, s1, s2, s3, x, y

\* items: a plain one, one with another price, one whose price is no number, one without an id
A == [id |-> 1, price |-> 5]
B == [id |-> 2, price |-> 2, sku |-> 1]
C == [id |-> 3, price |-> Odd]
D == [price |-> 2]

TokensOf(item) == Cardinality(DOMAIN item)

Dedupe(max) == [kind |-> "dedupe", key |-> "id", max |-> max]
ByPrice(rev) == [kind |-> "sort", key |-> "price", reverse |-> rev]
Pieces(size, budget) == [kind |-> "chunk", size |-> size, token_budget |-> budget]
OneByOne == [kind |-> "flatten"]
Dear == [kind |-> "filter", op |-> "gt", key |-> "price", value |-> 3, negate |-> FALSE]
NotOf(op, v) == [kind |-> "filter", op |-> op, key |-> "id", value |-> v, negate |-> TRUE]
Shape == [kind |-> "select", where |-> [price |-> 2], fields |-> {"id", "price"}]
Last1 == [kind |-> "limit", count |-> 1, from |-> "tail"]
First1 == [kind |-> "limit", count |-> 1, from |-> "head"]
Sku == [kind |-> "rename", old |-> "sku", new |-> "code", drop_missing |-> TRUE]
IdFilled == [kind |-> "fill", field |-> "id", default |-> 0]
UniqueIds == [kind |-> "unique", key |-> "id"]
Totals == [kind |-> "aggregate", by |-> "id", field |-> "price"]

Job(kind, chain, w, c, b) == [kind |-> kind, stages |-> chain, web |-> w, csv |-> c, brings |-> b]
NotAJob == Job("none", <<>>, FALSE, FALSE, {})
OnlyJob(job) == (j1 :> job) @@ (j2 :> NotAJob)

Chains ==
  <<<<Dedupe(4), ByPrice(TRUE), Pieces(1, 0)>>, <<IdFilled, Dedupe(4), OneByOne>>,
    <<ByPrice(FALSE), Dedupe(1), Pieces(0, 4)>>, <<Dear, Sku, First1>>, <<NotOf("exists", 0), Shape>>,
    <<UniqueIds, NotOf("eq", 1), Last1>>, <<Dedupe(4), Totals, OneByOne>> >>
Kinds == <<"site", "http", "rss", "plain", "market", "harvest">>

\* two jobs race for the spool; one job has each of the chains and the csv file; one job has
\* each kind of source
SomeConfs ==
  <<(j1 :> Job("feed", <<Dedupe(4), Pieces(1, 0)>>, TRUE, FALSE, {<<B, A>>}))
      @@ (j2 :> Job("feed", <<>>, TRUE, FALSE, {<<A>>}))>>
  \o [k \in DOMAIN Chains |-> OnlyJob(Job("feed", Chains[k], TRUE, TRUE, {<<A>>, <<B, A>>, <<C, B, B>>, <<D, A, D>>}))]
  \o [k \in DOMAIN Kinds |-> OnlyJob(Job(Kinds[k], <<>>, FALSE, FALSE, {}))]

\* each of them as a plan, with the second job in a workflow file
PlanFile(shape, defaults, jobs) == [stem |-> "plan", shape |-> shape, defaults |-> Mapping(<<>>, defaults), jobs |-> jobs]
Entry(keys) == Mapping(<<>>, keys)
Named(id) == Id :> id
Like(kind) == (Source :> Map) @@ (Kind :> kind)
At(url) == (Source :> Map) @@ (<<"source", "config">> :> Map) @@ (<<"source", "config", "url">> :> url)
Mode(mode) == <<"mode">> :> mode
Fans2(a, b) == Matrix :> <<a, b>>
Declared(job, conf1) == Entry(Named(job) @@ Like(conf1))
Planned(jobs) ==
  [flows |-> <<[stem |-> "flow", shape |-> "ok", defaults |-> Entry(<<>>), jobs |-> <<Declared(j2, jobs[j2])>>]>>,
   plan |-> PlanFile("ok", <<>>, <<Declared(j1, jobs[j1])>>)]

\* and plans whose jobs never run: up to two entries, plain ones, ones without an id, ones
\* that share an id or cannot be built, ones that say a part of their source or replace it,
\* matrices, and fragments: missing, cyclic, lists
SomeFragments ==
  [good |-> Entry(Like(NotAJob) @@ Mode("cron")), over |-> Mapping(<<"good">>, At("u") @@ Mode("once")),
   self |-> Mapping(<<"self">>, <<>>), list |-> [items |-> <<Entry(Named(<<"a">>) @@ Like(NotAJob)), Mapping(<<"good">>, <<>>)>>]]
SomeEntries ==
  <<Entry(Like(NotAJob) @@ Mode("adaptive")), Entry(Named(<<"a">>) @@ At("u")), Entry(Named(<<"a">>) @@ (Source :> Unbuildable)),
    Entry(Named(<<"b">>) @@ (Source :> "none")), Entry(Named(Var) @@ Like(NotAJob) @@ Fans2(<<"a">>, <<"b">>)),
    Entry(Named(<<"c">>) @@ Like(NotAJob) @@ Fans2(<<"a">>, <<"b">>)), Entry(Like(NotAJob) @@ Mode(Var) @@ Fans2("once", Unbuildable)),
    Entry(Like(NotAJob) @@ (Matrix :> <<Raised>>)), Mapping(<<"over">>, Named(<<"b">>)), Mapping(<<"good", "list">>, <<>>)>>
BadEntries == <<Mapping(<<"list">>, Mode("once")), Mapping(<<"gone">>, <<>>), Mapping(<<"self">>, <<>>)>>
OneOrNone(k) == IF k = 0 THEN <<>> ELSE <<SomeEntries[k]>>
Pairs(defaults) ==
  [k \in 1 .. 121 |-> PlanFile("ok", defaults, OneOrNone((k - 1) \div 11) \o OneOrNone((k - 1) % 11))]
OtherPlans ==
  Pairs(<<>>) \o Pairs(Like(NotAJob) @@ At("v") @@ Mode("cron"))
    \o [k \in DOMAIN BadEntries |-> PlanFile("ok", <<>>, <<BadEntries[k]>>)] \o <<PlanFile("scalar", <<>>, <<>>),
         [PlanFile("ok", <<>>, <<SomeEntries[1]>>) EXCEPT !.defaults = Mapping(<<"list">>, <<>>)]>>
SomeStarts ==
  [k \in DOMAIN SomeConfs |-> Planned(SomeConfs[k])]
    \o [k \in DOMAIN OtherPlans |-> [flows |-> <<OtherPlans[k]>>, plan |-> OtherPlans[k]]]

\* a page with nothing on it, with two links in either order, with one of them twice, with
\* a change where a site does not look
PageOf(a, b, c) == (s1 :> a) @@ (s2 :> b) @@ (s3 :> c)
SomePages == {PageOf(Empty, Empty, Empty), PageOf(x, y, Empty), PageOf(y, x, Empty), PageOf(x, y, x), PageOf(Empty, y, Empty)}
InOrder == <<s1, s2, s3>>

\* one term finds both products at its first engine, the other is blocked, or finds the same
\* ones with another engine
TwoSearches ==
  {<< <<<<p1, p2>>, NoPage, NoPage>>, <<NoPage, Bare, NoPage>> >>,
   << <<NoPage, NoPage, <<p2>>>>, <<<<p2, p1>>, NoPage, NoPage>> >>,
   << <<NoPage, NoPage, NoPage>> >>}

SomeTitles == {<<>>, <<w1, w2>>, <<w2, w3, w1>>}
=============================================================================
