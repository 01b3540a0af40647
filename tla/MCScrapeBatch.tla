--------------------------- MODULE MCScrapeBatch ----------------------------
(* Small instances of ScrapeBatch for TLC: two homepages, a feed, three hosts. *)
EXTENDS ScrapeBatch

CONSTANTS P, Q, ap, bq, cr, sp, S1, S2

SomeCanon == "ap" :> ap @@ "ap?utm" :> ap @@ "bq" :> bq @@ "cr" :> cr @@ "sp" :> sp @@ "mailto" :> NoUrl
SomeHosts == ap :> "p" @@ bq :> "q" @@ cr :> "r" @@ sp :> "p"

Quake == <<"quake", "hits", "town">>
QuakeToo == <<"quake", "hits", "big", "town">>
Other == <<"bank", "cuts", "rates">>
More == <<"more">>

Anchor(href, text) == [href |-> href, text |-> text, chrome |-> FALSE]
Item(href, text, summary) == [href |-> href, text |-> text, summary |-> summary]

SomePages ==
  P :> {<<Anchor("ap", More), Anchor("ap?utm", Quake), [Anchor("cr", Other) EXCEPT !.chrome = TRUE],
          Anchor("ap", QuakeToo), Anchor("mailto", Other), Anchor("cr", QuakeToo)>>} @@
  Q :> {<<Anchor("bq", Quake), Anchor("sp", Other), Anchor("ap", Other), Anchor("cr", Other)>>, <<Anchor("bq", Other)>>}
SomeFeeds ==
  P :> {<<Item("ap?utm", Quake, S1), Item("bq", More, S1), Item("cr", QuakeToo, S1)>>,
        <<Item("bq", Other, S1), Item("sp", Other, S1), Item("bq", QuakeToo, S2)>>} @@
  Q :> {}
SomeSummaries == [u \in {ap, bq, cr, sp} |-> IF u = ap THEN {NoText, S2} ELSE {S2}]

SomeBatches == {[mode |-> "combined", urls |-> <<P, Q>>, topN |-> 1, width |-> 2],
                [mode |-> "combined", urls |-> <<Q, Q>>, topN |-> 2, width |-> 1],
                [mode |-> "links", urls |-> <<Q, P>>, topN |-> 0, width |-> 1]}
=============================================================================
