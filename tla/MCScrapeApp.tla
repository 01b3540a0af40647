---------------------------- MODULE MCScrapeApp --------------------------
(* Small instances of ScrapeApp for TLC. *)
EXTENDS ScrapeApp

CONSTANTS r1, r2, c1, c2

\* a shell whose links are its data, and a page with links of its own, the same as the
\* shell's with its first data
Shell == {[html |-> 1, data |-> 1], [html |-> 1, data |-> 2]}
Relaunch == {[html |-> 1, data |-> 1], [html |-> 2, data |-> 1]}
AllPages == Shell \cup Relaunch
TheirLinks == [b \in Bodies |-> IF b.html = 1 THEN b.data ELSE 1]

Conf(override, rss, browser, learn, pages, asks1, asks2) ==
  [override |-> override, rss |-> rss, browser |-> browser, learn |-> learn,
   pages |-> pages, asks |-> (r1 :> asks1) @@ (r2 :> asks2)]

Links == {<<"links", "auto">>}

\* two callers after the links of a default host and of one with an rss override;
\* one caller with the other modes, pins, learning and a browser
Scraping ==
  {Conf("auto", FALSE, FALSE, FALSE, Relaunch, Links, Links),
   Conf("rss", TRUE, TRUE, FALSE, Shell, Links, Links),
   Conf("auto", FALSE, FALSE, FALSE, Relaunch, {<<"article", "auto">>, <<"links", "http">>}, {}),
   Conf("auto", TRUE, FALSE, TRUE, AllPages, Links, {}),
   Conf("sitemap_news", FALSE, TRUE, FALSE, AllPages,
        {<<"auto", "browser">>, <<"record", "obscura">>, <<"multi", "auto">>}, {})}

\* two callers after the posts of accounts, on a host nobody scrapes
Social == Conf("auto", FALSE, FALSE, FALSE, {[html |-> 1, data |-> 1]}, {}, {})

SomeConfs == Scraping \cup {Social}
SomeAskers == [c \in SomeConfs |-> IF c = Social THEN {c1, c2} ELSE {}]

\* callers differ in what a configuration lets them ask for, in nothing they do
Swaps == Permutations({r1, r2}) \cup Permutations({c1, c2})
=============================================================================
