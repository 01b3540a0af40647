--------------------------- MODULE FetchBackends ---------------------------
(* The fetch backends of one service side by side, as build_scrape_components wires *)
(* them: the HTTP session and the browser fetcher, which share nothing.              *)
EXTENDS HttpFetcher, BrowserFetcher

fetchVars == <<httpVars, browserVars>>

TypeOK == HttpTypeOK /\ BrowserTypeOK

FetchInit == HttpInit /\ BrowserInit

FetchNext ==
  \/ HttpNext /\ UNCHANGED browserVars
  \/ BrowserNext /\ UNCHANGED httpVars

FetchSpec == FetchInit /\ [][FetchNext]_fetchVars /\ HttpFairness /\ BrowserFairness
=============================================================================
