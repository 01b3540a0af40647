----------------------------- MODULE ScrapeApp -----------------------------
(* ujin/scrape/app.py: one process serves the scrape routes and the social routes, which *)
(* share its life: a clean stop waits for the requests of both, and a restart empties    *)
(* both memories but for the cache's rows on disk.                                       *)
EXTENDS ScrapeService, SocialChain

CONSTANT Askers   \* who calls /social/x, for each configuration to look at

ASSUME AppAssumption == Askers \in [Confs -> SUBSET Callers]

appVars == <<vars, socialVars>>

AppInit ==
  /\ Init /\ SocialInit
  /\ askers = Askers[conf]

AppNext ==
  \/ ServiceNext /\ UNCHANGED socialVars
  \/ SocialNext /\ UNCHANGED vars
  \/ Stop /\ SocialIdle /\ SocialRestart
  \/ Crash /\ SocialRestart

AppSpec == AppInit /\ [][AppNext]_appVars
=============================================================================
