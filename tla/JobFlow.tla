------------------------------ MODULE JobFlow ------------------------------
(***************************************************************************)
(* A job end to end: the loop polls its source, and a result that changed  *)
(* goes through the job's pipeline before the next poll (PollEngine's      *)
(* _fire awaits it).  A "feed" brings any list and stands for a source     *)
(* whose polls keep no state; the other kinds are the pollables of         *)
(* PagePollable, Marketplace and Harvest.  The jobs are those the files of *)
(* the start declare (JobFiles).                                           *)
(***************************************************************************)
EXTENDS JobPipeline, PagePollable, Marketplace, Harvest, JobFiles

CONSTANTS
  Starts,   \* a sequence of what the service may be started with: [flows: workflow files in order, plan]
  NoJob,
  Titles    \* the words the titles of a harvest sweep may hold, in the order met

VARIABLE start   \* which of them this service has; a restart reads the same files again

sources == <<pageVars, marketVars, harvestVars>>
vars == <<start, pipeVars, sources>>

PageKinds == {"site", "http", "rss", "plain"}

\* the jobs a start declares
ConfOf(s) == LET jobs == Registered(Starts[s]) IN [j \in Jobs |-> IF j \in DOMAIN jobs THEN jobs[j] ELSE NoJob]

\* what a job of a workflow file may say: its stages are those the pipeline can build
IsJob(job) ==
  /\ job.web \in BOOLEAN /\ job.csv \in BOOLEAN
  /\ \A k \in DOMAIN job.stages : IsStage(job.stages[k])
  /\ \A list \in {job.stages} \cup job.brings : list \in Seq({list[k] : k \in DOMAIN list})

\* the variables of a page are those of one job
ASSUME StartsAssumption ==
  /\ \A s \in DOMAIN Starts, j \in Jobs : IsJob(ConfOf(s)[j])
  /\ \A s \in DOMAIN Starts : IsFile(Starts[s].plan)
  /\ \A s \in DOMAIN Starts, j, k \in Jobs : {ConfOf(s)[j].kind, ConfOf(s)[k].kind} \subseteq PageKinds => j = k
  /\ Titles \subseteq Seq(Words)

Init ==
  /\ start \in DOMAIN Starts
  /\ conf = ConfOf(start)
  /\ PipeInit /\ PageInit /\ MarketInit /\ HarvestInit

Of(kinds) == {j \in Jobs : conf[j].kind \in kinds}

\* the loop polls a target once its last delivery is through
Idle(j) == todo[j] = <<>>

PageStep(j) ==
  LET kind == conf[j].kind
  IN /\ \/ /\ PagePoll /\ Idle(j) /\ UNCHANGED pipeVars
        \/ (PageFails \/ PageNotModified(kind)) /\ UNCHANGED pipeVars
        \/ /\ PageAnswers(kind)
           /\ IF PageChanged(kind) THEN Poll(j, FALSE, <<[page |-> FingerprintOf(kind)]>>)
                                   ELSE UNCHANGED pipeVars
        \/ \E new \in Snapshots : PageEdit(new) /\ UNCHANGED pipeVars
     /\ UNCHANGED <<marketVars, harvestVars>>

MarketStep(j) ==
  /\ \/ SweepBegin /\ Idle(j) /\ UNCHANGED pipeVars
     \/ \E pages \in Searches : \E detailed \in [DOMAIN pages -> SUBSET Products] :
          /\ SweepEnd(pages, detailed)
          /\ IF rows # SweepRows(pages, detailed) THEN Poll(j, TRUE, SweepRows(pages, detailed))
                                                  ELSE UNCHANGED pipeVars
     \/ MarketTick /\ UNCHANGED pipeVars
  /\ UNCHANGED <<pageVars, harvestVars>>

\* a harvest sweep reports what it found whether or not it is new
HarvestStep(j) ==
  /\ \/ /\ \E terms, bankTerms \in SUBSET Words : HarvestBegin(terms, bankTerms)
        /\ Idle(j) /\ UNCHANGED pipeVars
     \/ \E titles \in Titles :
          /\ HarvestEnd(titles)
          /\ IF titles # <<>> THEN Poll(j, TRUE, [k \in DOMAIN titles |-> [id |-> titles[k]]])
                              ELSE UNCHANGED pipeVars
  /\ UNCHANGED <<pageVars, marketVars>>

\* what a restart leaves: the files, the server, the pages
Crash == PipeRestart /\ PageRestart /\ MarketRestart /\ HarvestRestart

Next ==
  /\ \/ PipeNext /\ UNCHANGED sources
     \/ \E j \in Of(PageKinds) : PageStep(j)
     \/ \E j \in Of({"market"}) : MarketStep(j)
     \/ \E j \in Of({"harvest"}) : HarvestStep(j)
     \/ Crash
  /\ UNCHANGED start

Spec == Init /\ [][Next]_vars /\ PipeFairness

-----------------------------------------------------------------------------
(* Properties *)

\* What a site or feed job reports as new is exact (see NoticeIsExact) across 304s, failed
\* polls, edits while a poll is under way, and restarts.
NoticesAreExact == \A j \in Of(PageKinds) : NoticeIsExact(conf[j].kind)

\* The plan loads as LoadsAsWritten says.
PlanLoadsAsWritten == LoadsAsWritten(Starts[start].plan)
=============================================================================
