----------------------------- MODULE JobManager -----------------------------
(***************************************************************************)
(* ujin/jobs: the job manager (manager.py), the rows it keeps in sqlite    *)
(* (store.py) and the service around them (app.py).  Three copies of every *)
(* job must agree: the handle in manager.jobs, the target in               *)
(* engine.targets and the row in the jobs table.                           *)
(*                                                                         *)
(* The REST handlers that create, delete, pause and resume are plain       *)
(* functions, so FastAPI runs each in a thread of its pool: its statements *)
(* are separate steps here, interleaved with the event loop (engine.run,   *)
(* cron_loop, run_now) and with the other requests.  The process may stop  *)
(* between any two steps; the database and the workflow directory remain.  *)
(*                                                                         *)
(* A poll is two steps here, its start and its end (PollEngine has the     *)
(* whole of poll_once); run_now does not overlap itself on one handle.     *)
(***************************************************************************)
EXTENDS Naturals, FiniteSets

CONSTANTS
  PlainIds,     \* ids of jobs created without one: uuids, never used twice
  FileIds,      \* ids of workflow files (the file's stem)
  PlainSpecs,   \* the specs requests may create
  FileSpecs,    \* the specs a workflow file may hold
  Threads,      \* request threads
  MaxPolls      \* model bound: polls in flight at a time

Modes == {"adaptive", "cron", "once"}
Specs == [mode : Modes, enabled : BOOLEAN]

ASSUME JobAssumption ==
  /\ PlainIds \cap FileIds = {}
  /\ PlainSpecs \subseteq Specs /\ FileSpecs \subseteq Specs
  /\ MaxPolls \in Nat

Ids == PlainIds \cup FileIds
NoSpec == [mode |-> "none", enabled |-> FALSE]

\* A handle is named by its id and by which registration of that id built it: a
\* boot registers a stored job (1) and then its workflow file (2).
Gens == 1..2
None == 0
Handles == Ids \X Gens
Drivers == {"engine", "cron", "run"}
Polls == Drivers \X Handles

VARIABLES
  phase,     \* "down" | "files" (lifespan is registering workflow files) | "up"
  todo,      \* workflow files still to be registered
  files,     \* the workflow directory
  rows,      \* the jobs table
  history,   \* ids with rows in job_runs and job_results
  used,      \* plain ids handed out so far
  jobs,      \* manager.jobs: the generation of the current handle
  targets,   \* engine.targets: the generation of the registered target
  handle,    \* JobHandle: spec.schedule.mode, spec.enabled, state, next_fire
  at,        \* where each request thread is
  arg,       \* the handle it works on
  poll,      \* each poll in flight
  cronDue    \* cron_loop's snapshot: handles it still has to poll

disk == <<files, rows, history, used>>
memory == <<jobs, targets, handle>>
requests == <<at, arg>>
loops == <<poll, cronDue>>
vars == <<phase, todo, disk, memory, requests, loops>>

Id(h) == h[1]
Gen(h) == h[2]

\* a handle as register() builds it; a job that is not an enabled cron job keeps
\* next_fire = 0, which is in the past
NewHandle(s) == [mode |-> s.mode, enabled |-> s.enabled, state |-> "idle",
                 fire |-> IF s.mode = "cron" /\ s.enabled THEN "later" ELSE "due"]
Unbuilt == NewHandle(NoSpec)
NoArg == [id |-> "none", gen |-> None]

\* an empty process: what a start finds in memory, and what a stop leaves
Nowhere == [i \in Ids |-> None]
NothingBuilt == [h \in Handles |-> Unbuilt]
AllFree == [t \in Threads |-> "free"]
NoArgs == [t \in Threads |-> NoArg]
NoPolls == [p \in Polls |-> "idle"]

Init ==
  /\ phase = "down" /\ todo = {}
  /\ jobs = Nowhere /\ targets = Nowhere /\ handle = NothingBuilt
  /\ at = AllFree /\ arg = NoArgs /\ poll = NoPolls /\ cronDue = {}
  /\ files \in [FileIds -> FileSpecs \cup {NoSpec}]
  /\ rows = [i \in Ids |-> NoSpec]
  /\ history = {} /\ used = {}

-----------------------------------------------------------------------------
(* register(): the target, then the handle *)

InEngine(s) == s.mode = "adaptive" /\ s.enabled

\* register writes engine.targets only when the job is to be driven by the engine
RegisterTarget(i, n, s) ==
  /\ handle' = [handle EXCEPT ![<<i, n>>] = NewHandle(s)]
  /\ targets' = IF InEngine(s) THEN [targets EXCEPT ![i] = n] ELSE targets

-----------------------------------------------------------------------------
(* Start and stop *)

\* load_from_store: a handle for every row; a stored once job counts as done
Boot ==
  /\ phase = "down"
  /\ phase' = "files"
  /\ todo' = {i \in FileIds : files[i] # NoSpec}
  /\ jobs' = [i \in Ids |-> IF rows[i] = NoSpec THEN None ELSE 1]
  /\ targets' = [i \in Ids |-> IF InEngine(rows[i]) THEN 1 ELSE None]
  /\ handle' = [h \in Handles |->
       IF Gen(h) # 1 \/ rows[Id(h)] = NoSpec THEN Unbuilt
       ELSE [NewHandle(rows[Id(h)]) EXCEPT
               !.state = IF rows[Id(h)].mode = "once" THEN "done" ELSE @]]
  /\ UNCHANGED <<disk, requests, loops>>

\* lifespan: create(spec) for one workflow file, over whatever its id named before
LoadFile(i) ==
  /\ phase = "files" /\ i \in todo
  /\ todo' = todo \ {i}
  /\ RegisterTarget(i, 2, files[i])
  /\ jobs' = [jobs EXCEPT ![i] = 2]
  /\ rows' = [rows EXCEPT ![i] = files[i]]
  /\ UNCHANGED <<phase, files, history, used, requests, loops>>

Serve ==
  /\ phase = "files" /\ todo = {}
  /\ phase' = "up"
  /\ UNCHANGED <<todo, disk, memory, requests, loops>>

\* shutdown or crash, between any two steps
Stop ==
  /\ phase # "down"
  /\ phase' = "down" /\ todo' = {}
  /\ jobs' = Nowhere /\ targets' = Nowhere /\ handle' = NothingBuilt
  /\ at' = AllFree /\ arg' = NoArgs /\ poll' = NoPolls /\ cronDue' = {}
  /\ UNCHANGED disk

\* somebody edits the mounted directory; only a start reads it, all of it at once, so
\* an edit made while the service runs is the same as one made before the next start
EditFile(i) ==
  /\ phase = "down"
  /\ \E s \in (FileSpecs \cup {NoSpec}) \ {files[i]} : files' = [files EXCEPT ![i] = s]
  /\ UNCHANGED <<phase, todo, rows, history, used, memory, requests, loops>>

-----------------------------------------------------------------------------
(* Requests.  Each action is a stretch of one handler's statements that no *)
(* other thread or task can observe half done.                             *)

\* the thread goes on to label l, keeping its argument
Goto(t, l) == at' = [at EXCEPT ![t] = l] /\ UNCHANGED arg
Begin(t, l, i, n) ==
  /\ phase = "up" /\ at[t] = "free"
  /\ at' = [at EXCEPT ![t] = l]
  /\ arg' = [arg EXCEPT ![t] = [id |-> i, gen |-> n]]
Return(t) == at' = [at EXCEPT ![t] = "free"] /\ arg' = [arg EXCEPT ![t] = NoArg]
Its(t) == <<arg[t].id, arg[t].gen>>

\* POST /jobs, register(): the spec gets an id nobody has seen
CreateRegister(t) ==
  \E i \in PlainIds \ used, s \in PlainSpecs :
    /\ Begin(t, "publish", i, 1)
    /\ used' = used \cup {i}
    /\ RegisterTarget(i, 1, s)
    /\ UNCHANGED <<phase, todo, files, rows, history, jobs, loops>>

CreatePublish(t) ==
  /\ at[t] = "publish"
  /\ jobs' = [jobs EXCEPT ![arg[t].id] = arg[t].gen]
  /\ Goto(t, "upsert")
  /\ UNCHANGED <<phase, todo, disk, targets, handle, loops>>

\* store.upsert: the spec as it is now, which another request may have paused
CreateUpsert(t) ==
  /\ at[t] = "upsert"
  /\ rows' = [rows EXCEPT ![arg[t].id] =
                [mode |-> handle[Its(t)].mode, enabled |-> handle[Its(t)].enabled]]
  /\ Return(t)
  /\ UNCHANGED <<phase, todo, files, history, used, memory, loops>>

\* DELETE /jobs/{id}
DeletePop(t, i) ==
  /\ jobs[i] # None
  /\ Begin(t, "del_target", i, jobs[i])
  /\ jobs' = [jobs EXCEPT ![i] = None]
  /\ UNCHANGED <<phase, todo, disk, targets, handle, loops>>

\* MUTANT: the engine keeps the target of a deleted job
DeleteTargetForgets(t) ==
  /\ at[t] = "del_target"
  /\ Goto(t, "del_row")
  /\ UNCHANGED <<phase, todo, disk, memory, loops>>

DeleteTarget(t) ==
  /\ at[t] = "del_target"
  /\ targets' = [targets EXCEPT ![arg[t].id] = None]
  /\ Goto(t, "del_row")
  /\ UNCHANGED <<phase, todo, disk, jobs, handle, loops>>

DeleteRow(t) ==
  /\ at[t] = "del_row"
  /\ rows' = [rows EXCEPT ![arg[t].id] = NoSpec]
  /\ history' = history \ {arg[t].id}
  /\ Return(t)
  /\ UNCHANGED <<phase, todo, files, used, memory, loops>>

\* store.set_enabled: an UPDATE, which creates no row
SetEnabled(i, e) ==
  rows' = IF rows[i] = NoSpec THEN rows ELSE [rows EXCEPT ![i].enabled = e]

\* POST /jobs/{id}/pause
PauseLookup(t, i) ==
  /\ jobs[i] # None
  /\ Begin(t, "pause_flag", i, jobs[i])
  /\ UNCHANGED <<phase, todo, disk, memory, loops>>

PauseFlag(t) ==
  /\ at[t] = "pause_flag"
  /\ handle' = [handle EXCEPT ![Its(t)].enabled = FALSE, ![Its(t)].state = "paused"]
  /\ Goto(t, "pause_target")
  /\ UNCHANGED <<phase, todo, disk, jobs, targets, loops>>

PauseTarget(t) ==
  /\ at[t] = "pause_target"
  /\ targets' = [targets EXCEPT ![arg[t].id] = None]
  /\ Goto(t, "pause_row")
  /\ UNCHANGED <<phase, todo, disk, jobs, handle, loops>>

\* MUTANT: a pause is not persisted
PauseRowForgets(t) ==
  /\ at[t] = "pause_row"
  /\ Return(t)
  /\ UNCHANGED <<phase, todo, disk, memory, loops>>

PauseRow(t) ==
  /\ at[t] = "pause_row"
  /\ SetEnabled(arg[t].id, FALSE)
  /\ Return(t)
  /\ UNCHANGED <<phase, todo, files, history, used, memory, loops>>

\* POST /jobs/{id}/resume
ResumeLookup(t, i) ==
  /\ jobs[i] # None
  /\ Begin(t, "resume_flag", i, jobs[i])
  /\ UNCHANGED <<phase, todo, disk, memory, loops>>

ResumeFlag(t) ==
  /\ at[t] = "resume_flag"
  /\ handle' = [handle EXCEPT ![Its(t)].enabled = TRUE, ![Its(t)].state = "idle"]
  /\ Goto(t, "resume_row")
  /\ UNCHANGED <<phase, todo, disk, jobs, targets, loops>>

ResumeRow(t) ==
  /\ at[t] = "resume_row"
  /\ SetEnabled(arg[t].id, TRUE)
  /\ Goto(t, "resume_arm")
  /\ UNCHANGED <<phase, todo, files, history, used, memory, loops>>

\* the target returns to the engine, or the cron expression gives a next fire
ResumeArm(t) ==
  /\ at[t] = "resume_arm"
  /\ targets' = IF handle[Its(t)].mode = "adaptive"
                THEN [targets EXCEPT ![arg[t].id] = arg[t].gen] ELSE targets
  /\ handle' = IF handle[Its(t)].mode = "cron"
               THEN [handle EXCEPT ![Its(t)].fire = "later"] ELSE handle
  /\ Return(t)
  /\ UNCHANGED <<phase, todo, disk, jobs, loops>>

-----------------------------------------------------------------------------
(* The event loop *)

InFlight == {p \in Polls : poll[p] # "idle"}
Idle(d) == \A h \in Handles : poll[<<d, h>>] = "idle"
StartPolls(S) == poll' = [p \in Polls |-> IF p \in S THEN "polling" ELSE poll[p]]

\* engine.run: some registered targets are due; the loop waits for all of them
EnginePolls ==
  \E S \in SUBSET {<<i, targets[i]>> : i \in {x \in Ids : targets[x] # None}} :
    /\ phase = "up" /\ Idle("engine") /\ S # {}
    /\ Cardinality(InFlight) + Cardinality(S) <= MaxPolls
    /\ StartPolls({<<"engine", h>> : h \in S})
    /\ UNCHANGED <<phase, todo, disk, memory, requests, cronDue>>

\* cron_loop takes its snapshot of due jobs whose circuit allows a poll; circuits
\* are not modelled here, so any of them may be missing
Due == {h \in Handles : /\ jobs[Id(h)] = Gen(h)
                        /\ handle[h].enabled /\ handle[h].mode = "cron"
                        /\ handle[h].fire = "due"}
CronSnapshot ==
  /\ phase = "up" /\ cronDue = {}
  /\ cronDue' \in SUBSET Due \ {{}}
  /\ UNCHANGED <<phase, todo, disk, memory, requests, poll>>

\* and polls the snapshot's handles one after the other, asking nothing again
CronPoll(h) ==
  /\ h \in cronDue /\ Idle("cron")
  /\ Cardinality(InFlight) < MaxPolls
  /\ StartPolls({<<"cron", h>>})
  /\ UNCHANGED <<phase, todo, disk, memory, requests, cronDue>>

\* POST /jobs/{id}/run
RunNow(i) ==
  LET h == <<i, jobs[i]>> IN
  /\ phase = "up" /\ jobs[i] # None
  /\ poll[<<"run", h>>] = "idle"
  /\ Cardinality(InFlight) < MaxPolls
  /\ StartPolls({<<"run", h>>})
  /\ handle' = [handle EXCEPT ![h].state = "running"]
  /\ UNCHANGED <<phase, todo, disk, jobs, targets, requests, cronDue>>

\* MUTANT: a delivery puts its target back into the engine
DeliverRearms(p) ==
  /\ poll[p] = "polling"
  /\ poll' = [poll EXCEPT ![p] = "delivering"]
  /\ history' = history \cup {Id(p[2])}
  /\ targets' = [targets EXCEPT ![Id(p[2])] = Gen(p[2])]
  /\ UNCHANGED <<phase, todo, files, rows, used, jobs, handle, requests, cronDue>>

\* content changed: on_change records a run and a result, then runs the pipeline
Deliver(p) ==
  /\ poll[p] = "polling"
  /\ poll' = [poll EXCEPT ![p] = "delivering"]
  /\ history' = history \cup {Id(p[2])}
  /\ UNCHANGED <<phase, todo, files, rows, used, memory, requests, cronDue>>

\* poll_once returns to whoever called it; only a poll that delivered nothing failed
PollEnds(p) ==
  LET h == p[2] IN
  /\ poll[p] # "idle"
  /\ poll' = [poll EXCEPT ![p] = "idle"]
  /\ cronDue' = IF p[1] = "cron" THEN cronDue \ {h} ELSE cronDue
  /\ CASE p[1] = "run" ->
            \E s \in IF poll[p] = "polling" THEN {"idle", "error"} ELSE {"idle"} :
              handle' = [handle EXCEPT ![h].state = s]
       [] p[1] = "cron" -> handle' = [handle EXCEPT ![h].fire = "later"]
       [] OTHER -> UNCHANGED handle
  /\ UNCHANGED <<phase, todo, disk, jobs, targets, requests>>

\* a cron job's next fire passes
FireTime(h) ==
  /\ phase = "up" /\ handle[h].mode = "cron" /\ handle[h].fire = "later"
  /\ handle' = [handle EXCEPT ![h].fire = "due"]
  /\ UNCHANGED <<phase, todo, disk, jobs, targets, requests, loops>>

-----------------------------------------------------------------------------
Request(t) ==
  \/ CreateRegister(t) \/ CreatePublish(t) \/ CreateUpsert(t)
  \/ DeleteTarget(t) \/ DeleteRow(t)
  \/ PauseFlag(t) \/ PauseTarget(t) \/ PauseRow(t)
  \/ ResumeFlag(t) \/ ResumeRow(t) \/ ResumeArm(t)
  \/ \E i \in Ids : DeletePop(t, i) \/ PauseLookup(t, i) \/ ResumeLookup(t, i)

CronStep == CronSnapshot \/ \E h \in Handles : CronPoll(h)

Next ==
  \/ Boot \/ Serve \/ Stop
  \/ \E i \in FileIds : LoadFile(i) \/ EditFile(i)
  \/ \E t \in Threads : Request(t)
  \/ EnginePolls \/ CronStep
  \/ \E i \in Ids : RunNow(i)
  \/ \E p \in Polls : Deliver(p) \/ PollEnds(p)
  \/ \E h \in Handles : FireTime(h)

\* polls end, the two loops go round, requests that began are finished
Finish(t) == Request(t) /\ at[t] # "free"

Fairness ==
  /\ \A t \in Threads : WF_vars(Finish(t))
  /\ WF_vars(EnginePolls) /\ WF_vars(CronStep)
  /\ \A p \in Polls : WF_vars(PollEnds(p))

Spec == Init /\ [][Next]_vars /\ Fairness

-----------------------------------------------------------------------------
(* Properties *)

Quiet == phase = "up" /\ \A t \in Threads : at[t] = "free"
Current(i) == handle[<<i, jobs[i]>>]

\* A workflow file whose job the engine is not to drive (disabled, or of another mode)
\* took over a stored row that the engine drives: register() leaves the row's target in
\* engine.targets, and the engine goes on polling for the handle that was replaced.
LeftBehind(i) == jobs[i] = 2 /\ ~InEngine(Current(i)) /\ targets[i] = 1

EngineAgrees(i) ==
  \/ targets[i] = IF jobs[i] # None /\ InEngine(Current(i)) THEN jobs[i] ELSE None
  \/ LeftBehind(i)

\* Between requests the engine drives exactly the enabled adaptive jobs, each
\* through its current handle: no deleted, paused or replaced job is still polled,
\* no enabled one is forgotten (create, delete, pause, resume and both start-up
\* passes of manager.py and app.py).  The one exception is a target left behind.
EngineMatchesJobs == Quiet => \A i \in Ids : EngineAgrees(i)

\* Between requests the database holds exactly the jobs in memory, with their mode
\* and their enabled flag, so a stop at that point loses and revives nothing.
StoreMatchesJobs ==
  Quiet => \A i \in Ids :
    IF jobs[i] = None THEN rows[i] = NoSpec
    ELSE rows[i] = [mode |-> Current(i).mode, enabled |-> Current(i).enabled]

\* A job that is gone and on which no request is at work (deleted, or its creation
\* was cut off) never comes back: not by a request for another job, not by a poll in
\* flight, not by a stop and the restart after it.
Gone(i) == i \in used /\ jobs[i] = None /\ targets[i] = None /\ rows[i] = NoSpec
Unattended(i) == \A t \in Threads : at[t] = "free" \/ arg[t].id # i

GoneStaysGone == [][\A i \in PlainIds : Unattended(i) /\ Gone(i) => Gone(i)']_vars

=============================================================================
