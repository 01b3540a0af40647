---------------------------- MODULE JobPipeline ----------------------------
(***************************************************************************)
(* ujin/jobs/pipeline.py and ujin/jobs/sinks.py: what happens to a changed *)
(* poll of a job.  The stages run without a pause; then each event goes to *)
(* all sinks of the job and the next event waits for the slowest.  Here    *)
(* the sinks are a webhook and a csv file, and all jobs name the same URL  *)
(* and the same file, so they share one spool directory and one csv file.  *)
(* The webhook first replays the spool, oldest first, then posts the event *)
(* with retries, and spools it when they run out.                          *)
(***************************************************************************)
EXTENDS Transforms

CONSTANTS
  Jobs,
  Retries,         \* WebhookSink.retries
  SpoolMax,        \* spool_max_files, > 0
  Inferred,        \* whether the csv sink has no configured columns
  MaxPolls,        \* bound: deliveries that reach sinks, in total
  MayCrash,        \* bound: whether the process may die (once)
  NoColumns

ASSUME PipelineAssumption ==
  /\ Retries \in Nat /\ SpoolMax \in Nat \ {0} /\ MaxPolls \in Nat /\ MayCrash \in BOOLEAN
  /\ Inferred \in BOOLEAN

VARIABLES
  conf,       \* the jobs: per id its kind of source, its stages, whether it has the webhook and
              \* the csv sink, and for a "feed", what its polls may bring
  seen,       \* per job, the memory of its dedupe stage
  todo,       \* per job, the events still to emit; the head is with the sinks
  web,        \* per job, where its webhook emit is
  csv,        \* per job, whether its csv emit is still to write
  columns,    \* per job, the columns its csv sink has settled on
  file,       \* the csv file: its header, and the columns its rows were written with
  spool,      \* the spool directory: [name, body] in the order of the names
  backend,    \* what the webhook's server does now: "up", "down" or "refuses"
  settled,    \* history: bodies the server has taken or rejected, or the sink has given up
  owed,       \* history: events that reached the sinks and no crash took
  polls, names, crashed   \* deliveries to sinks and spooled files so far; whether the process died

pipeVars == <<conf, seen, todo, web, csv, columns, file, spool, backend, settled,
              owed, polls, names, crashed>>
outside == <<backend, crashed, polls, conf>>

\* at: "off", "replay" or "post"; a replay holds the file it has read and the names that follow
Off == [at |-> "off", name |-> 0, body |-> <<>>, tries |-> 0, rest |-> <<>>]
Names == {spool[k].name : k \in DOMAIN spool}
Place(n) == CHOOSE k \in DOMAIN spool : spool[k].name = n
BodyOf(n) == spool[Place(n)].body

PipeInit ==
  /\ seen = [j \in Jobs |-> <<>>] /\ todo = [j \in Jobs |-> <<>>]
  /\ web = [j \in Jobs |-> Off] /\ csv = [j \in Jobs |-> FALSE]
  /\ columns = [j \in Jobs |-> NoColumns]
  /\ file = [header |-> NoColumns, rows |-> {}]
  /\ spool = <<>> /\ backend = "up"
  /\ settled = {} /\ owed = {}
  /\ polls = 0 /\ names = 0 /\ crashed = FALSE

-----------------------------------------------------------------------------
(* The webhook *)

Posting(body) == [at |-> "post", name |-> 0, body |-> body, tries |-> Retries, rest |-> <<>>]

\* _drain_spool goes to the next listed file that it can still open; after the last, emit posts
Replaying(files, body) ==
  IF \A k \in DOMAIN files : files[k] \notin Names THEN Posting(body)
  ELSE LET k == CHOOSE k \in DOMAIN files : files[k] \in Names /\ \A i \in 1 .. k - 1 : files[i] \notin Names
       IN [at |-> "replay", name |-> files[k], body |-> BodyOf(files[k]),
           tries |-> Retries, rest |-> SubSeq(files, k + 1, Len(files))]
Listing == [k \in DOMAIN spool |-> spool[k].name]

\* asyncio.gather over the sinks has ended
Gathered(j) == web[j].at = "off" /\ ~csv[j]

\* the head of todo goes to both sinks; an event without rows is no work for the csv sink
Emitting(j, events) ==
  /\ todo' = [todo EXCEPT ![j] = events]
  /\ web' = [web EXCEPT ![j] = IF events = <<>> \/ ~conf[j].web THEN Off ELSE Replaying(Listing, Head(events))]
  /\ csv' = [csv EXCEPT ![j] = conf[j].csv /\ events # <<>> /\ Head(events).items # <<>>]

\* MUTANT: the drain removes a file it could not deliver
RemovedAlways(name, outcome) == IF name \in Names THEN RemoveAt(spool, Place(name)) ELSE spool

\* another job may have removed the file meanwhile
Removed(name, outcome) ==
  IF outcome = "retry" \/ name \notin Names THEN spool ELSE RemoveAt(spool, Place(name))

\* MUTANT: the drain ends after its first file
RestNone(j) == <<>>

Rest(j) == web[j].rest

\* what follows an attempt that settled (ok or perm) or that was the last one (retry)
Outcome(j, outcome) ==
  IF web[j].at = "replay"
  THEN /\ spool' = Removed(web[j].name, outcome)
       /\ web' = [web EXCEPT ![j] = IF outcome = "retry" THEN Posting(Head(todo[j]))
                                                         ELSE Replaying(Rest(j), Head(todo[j]))]
       /\ settled' = IF outcome = "retry" THEN settled ELSE settled \cup {web[j].body}
       /\ UNCHANGED names
  ELSE /\ web' = [web EXCEPT ![j] = Off]
       /\ IF outcome = "retry"
          THEN \/ LET over == Len(spool) - SpoolMax + 1
                      n == IF over > 0 THEN over ELSE 0
                      kept == SubSeq(spool, n + 1, Len(spool))
                      evicted == {spool[k].body : k \in 1..n}
                  IN \/ /\ names' = names + 1
                        /\ spool' = Append(kept, [name |-> names + 1, body |-> web[j].body])
                        /\ settled' = settled \cup evicted
                     \* the write fails, after the oldest have made room for it
                     \/ spool' = kept /\ settled' = settled \cup evicted \cup {web[j].body} /\ UNCHANGED names
               \* the directory cannot be made, or spooling is off
               \/ settled' = settled \cup {web[j].body} /\ UNCHANGED <<spool, names>>
          ELSE settled' = settled \cup {web[j].body} /\ UNCHANGED <<spool, names>>

PostOK(j) ==
  /\ web[j].at # "off" /\ backend = "up"
  /\ Outcome(j, "ok")
  /\ UNCHANGED <<seen, todo, csv, columns, file, owed, outside>>

PostRefused(j) ==
  /\ web[j].at # "off" /\ backend = "refuses"
  /\ Outcome(j, "perm")
  /\ UNCHANGED <<seen, todo, csv, columns, file, owed, outside>>

\* an error, a timeout or an overloaded server; whether a timed-out body was taken is not tracked
PostFails(j) ==
  /\ web[j].at # "off" /\ backend = "down"
  /\ IF web[j].tries > 0
     THEN web' = [web EXCEPT ![j].tries = @ - 1] /\ UNCHANGED <<spool, settled, names>>
     ELSE Outcome(j, "retry")
  /\ UNCHANGED <<seen, todo, csv, columns, file, owed, outside>>

-----------------------------------------------------------------------------
(* The csv file; the lock of the path makes the write one step *)

CsvAppend(j) ==
  /\ csv[j]
  /\ LET rows == Head(todo[j]).items
         cols == IF columns[j] = NoColumns THEN DOMAIN rows[1] ELSE columns[j]
     IN /\ columns' = [columns EXCEPT ![j] = IF Inferred THEN cols ELSE NoColumns]
        /\ file' = [header |-> IF file.header = NoColumns THEN cols ELSE file.header,
                    rows |-> file.rows \cup {cols}]
  /\ csv' = [csv EXCEPT ![j] = FALSE]
  /\ UNCHANGED <<seen, todo, web, spool, settled, owed, names, outside>>

-----------------------------------------------------------------------------
(* Pipeline.__call__ *)

\* what the stages have made of a changed poll goes to the sinks, if there are any
Deliver(j, run) ==
  LET events == IF conf[j].web \/ conf[j].csv THEN run.events ELSE <<>>
  IN /\ todo[j] = <<>>
     /\ seen' = [seen EXCEPT ![j] = run.seen]
     /\ owed' = IF conf[j].web THEN owed \cup ToSet(events) ELSE owed
     /\ Emitting(j, events)
     /\ polls < MaxPolls \/ events = <<>>
     /\ polls' = IF events = <<>> THEN polls ELSE polls + 1
     /\ UNCHANGED <<columns, file, spool, settled, names, backend, crashed, conf>>

Poll(j, list, items) ==
  Deliver(j, Run(conf[j].stages, seen[j], [job |-> j, ts |-> polls, list |-> list, items |-> items]))

NextEvent(j) ==
  /\ todo[j] # <<>> /\ Gathered(j)
  /\ Emitting(j, Tail(todo[j]))
  /\ UNCHANGED <<seen, columns, file, spool, settled, owed, names, outside>>

BackendTurns(b) ==
  /\ b # backend /\ backend' = b
  /\ UNCHANGED <<conf, seen, todo, web, csv, columns, file, spool, settled,
                 owed, polls, names, crashed>>

Pending == UNION {ToSet(todo[j]) : j \in Jobs}
Spooled == {spool[k].body : k \in DOMAIN spool}

\* the process dies: the spool, the file and the server stay
PipeRestart ==
  /\ MayCrash /\ ~crashed /\ crashed' = TRUE
  /\ seen' = [j \in Jobs |-> <<>>] /\ todo' = [j \in Jobs |-> <<>>]
  /\ web' = [j \in Jobs |-> Off] /\ csv' = [j \in Jobs |-> FALSE]
  /\ columns' = [j \in Jobs |-> NoColumns]
  /\ owed' = owed \ Pending
  /\ UNCHANGED <<conf, file, spool, backend, settled, polls, names>>

PipeNext ==
  \/ \E j \in Jobs : PostOK(j) \/ PostRefused(j) \/ PostFails(j) \/ CsvAppend(j) \/ NextEvent(j)
  \/ \E j \in Jobs : \E items \in conf[j].brings : Poll(j, TRUE, items)
  \/ \E b \in {"up", "down", "refuses"} : BackendTurns(b)

\* a request ends by its timeout at the latest; the thread pool writes; the loop goes on
PipeFairness ==
  \A j \in Jobs : /\ WF_pipeVars(PostOK(j) \/ PostRefused(j) \/ PostFails(j))
                  /\ WF_pipeVars(CsvAppend(j)) /\ WF_pipeVars(NextEvent(j))

-----------------------------------------------------------------------------
(* Properties *)

\* An outage, a race of two jobs over the same spooled file or a restart loses nothing:
\* every event that reached the sinks has been received, refused for good, is spooled or
\* still with the webhook, or was given up openly: evicted from a full spool or not writable.
NothingLost == owed \subseteq settled \cup Spooled \cup Pending

\* Stages that neither drop nor reshape items: with them, an item whose id the job has not
\* seen goes out in exactly one event of the poll that brings it and one it has seen in
\* none, however the list is sorted, cut into chunks or fanned out, as long as the memory
\* holds all the ids concerned.
Carrying == {"dedupe", "sort", "fill", "chunk", "flatten"}
Ids(items) == {Field(items[k], "id") : k \in DOMAIN items}
Times(j, v, events) ==
  Cardinality({at \in (DOMAIN events) \X (1..3) :
                 LET items == events[at[1]].items IN at[2] \in DOMAIN items /\ Field(items[at[2]], "id") = v})
NewItemsGoOutOnce ==
  [][\A j \in Jobs : \A items \in conf[j].brings :
       (/\ Poll(j, TRUE, items) /\ conf[j].web /\ \A k \in DOMAIN conf[j].stages : conf[j].stages[k].kind \in Carrying
        /\ \E k \in DOMAIN conf[j].stages : conf[j].stages[k].kind = "dedupe"
             /\ Cardinality(ToSet(seen[j]) \cup Ids(items)) <= conf[j].stages[k].max)
       => \A v \in Ids(items) \ {None} : Times(j, v, todo'[j]) = IF v \in ToSet(seen[j]) THEN 0 ELSE 1]_pipeVars

\* The backlog flushes: a file that an emit has set out to replay is gone from the spool
\* in the end, unless the server stops accepting or the process dies meanwhile.
BacklogFlushes ==
  \A j \in Jobs, n \in 1..3 :
    (n \in {web[j].name} \cup ToSet(web[j].rest) /\ backend = "up" /\ ~crashed)
      ~> (n \notin Names \/ backend # "up" \/ crashed)

=============================================================================
