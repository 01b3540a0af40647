-------------------------- MODULE JobManagerProofs --------------------------
(***************************************************************************)
(* Theorems of JobManager for every set of jobs, of workflow files and of  *)
(* request threads, and any number of polls, stops and restarts.           *)
(*                                                                         *)
(* Two requests at work on the same job at once can leave the three copies *)
(* of it apart (README, section 5); so the theorems that relate the copies *)
(* are about behaviours without that, whatever else overlaps.  The         *)
(* inductive invariant says for each statement of each handler how far the *)
(* copies of its job are apart, and for every other job that they agree.   *)
(***************************************************************************)
EXTENDS JobManager, TLAPS

\* No two requests are at work on one job; those for different jobs, the polls, the
\* cron loop, edits and stops come as they like.
OneRequestPerJob ==
  \A s, t \in Threads :
    at[s] # "free" /\ at[t] # "free" /\ arg[s].id = arg[t].id => s = t

-----------------------------------------------------------------------------
(* The inductive invariant *)

Labels == {"free", "publish", "upsert", "del_target", "del_row", "pause_flag", "pause_target",
           "pause_row", "resume_flag", "resume_row", "resume_arm"}
HandleStates == [mode : Modes \cup {"none"}, enabled : BOOLEAN,
                 state : {"idle", "running", "paused", "done", "error"}, fire : {"later", "due"}]
Args == [id : Ids, gen : Gens]

TypeOK ==
  /\ phase \in {"down", "files", "up"} /\ todo \subseteq FileIds
  /\ files \in [FileIds -> FileSpecs \cup {NoSpec}]
  /\ rows \in [Ids -> Specs \cup {NoSpec}]
  /\ used \subseteq PlainIds
  /\ jobs \in [Ids -> Gens \cup {None}] /\ targets \in [Ids -> Gens \cup {None}]
  /\ handle \in [Handles -> HandleStates]
  /\ at \in [Threads -> Labels] /\ arg \in [Threads -> Args \cup {NoArg}]
  /\ \A t \in Threads : at[t] # "free" => arg[t] \in Args

\* What a row holds of a handle.
RowOf(h) == [mode |-> handle[h].mode, enabled |-> handle[h].enabled]

StoreAgrees(i) ==
  IF jobs[i] = None THEN rows[i] = NoSpec
  ELSE rows[i] # NoSpec /\ rows[i] = RowOf(<<i, jobs[i]>>)

\* How far the copies of its job are apart where a request is.
Midway(t) ==
  LET i == arg[t].id
      h == Its(t)
      current == jobs[i] = arg[t].gen
      fresh == targets[i] = IF InEngine(handle[h]) THEN arg[t].gen ELSE None
      loose == \/ targets[i] = None
               \/ targets[i] = arg[t].gen /\ handle[h].mode = "adaptive"
               \/ targets[i] = 1 /\ arg[t].gen = 2
      stored == rows[i] # NoSpec /\ rows[i].mode = handle[h].mode
  IN
  /\ at[t] = "publish" =>
       jobs[i] = None /\ rows[i] = NoSpec /\ RowOf(h) \in Specs /\ fresh
  /\ at[t] = "upsert" => current /\ rows[i] = NoSpec /\ RowOf(h) \in Specs /\ fresh
  /\ at[t] = "del_target" => jobs[i] = None
  /\ at[t] = "del_row" => jobs[i] = None /\ targets[i] = None
  /\ at[t] \in {"pause_flag", "resume_flag"} => current /\ EngineAgrees(i) /\ StoreAgrees(i)
  /\ at[t] = "pause_target" => current /\ stored /\ ~handle[h].enabled
  /\ at[t] = "pause_row" => current /\ stored /\ ~handle[h].enabled /\ targets[i] = None
  /\ at[t] = "resume_row" => current /\ stored /\ handle[h].enabled /\ loose
  /\ at[t] = "resume_arm" => current /\ rows[i] = RowOf(h) /\ handle[h].enabled /\ loose
                             /\ rows[i] # NoSpec

\* The job i: what the request at work on it says, or all copies agree.
Stage(i) ==
  /\ Unattended(i) => EngineAgrees(i) /\ StoreAgrees(i)
  /\ \A t \in Threads : at[t] # "free" /\ arg[t].id = i => Midway(t)

JobInv ==
  /\ \A t \in Threads : at[t] # "free" => phase = "up"
  /\ phase = "files" => \A i \in todo : files[i] # NoSpec /\ jobs[i] # 2
  /\ \A t \in Threads : at[t] # "free" => arg[t].id \in FileIds \cup used
  /\ \A i \in PlainIds \ used : rows[i] = NoSpec /\ jobs[i] = None /\ targets[i] = None
  /\ \A t \in Threads : at[t] \in {"publish", "upsert"} => arg[t].id \in PlainIds
  /\ phase # "down" => \A i \in Ids : Stage(i)

IInv == TypeOK /\ JobInv

\* What TypeOK alone needs: a job that is being created has its spec in its handle.
TypeInv ==
  /\ TypeOK
  /\ \A t \in Threads : /\ at[t] # "free" => phase = "up"
                        /\ at[t] \in {"publish", "upsert"} => handle[Its(t)].mode \in Modes

-----------------------------------------------------------------------------
(* Facts about handles and rows *)

LEMMA HandleParts ==
  /\ \A i \in Ids, n \in Gens : /\ <<i, n>> \in Handles
                                /\ Id(<<i, n>>) = i /\ Gen(<<i, n>>) = n
  /\ \A h \in Handles : Id(h) \in Ids /\ Gen(h) \in Gens /\ h = <<Id(h), Gen(h)>>
  /\ None \notin Gens
BY DEF Handles, Id, Gen, Gens, None

LEMMA SpecParts ==
  /\ NoSpec \notin Specs /\ NoSpec.mode = "none" /\ NoSpec.enabled = FALSE
  /\ \A s \in Specs : s.mode \in Modes /\ s.enabled \in BOOLEAN
                      /\ s = [mode |-> s.mode, enabled |-> s.enabled]
  /\ \A s \in Specs : s.mode # "none"
  /\ FileSpecs \subseteq Specs /\ PlainSpecs \subseteq Specs
BY JobAssumption DEF JobAssumption, Specs, Modes, NoSpec

\* register() copies the spec into the handle.
LEMMA Registered ==
  ASSUME NEW s \in Specs \cup {NoSpec}
  PROVE  /\ NewHandle(s) \in HandleStates
         /\ NewHandle(s).mode = s.mode /\ NewHandle(s).enabled = s.enabled
<1>1. s.mode \in Modes \cup {"none"} /\ s.enabled \in BOOLEAN
  BY SpecParts
<1> QED BY <1>1 DEF NewHandle, HandleStates

\* The spec a handle has now.
SameSpec(h) == handle'[h].mode = handle[h].mode /\ handle'[h].enabled = handle[h].enabled

LEMMA OneHandle ==
  ASSUME TypeOK, NEW h \in Handles, NEW v \in HandleStates, handle' = [handle EXCEPT ![h] = v]
  PROVE  /\ handle' \in [Handles -> HandleStates]
         /\ handle'[h] = v /\ \A g \in Handles \ {h} : SameSpec(g)
BY DEF TypeOK, SameSpec

-----------------------------------------------------------------------------
(* Two kinds of steps: those that change no spec and no copy, and those of *)
(* one request, which reach the copies of one job.                         *)

LEMMA AgreementKept ==
  ASSUME NEW i \in Ids,
         jobs'[i] = jobs[i], targets'[i] = targets[i], rows'[i] = rows[i],
         jobs[i] # None => SameSpec(<<i, jobs[i]>>)
  PROVE  /\ EngineAgrees(i) => EngineAgrees(i)'
         /\ StoreAgrees(i) => StoreAgrees(i)'
<1>1. jobs[i] # None => InEngine(Current(i))' = InEngine(Current(i))
  BY DEF InEngine, Current, SameSpec
<1>2. EngineAgrees(i) => EngineAgrees(i)'
  <2>1. CASE jobs[i] = None
    BY <2>1 DEF EngineAgrees, LeftBehind, None
  <2>2. CASE jobs[i] # None
    <3> HIDE DEF InEngine, Current
    <3> QED BY <1>1, <2>2 DEF EngineAgrees, LeftBehind
  <2> QED BY <2>1, <2>2
<1>3. StoreAgrees(i) => StoreAgrees(i)'
  BY DEF StoreAgrees, RowOf, SameSpec
<1> QED BY <1>2, <1>3

LEMMA CopiesKept ==
  ASSUME IInv, UNCHANGED <<rows, used, jobs, targets, at, arg>>,
         \A h \in Handles : SameSpec(h),
         \/ UNCHANGED <<phase, todo, files>>
         \/ phase' = "up" /\ phase # "down"
         \/ phase # "files" /\ UNCHANGED <<phase, todo>>
  PROVE  JobInv'
<1>1. \A t \in Threads : at[t] # "free" => arg[t].id \in Ids /\ Its(t) \in Handles
  BY HandleParts DEF IInv, TypeOK, Args, Its
<1>2. \A i \in Ids : jobs[i] # None => SameSpec(<<i, jobs[i]>>)
  BY HandleParts DEF IInv, TypeOK
<1>3. \A i \in Ids : /\ EngineAgrees(i) => EngineAgrees(i)'
                     /\ StoreAgrees(i) => StoreAgrees(i)'
  BY <1>2, AgreementKept
<1>4. \A t \in Threads : at[t] # "free" => (RowOf(Its(t)) = RowOf(Its(t))'
                                            /\ SameSpec(Its(t)) /\ Its(t)' = Its(t))
  BY <1>1 DEF RowOf, SameSpec, Its
<1>5. ASSUME NEW t \in Threads, at[t] # "free", Midway(t) PROVE Midway(t)'
  BY <1>1, <1>3, <1>4, <1>5 DEF Midway, InEngine, SameSpec
<1>6. ASSUME NEW i \in Ids, Stage(i) PROVE Stage(i)'
  BY <1>3, <1>5, <1>6 DEF Stage, Unattended
<1> QED BY <1>6 DEF IInv, JobInv

\* A request at work on job i goes on, begins or ends, and no other job notices.
LEMMA RequestStep ==
  ASSUME IInv, TypeOK', OneRequestPerJob, OneRequestPerJob',
         NEW t \in Threads, NEW i \in Ids,
         phase = "up", UNCHANGED <<phase, files>>,
         \A s \in Threads \ {t} : at'[s] = at[s] /\ arg'[s] = arg[s],
         at[t] # "free" \/ at'[t] # "free",
         at[t] = "free" \/ arg[t].id = i,
         at'[t] = "free" \/ arg'[t].id = i,
         \A j \in Ids \ {i} : jobs'[j] = jobs[j] /\ targets'[j] = targets[j] /\ rows'[j] = rows[j],
         \A j \in Ids \ {i}, n \in Gens : SameSpec(<<j, n>>),
         used \subseteq used', i \in FileIds \cup used',
         at'[t] \in {"publish", "upsert"} => i \in PlainIds,
         at'[t] = "free" => EngineAgrees(i)' /\ StoreAgrees(i)',
         at'[t] # "free" => Midway(t)'
  PROVE  JobInv'
<1>1. ASSUME NEW s \in Threads, s # t, at'[s] # "free" PROVE Midway(s)' /\ arg'[s].id # i
  <2>1. at[s] # "free" /\ arg'[s] = arg[s] /\ at'[s] = at[s]
    BY <1>1
  <2>2. arg[s].id # i
    BY <1>1, <2>1 DEF OneRequestPerJob
  <2>3. arg[s].id \in Ids \ {i} /\ arg[s].gen \in Gens
    BY <2>1, <2>2 DEF IInv, TypeOK, Args
  <2>4. Midway(s)
    BY <2>1, <2>3 DEF IInv, JobInv, Stage
  <2> DEFINE j == arg[s].id
             n == arg[s].gen
  <2>5. /\ jobs'[j] = jobs[j] /\ targets'[j] = targets[j] /\ rows'[j] = rows[j]
        /\ SameSpec(<<j, n>>) /\ Its(s) = <<j, n>> /\ Its(s)' = Its(s)
    BY <2>1, <2>3 DEF Its
  <2>6. /\ jobs[j] = n /\ EngineAgrees(j) => EngineAgrees(j)'
        /\ jobs[j] = n /\ StoreAgrees(j) => StoreAgrees(j)'
        /\ RowOf(<<j, n>>)' = RowOf(<<j, n>>)
    <3>1. j' = j /\ n' = n
      BY <2>1
    <3> HIDE DEF j, n
    <3>2. j \in Ids
      BY <2>3 DEF j
    <3>3. RowOf(<<j, n>>)' = RowOf(<<j, n>>)
      BY <2>5, <3>1 DEF RowOf, SameSpec
    <3>4. CASE jobs[j] = n
      BY <2>5, <3>1, <3>2, <3>3, <3>4, AgreementKept
    <3> QED BY <3>3, <3>4
  <2>7. InEngine(handle[Its(s)])' = InEngine(handle[Its(s)])
    BY <2>5 DEF InEngine, SameSpec
  <2> QED BY <2>1, <2>2, <2>4, <2>5, <2>6, <2>7 DEF Midway, SameSpec
<1>2. ASSUME NEW j \in Ids \ {i} PROVE Stage(j)'
  <2>1. Unattended(j)' => Unattended(j)
    BY DEF Unattended
  <2>2. jobs'[j] = jobs[j] /\ jobs[j] \in Gens \cup {None}
    BY DEF IInv, TypeOK
  <2>3. jobs[j] # None => SameSpec(<<j, jobs[j]>>)
    BY <2>2
  <2>4. Unattended(j) => EngineAgrees(j) /\ StoreAgrees(j)
    BY DEF IInv, JobInv, Stage
  <2>5. EngineAgrees(j) /\ StoreAgrees(j) => EngineAgrees(j)' /\ StoreAgrees(j)'
    BY <2>2, <2>3, AgreementKept
  <2> QED BY <1>1, <2>1, <2>4, <2>5 DEF Stage
<1>3. Stage(i)'
  BY <1>1 DEF Stage, Unattended
<1>4. \A s \in Threads : at'[s] # "free" => arg'[s].id \in FileIds \cup used'
  BY DEF IInv, JobInv
<1>5. \A j \in PlainIds \ used' : rows'[j] = NoSpec /\ jobs'[j] = None /\ targets'[j] = None
  BY JobAssumption DEF JobAssumption, IInv, JobInv, Ids
<1>7. \A s \in Threads : at'[s] \in {"publish", "upsert"} => arg'[s].id \in PlainIds
  BY DEF IInv, JobInv
<1> QED BY <1>2, <1>3, <1>4, <1>5, <1>7 DEF JobInv

\* Nothing is at work on the job that a new request names.
LEMMA Alone ==
  ASSUME IInv, TypeOK', OneRequestPerJob', NEW t \in Threads, NEW i \in Ids, NEW n \in Gens,
         NEW l \in Labels \ {"free"}, Begin(t, l, i, n)
  PROVE  /\ EngineAgrees(i) /\ StoreAgrees(i)
         /\ at'[t] = l /\ arg'[t] = [id |-> i, gen |-> n] /\ phase = "up" /\ at[t] = "free"
         /\ \A s \in Threads \ {t} : at'[s] = at[s] /\ arg'[s] = arg[s]
<1>1. /\ at'[t] = l /\ arg'[t] = [id |-> i, gen |-> n] /\ phase = "up" /\ at[t] = "free"
      /\ \A s \in Threads \ {t} : at'[s] = at[s] /\ arg'[s] = arg[s]
  BY DEF Begin, IInv, TypeOK
<1>2. Unattended(i)
  BY <1>1 DEF Unattended, OneRequestPerJob
<1> QED BY <1>1, <1>2 DEF IInv, JobInv, Stage

-----------------------------------------------------------------------------
(* Type correctness *)

LEMMA GotoMoves ==
  ASSUME TypeOK, NEW t \in Threads, at[t] # "free", NEW l \in Labels, Goto(t, l)
  PROVE  /\ at' \in [Threads -> Labels] /\ arg' = arg /\ at'[t] = l
         /\ \A s \in Threads \ {t} : at'[s] = at[s]
         /\ \A s \in Threads : at'[s] # "free" => arg'[s] \in Args
BY DEF TypeOK, Goto

LEMMA ReturnMoves ==
  ASSUME TypeOK, NEW t \in Threads, Return(t)
  PROVE  /\ at' \in [Threads -> Labels] /\ arg' \in [Threads -> Args \cup {NoArg}]
         /\ at'[t] = "free"
         /\ \A s \in Threads \ {t} : at'[s] = at[s] /\ arg'[s] = arg[s]
         /\ \A s \in Threads : at'[s] # "free" => arg'[s] \in Args
BY DEF TypeOK, Return, Labels

LEMMA BeginMoves ==
  ASSUME TypeOK, NEW t \in Threads, NEW i \in Ids, NEW n \in Gens, NEW l \in Labels \ {"free"},
         Begin(t, l, i, n)
  PROVE  /\ at' \in [Threads -> Labels] /\ arg' \in [Threads -> Args \cup {NoArg}]
         /\ \A s \in Threads : at'[s] # "free" => arg'[s] \in Args
BY DEF TypeOK, Begin, Args

\* A request at work has its job and its handle in hand.
LEMMA InHand ==
  ASSUME TypeOK, NEW t \in Threads, at[t] # "free"
  PROVE  /\ arg[t].id \in Ids /\ arg[t].gen \in Gens
         /\ Its(t) = <<arg[t].id, arg[t].gen>> /\ Its(t) \in Handles
<1>1. arg[t].id \in Ids /\ arg[t].gen \in Gens
  BY DEF TypeOK, Args
<1> QED BY <1>1, HandleParts DEF Its

LEMMA Going ==
  ASSUME IInv, NEW t \in Threads, at[t] # "free"
  PROVE  /\ phase = "up" /\ Midway(t)
         /\ arg[t].id \in Ids /\ arg[t].gen \in Gens /\ arg[t].id \in FileIds \cup used
         /\ Its(t) = <<arg[t].id, arg[t].gen>> /\ Its(t) \in Handles
BY InHand DEF IInv, JobInv, Stage

\* The flag that pause and resume flip.
LEMMA Flipped ==
  ASSUME TypeOK, NEW h \in Handles, NEW e \in BOOLEAN, NEW st \in {"idle", "paused"},
         handle' = [handle EXCEPT ![h].enabled = e, ![h].state = st]
  PROVE  /\ handle' \in [Handles -> HandleStates]
         /\ handle'[h].mode = handle[h].mode /\ handle'[h].enabled = e
         /\ \A g \in Handles \ {h} : SameSpec(g)
<1>1. handle' = [handle EXCEPT ![h] = [handle[h] EXCEPT !.enabled = e, !.state = st]]
  BY DEF TypeOK, HandleStates
<1>2. handle[h] \in HandleStates
  BY DEF TypeOK
<1> DEFINE v == [handle[h] EXCEPT !.enabled = e, !.state = st]
<1>3. v \in HandleStates /\ v.mode = handle[h].mode /\ v.enabled = e
  BY <1>2 DEF HandleStates
<1> HIDE DEF v
<1>4. handle' = [handle EXCEPT ![h] = v]
  BY <1>1 DEF v
<1> QED BY <1>3, <1>4, OneHandle

\* What the loops write in a handle is not its spec.
LEMMA Marked ==
  ASSUME TypeOK, NEW h \in Handles,
         \/ \E st \in {"idle", "running", "error"} : handle' = [handle EXCEPT ![h].state = st]
         \/ \E f \in {"later", "due"} : handle' = [handle EXCEPT ![h].fire = f]
         \/ handle' = handle
  PROVE  handle' \in [Handles -> HandleStates] /\ \A g \in Handles : SameSpec(g)
BY DEF TypeOK, HandleStates, SameSpec

LEMMA EndMarks ==
  ASSUME NEW p \in Polls, PollEnds(p)
  PROVE  /\ p[2] \in Handles
         /\ \/ \E st \in {"idle", "running", "error"} : handle' = [handle EXCEPT ![p[2]].state = st]
            \/ \E f \in {"later", "due"} : handle' = [handle EXCEPT ![p[2]].fire = f]
            \/ handle' = handle
<1>1. p[2] \in Handles
  BY DEF Polls
<1>2. CASE p[1] = "run"
  BY <1>1, <1>2 DEF PollEnds
<1>3. CASE p[1] = "cron"
  BY <1>1, <1>3 DEF PollEnds
<1>4. CASE p[1] \notin {"run", "cron"}
  BY <1>1, <1>4 DEF PollEnds
<1> QED BY <1>2, <1>3, <1>4

LEMMA EnabledRow ==
  ASSUME TypeOK, NEW i \in Ids, NEW e \in BOOLEAN, SetEnabled(i, e)
  PROVE  /\ rows' \in [Ids -> Specs \cup {NoSpec}]
         /\ \A j \in Ids \ {i} : rows'[j] = rows[j]
         /\ rows[i] = NoSpec => rows'[i] = NoSpec
         /\ rows[i] # NoSpec => rows'[i] = [mode |-> rows[i].mode, enabled |-> e]
                                /\ rows'[i] # NoSpec
<1>1. CASE rows[i] = NoSpec
  BY <1>1 DEF SetEnabled, TypeOK
<1>2. CASE rows[i] # NoSpec
  <2>1. rows[i] \in Specs
    BY <1>2 DEF TypeOK
  <2>2. /\ rows' = [rows EXCEPT ![i] = [rows[i] EXCEPT !.enabled = e]]
        /\ [rows[i] EXCEPT !.enabled = e] = [mode |-> rows[i].mode, enabled |-> e]
        /\ [mode |-> rows[i].mode, enabled |-> e] \in Specs
    BY <1>2, <2>1 DEF SetEnabled, Specs, TypeOK
  <2> QED BY <2>2, SpecParts, <1>2 DEF TypeOK
<1> QED BY <1>1, <1>2

LEMMA RequestTypes ==
  ASSUME TypeInv, NEW t \in Threads, Request(t)
  PROVE  TypeOK'
<1> USE DEF disk, memory, requests, loops
<1>a. TypeOK
  BY DEF TypeInv
<1>0. /\ handle \in [Handles -> HandleStates] /\ rows \in [Ids -> Specs \cup {NoSpec}]
      /\ jobs \in [Ids -> Gens \cup {None}] /\ targets \in [Ids -> Gens \cup {None}]
  BY <1>a DEF TypeOK
<1>1. CASE CreateRegister(t)
  <2>1. PICK i \in PlainIds \ used, s \in PlainSpecs :
           /\ Begin(t, "publish", i, 1)
           /\ used' = used \cup {i}
           /\ RegisterTarget(i, 1, s)
           /\ UNCHANGED <<phase, todo, files, rows, history, jobs, loops>>
    BY <1>1 DEF CreateRegister
  <2>2. i \in Ids /\ 1 \in Gens /\ s \in Specs /\ <<i, 1>> \in Handles
    <3>1. i \in Ids /\ 1 \in Gens
      BY DEF Ids, Gens
    <3> QED BY <3>1, SpecParts, HandleParts
  <2>3. handle' \in [Handles -> HandleStates] /\ targets' \in [Ids -> Gens \cup {None}]
    BY <1>a, <1>0, <2>1, <2>2, Registered DEF RegisterTarget
  <2>4. "publish" \in Labels \ {"free"}
    BY DEF Labels
  <2> QED BY <1>a, <2>1, <2>2, <2>3, <2>4, BeginMoves DEF TypeOK
<1>2. ASSUME NEW i \in Ids, DeletePop(t, i) \/ PauseLookup(t, i) \/ ResumeLookup(t, i)
      PROVE  TypeOK'
  <2>1. /\ jobs[i] \in Gens
        /\ \E l \in Labels \ {"free"} : Begin(t, l, i, jobs[i])
        /\ UNCHANGED <<phase, todo, files, rows, used, targets, handle>>
        /\ jobs' = jobs \/ jobs' = [jobs EXCEPT ![i] = None]
    BY <1>0, <1>2 DEF DeletePop, PauseLookup, ResumeLookup, Labels
  <2> QED BY <1>a, <2>1, BeginMoves DEF TypeOK
<1>3. CASE at[t] # "free" /\ (CreatePublish(t) \/ DeleteTarget(t) \/ PauseTarget(t))
  <2>1. /\ \E l \in Labels : Goto(t, l)
        /\ UNCHANGED <<phase, todo, files, rows, used, handle>>
        /\ \/ targets' = targets /\ jobs' = [jobs EXCEPT ![arg[t].id] = arg[t].gen]
           \/ jobs' = jobs /\ targets' = [targets EXCEPT ![arg[t].id] = None]
    BY <1>3 DEF CreatePublish, DeleteTarget, PauseTarget, Labels
  <2>2. arg[t].id \in Ids /\ arg[t].gen \in Gens
    BY <1>a, <1>3, InHand
  <2> QED BY <1>a, <1>0, <1>3, <2>1, <2>2, GotoMoves DEF TypeOK
<1>4. CASE at[t] # "free" /\ (PauseFlag(t) \/ ResumeFlag(t))
  <2>1. /\ \E l \in Labels : Goto(t, l)
        /\ UNCHANGED <<phase, todo, files, rows, used, jobs, targets>>
        /\ \E e \in BOOLEAN, st \in {"idle", "paused"} :
             handle' = [handle EXCEPT ![Its(t)].enabled = e, ![Its(t)].state = st]
    BY <1>4 DEF PauseFlag, ResumeFlag, Labels
  <2>2. Its(t) \in Handles
    BY <1>a, <1>4, InHand
  <2>3. handle' \in [Handles -> HandleStates]
    BY <1>a, <2>1, <2>2, Flipped
  <2> QED BY <1>a, <1>0, <1>4, <2>1, <2>3, GotoMoves DEF TypeOK
<1>5. CASE at[t] # "free" /\ (CreateUpsert(t) \/ DeleteRow(t) \/ PauseRow(t))
  <2>1. Return(t) /\ UNCHANGED <<phase, todo, files, used, jobs, targets, handle>>
    BY <1>5 DEF CreateUpsert, DeleteRow, PauseRow
  <2>2. rows' \in [Ids -> Specs \cup {NoSpec}]
    <3>1. CASE CreateUpsert(t)
      <4>1. /\ RowOf(Its(t)) \in Specs
            /\ rows' = [rows EXCEPT ![arg[t].id] = RowOf(Its(t))]
        <5>1. at[t] = "upsert" /\ Its(t) \in Handles
          BY <1>a, <1>5, <3>1, InHand DEF CreateUpsert
        <5>2. handle[Its(t)].mode \in Modes /\ handle[Its(t)].enabled \in BOOLEAN
          BY <1>0, <5>1 DEF TypeInv, HandleStates
        <5> QED BY <3>1, <5>2 DEF CreateUpsert, RowOf, Specs
      <4> QED BY <1>0, <4>1
    <3>2. CASE DeleteRow(t)
      BY <1>0, <3>2 DEF DeleteRow
    <3>3. CASE PauseRow(t)
      BY <1>a, <1>5, <3>3, InHand, EnabledRow DEF PauseRow
    <3> QED BY <1>5, <3>1, <3>2, <3>3
  <2> QED BY <1>a, <1>0, <2>1, <2>2, ReturnMoves DEF TypeOK
<1>6. CASE at[t] # "free" /\ ResumeRow(t)
  BY <1>a, <1>0, <1>6, InHand, EnabledRow, GotoMoves DEF ResumeRow, TypeOK, Labels
<1>7. CASE at[t] # "free" /\ ResumeArm(t)
  <2>1. /\ Return(t) /\ UNCHANGED <<phase, todo, files, rows, used, jobs>>
        /\ targets' = targets \/ targets' = [targets EXCEPT ![arg[t].id] = arg[t].gen]
        /\ handle' = handle \/ handle' = [handle EXCEPT ![Its(t)].fire = "later"]
    BY <1>7 DEF ResumeArm
  <2>2. Its(t) \in Handles /\ arg[t].gen \in Gens
    BY <1>a, <1>7, InHand
  <2>3. handle' \in [Handles -> HandleStates]
    BY <1>a, <2>1, <2>2, Marked
  <2> QED BY <1>a, <1>0, <2>1, <2>2, <2>3, ReturnMoves DEF TypeOK
<1>8. at[t] = "free" => CreateRegister(t) \/ \E i \in Ids :
                          DeletePop(t, i) \/ PauseLookup(t, i) \/ ResumeLookup(t, i)
  BY DEF Request, CreatePublish, CreateUpsert, DeleteTarget, DeleteRow, PauseFlag, PauseTarget,
         PauseRow, ResumeFlag, ResumeRow, ResumeArm
<1> QED BY <1>1, <1>2, <1>3, <1>4, <1>5, <1>6, <1>7, <1>8 DEF Request

LEMMA OtherTypes ==
  ASSUME TypeOK,
         \/ Boot \/ Serve \/ Stop \/ EnginePolls \/ CronStep \/ UNCHANGED vars
         \/ \E i \in FileIds : LoadFile(i) \/ EditFile(i)
         \/ \E i \in Ids : RunNow(i)
         \/ \E p \in Polls : Deliver(p) \/ PollEnds(p)
         \/ \E h \in Handles : FireTime(h)
  PROVE  TypeOK'
<1> USE DEF vars, disk, memory, requests, loops
<1>1. CASE Boot
  <2>1. rows \in [Ids -> Specs \cup {NoSpec}] /\ 1 \in Gens
    BY DEF TypeOK, Gens
  <2>2. ASSUME NEW s \in Specs \cup {NoSpec}
        PROVE  [NewHandle(s) EXCEPT !.state = IF s.mode = "once" THEN "done" ELSE @] \in HandleStates
    BY Registered DEF HandleStates
  <2>3. Unbuilt \in HandleStates
    BY Registered DEF Unbuilt
  <2>4. \A h \in Handles : rows[Id(h)] \in Specs \cup {NoSpec}
    BY <2>1, HandleParts
  <2>5. handle' \in [Handles -> HandleStates]
    BY <1>1, <2>2, <2>3, <2>4 DEF Boot
  <2> QED BY <1>1, <2>1, <2>5 DEF Boot, TypeOK
<1>2. CASE Serve \/ EnginePolls \/ CronStep \/ UNCHANGED vars \/ \E p \in Polls : Deliver(p)
  BY <1>2 DEF TypeOK, Serve, EnginePolls, CronStep, CronSnapshot, CronPoll, Deliver
<1>3. CASE Stop
  BY <1>3, Registered
  DEF Stop, TypeOK, Nowhere, NothingBuilt, AllFree, NoArgs, Unbuilt, Labels
<1>4. ASSUME NEW i \in FileIds, LoadFile(i) PROVE TypeOK'
  <2>1. i \in Ids /\ 2 \in Gens
    BY DEF Ids, Gens
  <2>2. files[i] \in Specs \cup {NoSpec} /\ <<i, 2>> \in Handles
    BY <2>1, SpecParts, HandleParts DEF TypeOK
  <2>3. handle' \in [Handles -> HandleStates]
    BY <1>4, <2>2, Registered, OneHandle DEF LoadFile, RegisterTarget
  <2>4. targets' \in [Ids -> Gens \cup {None}]
    BY <1>4, <2>1 DEF LoadFile, RegisterTarget, TypeOK
  <2> QED BY <1>4, <2>1, <2>2, <2>3, <2>4 DEF LoadFile, TypeOK
<1>5. ASSUME NEW i \in FileIds, EditFile(i) PROVE TypeOK'
  BY <1>5 DEF EditFile, TypeOK
<1>6. ASSUME NEW h \in Handles,
             UNCHANGED <<phase, todo, files, rows, used, jobs, targets, at, arg>>,
             \/ \E st \in {"idle", "running", "error"} : handle' = [handle EXCEPT ![h].state = st]
             \/ \E f \in {"later", "due"} : handle' = [handle EXCEPT ![h].fire = f]
             \/ handle' = handle
      PROVE  TypeOK'
  <2>1. handle' \in [Handles -> HandleStates]
    BY <1>6, Marked
  <2> QED BY <1>6, <2>1 DEF TypeOK
<1>7. ASSUME NEW i \in Ids, RunNow(i) PROVE TypeOK'
  <2>1. <<i, jobs[i]>> \in Handles
    BY <1>7, HandleParts DEF RunNow, TypeOK
  <2> QED BY <1>6, <1>7, <2>1 DEF RunNow
<1>8. ASSUME NEW p \in Polls, PollEnds(p) PROVE TypeOK'
  BY <1>6, <1>8, EndMarks DEF PollEnds
<1>9. ASSUME NEW h \in Handles, FireTime(h) PROVE TypeOK'
  BY <1>6, <1>9 DEF FireTime
<1> QED BY <1>1, <1>2, <1>3, <1>4, <1>5, <1>7, <1>8, <1>9

LEMMA NextTypes ==
  ASSUME TypeInv, [Next]_vars
  PROVE  TypeOK'
BY RequestTypes, OtherTypes DEF Next, TypeInv

\* A handle gets another mode only when it is built anew, and by a request or while
\* none is at work.
LEMMA FreshKept ==
  ASSUME TypeInv, [Next]_vars
  PROVE  TypeInv'
<1> USE DEF vars, disk, memory, requests, loops
<1>1. TypeOK' /\ TypeOK
  BY NextTypes DEF TypeInv
<1>2. CASE \E t \in Threads : Request(t)
  <2>1. PICK t \in Threads : Request(t)
    BY <1>2
  <2>2. \A s \in Threads : at'[s] # "free" => phase' = "up"
    <3>1. phase' = phase
      BY <2>1 DEF Request, CreateRegister, CreatePublish, CreateUpsert, DeletePop, DeleteTarget,
         DeleteRow, PauseLookup, PauseFlag, PauseTarget, PauseRow, ResumeLookup, ResumeFlag,
         ResumeRow, ResumeArm
    <3>2. phase = "up"
      BY <2>1 DEF Request, CreateRegister, CreatePublish, CreateUpsert, DeletePop, DeleteTarget,
         DeleteRow, PauseLookup, PauseFlag, PauseTarget, PauseRow, ResumeLookup, ResumeFlag,
         ResumeRow, ResumeArm, Begin, TypeInv
    <3> QED BY <3>1, <3>2
  <2>3. CASE CreateRegister(t)
    <3>1. PICK i \in PlainIds \ used, s \in PlainSpecs :
             /\ Begin(t, "publish", i, 1)
             /\ used' = used \cup {i}
             /\ RegisterTarget(i, 1, s)
             /\ UNCHANGED <<phase, todo, files, rows, history, jobs, loops>>
      BY <2>3 DEF CreateRegister
    <3>2. s \in Specs /\ s.mode \in Modes /\ <<i, 1>> \in Handles /\ i \in Ids
      <4>1. i \in Ids /\ 1 \in Gens
        BY DEF Ids, Gens
      <4> QED BY <4>1, SpecParts, HandleParts
    <3>3. /\ handle'[<<i, 1>>].mode \in Modes
          /\ \A g \in Handles \ {<<i, 1>>} : handle'[g].mode = handle[g].mode
      BY <1>1, <3>1, <3>2, Registered, OneHandle DEF RegisterTarget, SameSpec
    <3>4. /\ arg'[t] = [id |-> i, gen |-> 1]
          /\ \A r \in Threads \ {t} : at'[r] = at[r] /\ arg'[r] = arg[r]
      BY <1>1, <3>1 DEF Begin, TypeOK
    <3>5. ASSUME NEW r \in Threads, at'[r] \in {"publish", "upsert"}
          PROVE  handle'[Its(r)'].mode \in Modes
      <4>1. CASE r = t
        BY <3>3, <3>4, <4>1 DEF Its
      <4>2. CASE r # t
        <5>1. Its(r)' = Its(r) /\ at[r] \in {"publish", "upsert"} /\ at[r] # "free"
          BY <3>4, <3>5, <4>2 DEF Its
        <5>2. Its(r) \in Handles /\ handle[Its(r)].mode \in Modes
          BY <1>1, <5>1, InHand DEF TypeInv
        <5> QED BY <3>3, <5>1, <5>2
      <4> QED BY <4>1, <4>2
    <3> QED BY <1>1, <2>2, <3>5 DEF TypeInv
  <2>4. CASE ~CreateRegister(t)
    <3>1. \A h \in Handles : handle'[h].mode = handle[h].mode
      <4>1. CASE PauseFlag(t) \/ ResumeFlag(t)
        <5>1. at[t] # "free"
              /\ \E e \in BOOLEAN, st \in {"idle", "paused"} :
                   handle' = [handle EXCEPT ![Its(t)].enabled = e, ![Its(t)].state = st]
          BY <4>1 DEF PauseFlag, ResumeFlag
        <5>2. Its(t) \in Handles
          BY <1>1, <5>1, InHand
        <5> QED BY <1>1, <5>1, <5>2, Flipped DEF SameSpec
      <4>2. CASE ResumeArm(t)
        <5>1. at[t] # "free"
              /\ (handle' = handle \/ handle' = [handle EXCEPT ![Its(t)].fire = "later"])
          BY <4>2 DEF ResumeArm
        <5>2. Its(t) \in Handles
          BY <1>1, <5>1, InHand
        <5> QED BY <1>1, <5>1, <5>2, Marked DEF SameSpec
      <4>3. CASE ~PauseFlag(t) /\ ~ResumeFlag(t) /\ ~ResumeArm(t)
        <5>1. handle' = handle
          BY <2>1, <2>4, <4>3 DEF Request, CreatePublish, CreateUpsert, DeletePop, DeleteTarget,
             DeleteRow, PauseLookup, PauseTarget, PauseRow, ResumeLookup, ResumeRow
        <5> QED BY <5>1
      <4> QED BY <4>1, <4>2, <4>3
    <3>2. ASSUME NEW r \in Threads, at'[r] \in {"publish", "upsert"}
          PROVE  Its(r)' = Its(r) /\ at[r] \in {"publish", "upsert"}
      <4>1. CASE r # t
        <5>1. at'[r] = at[r] /\ arg'[r] = arg[r]
          BY <1>1, <2>1, <2>4, <4>1 DEF Request, CreatePublish, CreateUpsert, DeletePop,
             DeleteTarget, DeleteRow, PauseLookup, PauseFlag, PauseTarget, PauseRow, ResumeLookup,
             ResumeFlag, ResumeRow, ResumeArm, Begin, Goto, Return, TypeOK
        <5> QED BY <3>2, <5>1 DEF Its
      <4>2. CASE r = t
        <5>1. CreatePublish(t)
          BY <1>1, <2>1, <2>4, <3>2, <4>2 DEF Request, CreateUpsert, DeletePop,
             DeleteTarget, DeleteRow, PauseLookup, PauseFlag, PauseTarget, PauseRow, ResumeLookup,
             ResumeFlag, ResumeRow, ResumeArm, Begin, Goto, Return, TypeOK
        <5> QED BY <4>2, <5>1 DEF CreatePublish, Goto, Its
      <4> QED BY <4>1, <4>2
    <3>3. ASSUME NEW r \in Threads, at'[r] \in {"publish", "upsert"}
          PROVE  handle'[Its(r)'].mode \in Modes
      <4>1. Its(r)' = Its(r) /\ at[r] \in {"publish", "upsert"}
        BY <3>2, <3>3
      <4>2. handle[Its(r)].mode \in Modes
        BY <4>1 DEF TypeInv
      <4>3. Its(r) \in Handles
        BY <1>1, <4>1, InHand
      <4> QED BY <3>1, <4>1, <4>2, <4>3
    <3> QED BY <1>1, <2>2, <3>3 DEF TypeInv
  <2> QED BY <2>3, <2>4
<1>3. CASE Boot \/ Stop \/ \E i \in FileIds : LoadFile(i)
  <2>1. \A t \in Threads : at'[t] = "free"
    BY <1>3 DEF Boot, Stop, LoadFile, AllFree, TypeInv
  <2> QED BY <1>1, <2>1 DEF TypeInv
<1>4. CASE \/ Serve \/ EnginePolls \/ CronStep \/ UNCHANGED vars
           \/ \E i \in FileIds : EditFile(i)
           \/ \E i \in Ids : RunNow(i)
           \/ \E p \in Polls : Deliver(p) \/ PollEnds(p)
           \/ \E h \in Handles : FireTime(h)
  <2>1. UNCHANGED <<at, arg>> /\ (phase' = phase \/ phase' = "up")
    BY <1>4 DEF Serve, EnginePolls, CronStep, CronSnapshot, CronPoll, EditFile, RunNow, Deliver,
                PollEnds, FireTime
  <2>2. \A h \in Handles : handle'[h].mode = handle[h].mode
    <3>1. CASE \E p \in Polls : PollEnds(p)
      BY <1>1, <3>1, EndMarks, Marked DEF SameSpec
    <3>2. CASE \E i \in Ids : RunNow(i)
      <4>1. PICK i \in Ids : RunNow(i)
        BY <3>2
      <4>2. /\ <<i, jobs[i]>> \in Handles
            /\ handle' = [handle EXCEPT ![<<i, jobs[i]>>].state = "running"]
        BY <1>1, <4>1, HandleParts DEF RunNow, TypeOK
      <4> QED BY <1>1, <4>2, Marked DEF SameSpec
    <3>3. CASE \E h \in Handles : FireTime(h)
      BY <1>1, <3>3, Marked DEF FireTime, SameSpec
    <3>4. CASE \/ Serve \/ EnginePolls \/ CronStep \/ UNCHANGED vars
               \/ (\E i \in FileIds : EditFile(i)) \/ \E p \in Polls : Deliver(p)
      BY <3>4 DEF Serve, EnginePolls, CronStep, CronSnapshot, CronPoll, EditFile, Deliver
    <3> QED BY <1>4, <3>1, <3>2, <3>3, <3>4
  <2>3. \A t \in Threads : at[t] # "free" => Its(t)' = Its(t) /\ Its(t) \in Handles
    BY <1>1, <2>1, InHand DEF Its
  <2> QED BY <1>1, <2>1, <2>2, <2>3 DEF TypeInv
<1> QED BY <1>2, <1>3, <1>4 DEF Next

-----------------------------------------------------------------------------
(* Requests keep JobInv *)

LEMMA CreateKeeps ==
  ASSUME IInv, TypeOK', OneRequestPerJob, OneRequestPerJob', NEW t \in Threads, CreateRegister(t)
  PROVE  JobInv'
<1> USE DEF loops
<1>1. PICK i \in PlainIds \ used, s \in PlainSpecs :
         /\ Begin(t, "publish", i, 1)
         /\ used' = used \cup {i}
         /\ RegisterTarget(i, 1, s)
         /\ UNCHANGED <<phase, todo, files, rows, history, jobs, loops>>
  BY DEF CreateRegister
<1>2. i \in Ids /\ i \notin FileIds /\ 1 \in Gens /\ s \in Specs
  BY SpecParts, JobAssumption DEF Ids, Gens, JobAssumption
<1>3. <<i, 1>> \in Handles /\ "publish" \in Labels \ {"free"}
  BY <1>2, HandleParts DEF Labels
<1>4. /\ at'[t] = "publish" /\ arg'[t] = [id |-> i, gen |-> 1]
      /\ phase = "up" /\ at[t] = "free"
      /\ \A r \in Threads \ {t} : at'[r] = at[r] /\ arg'[r] = arg[r]
  BY <1>1, <1>2, <1>3, Alone
<1>5. rows[i] = NoSpec /\ jobs[i] = None /\ targets[i] = None
  BY DEF IInv, JobInv
<1>6. NewHandle(s) \in HandleStates /\ NewHandle(s).mode = s.mode /\ NewHandle(s).enabled = s.enabled
  BY <1>2, Registered
<1>7. /\ handle'[<<i, 1>>].mode = s.mode /\ handle'[<<i, 1>>].enabled = s.enabled
      /\ \A g \in Handles \ {<<i, 1>>} : SameSpec(g)
  BY <1>1, <1>3, <1>6, OneHandle DEF RegisterTarget, IInv
<1>8. \A j \in Ids \ {i}, n \in Gens : SameSpec(<<j, n>>)
  BY <1>7, HandleParts
<1>9. /\ targets'[i] = IF InEngine(s) THEN 1 ELSE None
      /\ \A j \in Ids \ {i} : targets'[j] = targets[j]
  BY <1>1, <1>2, <1>5 DEF RegisterTarget, IInv, TypeOK
<1>10. Midway(t)'
  <2>1. Its(t)' = <<i, 1>> /\ arg'[t].id = i /\ arg'[t].gen = 1
    BY <1>4 DEF Its
  <2>2. RowOf(Its(t))' = s /\ InEngine(handle[Its(t)])' = InEngine(s)
    BY <1>2, <1>7, <2>1, SpecParts DEF RowOf, InEngine
  <2>3. jobs'[i] = None /\ rows'[i] = NoSpec
    BY <1>1, <1>5
  <2> QED BY <1>2, <1>4, <1>9, <2>1, <2>2, <2>3 DEF Midway
<1> QED BY <1>1, <1>2, <1>4, <1>8, <1>9, <1>10, RequestStep

LEMMA LookupKeeps ==
  ASSUME IInv, TypeOK', OneRequestPerJob, OneRequestPerJob', NEW t \in Threads, NEW i \in Ids,
         DeletePop(t, i) \/ PauseLookup(t, i) \/ ResumeLookup(t, i)
  PROVE  JobInv'
<1> USE DEF disk, memory, loops
<1>1. PICK l \in {"del_target", "pause_flag", "resume_flag"} :
         /\ Begin(t, l, i, jobs[i])
         /\ jobs' = IF l = "del_target" THEN [jobs EXCEPT ![i] = None] ELSE jobs
  <2>1. DeletePop(t, i) => Begin(t, "del_target", i, jobs[i]) /\ jobs' = [jobs EXCEPT ![i] = None]
    BY DEF DeletePop
  <2>2. PauseLookup(t, i) => Begin(t, "pause_flag", i, jobs[i]) /\ jobs' = jobs
    BY DEF PauseLookup
  <2>3. ResumeLookup(t, i) => Begin(t, "resume_flag", i, jobs[i]) /\ jobs' = jobs
    BY DEF ResumeLookup
  <2> QED BY <2>1, <2>2, <2>3
<1>2. jobs[i] # None /\ UNCHANGED <<phase, todo, files, rows, used, targets, handle>>
  BY DEF DeletePop, PauseLookup, ResumeLookup
<1>3. jobs[i] \in Gens /\ l \in Labels \ {"free"}
  BY <1>2 DEF IInv, TypeOK, Labels
<1>4. /\ EngineAgrees(i) /\ StoreAgrees(i)
      /\ at'[t] = l /\ arg'[t] = [id |-> i, gen |-> jobs[i]] /\ phase = "up" /\ at[t] = "free"
      /\ \A s \in Threads \ {t} : at'[s] = at[s] /\ arg'[s] = arg[s]
  BY <1>1, <1>3, Alone
<1>5. i \in FileIds \cup used
  BY <1>2 DEF IInv, JobInv, Ids
<1>6. \A j \in Ids \ {i} : jobs'[j] = jobs[j]
  BY <1>1 DEF IInv, TypeOK
<1>7. \A j \in Ids, n \in Gens : SameSpec(<<j, n>>)
  BY <1>2 DEF SameSpec
<1>8. Midway(t)'
  <2>1. CASE l = "del_target"
    <3>1. jobs'[i] = None
      BY <1>1, <2>1 DEF IInv, TypeOK
    <3> QED BY <1>4, <2>1, <3>1 DEF Midway
  <2>2. CASE l # "del_target"
    <3>1. EngineAgrees(i)' /\ StoreAgrees(i)' /\ jobs' = jobs
      BY <1>1, <1>2, <1>4, <2>2 DEF EngineAgrees, LeftBehind, StoreAgrees, Current, RowOf
    <3>2. arg'[t].id = i /\ arg'[t].gen = jobs[i] /\ at'[t] \in {"pause_flag", "resume_flag"}
      BY <1>1, <1>4, <2>2
    <3> QED BY <3>1, <3>2 DEF Midway, EngineAgrees, LeftBehind, StoreAgrees, Current, RowOf
  <2> QED BY <2>1, <2>2
<1>9. at'[t] # "free" /\ at'[t] \notin {"publish", "upsert"}
  BY <1>1, <1>4
<1>11. arg'[t].id = i
  BY <1>4
<1> QED BY <1>2, <1>4, <1>5, <1>6, <1>7, <1>8, <1>9, <1>11, RequestStep

LEMMA CreateGoesOn ==
  ASSUME IInv, TypeOK', OneRequestPerJob, OneRequestPerJob', NEW t \in Threads,
         CreatePublish(t) \/ CreateUpsert(t)
  PROVE  JobInv'
<1> USE DEF disk, memory, loops
<1>1. at[t] \in {"publish", "upsert"} /\ at[t] # "free"
  BY DEF CreatePublish, CreateUpsert
<1>2. PICK i \in Ids, n \in Gens : arg[t].id = i /\ arg[t].gen = n /\ Its(t) = <<i, n>>
  BY <1>1, Going
<1>3. phase = "up" /\ Midway(t) /\ i \in FileIds \cup used
  BY <1>1, <1>2, Going
<1>4. i \in PlainIds /\ i \notin FileIds /\ n # None
  BY <1>1, <1>2, HandleParts, JobAssumption DEF IInv, JobInv, JobAssumption
<1>5. UNCHANGED <<phase, files, used, targets, handle>>
  BY DEF CreatePublish, CreateUpsert
<1>6. \A h : SameSpec(h)
  BY <1>5 DEF SameSpec
<1>7. CASE CreatePublish(t)
  <2>1. jobs' = [jobs EXCEPT ![i] = n] /\ Goto(t, "upsert") /\ rows' = rows /\ at[t] = "publish"
    BY <1>2, <1>7 DEF CreatePublish
  <2>2. arg' = arg /\ at'[t] = "upsert" /\ \A s \in Threads \ {t} : at'[s] = at[s]
    BY <1>1, <2>1, GotoMoves DEF IInv, Labels
  <2>3. jobs'[i] = n /\ \A j \in Ids \ {i} : jobs'[j] = jobs[j]
    BY <2>1 DEF IInv, TypeOK
  <2>4. Midway(t)'
    BY <1>2, <1>3, <1>5, <2>1, <2>2, <2>3 DEF Midway, Its, RowOf
  <2> QED BY <1>1, <1>2, <1>3, <1>4, <1>5, <1>6, <2>1, <2>2, <2>3, <2>4, RequestStep
<1>8. CASE CreateUpsert(t)
  <2>1. /\ rows' = [rows EXCEPT ![i] = RowOf(<<i, n>>)] /\ Return(t) /\ jobs' = jobs
        /\ at[t] = "upsert"
    BY <1>2, <1>8 DEF CreateUpsert, RowOf
  <2>2. at'[t] = "free" /\ \A s \in Threads \ {t} : at'[s] = at[s] /\ arg'[s] = arg[s]
    BY <2>1, ReturnMoves DEF IInv
  <2>3. rows'[i] = RowOf(<<i, n>>) /\ \A j \in Ids \ {i} : rows'[j] = rows[j]
    BY <2>1 DEF IInv, TypeOK
  <2>4. /\ jobs[i] = n /\ RowOf(<<i, n>>) \in Specs
        /\ targets[i] = IF InEngine(handle[<<i, n>>]) THEN n ELSE None
    BY <1>2, <1>3, <2>1 DEF Midway
  <2>5. jobs'[i] = n /\ RowOf(<<i, n>>) # NoSpec
    BY <2>1, <2>4, SpecParts
  <2>6. EngineAgrees(i)' /\ StoreAgrees(i)'
    BY <1>4, <1>5, <2>3, <2>4, <2>5 DEF EngineAgrees, LeftBehind, StoreAgrees, Current, RowOf
  <2> QED BY <1>1, <1>2, <1>3, <1>4, <1>5, <1>6, <2>1, <2>2, <2>3, <2>6, RequestStep
<1> QED BY <1>7, <1>8

LEMMA DeleteGoesOn ==
  ASSUME IInv, TypeOK', OneRequestPerJob, OneRequestPerJob', NEW t \in Threads,
         DeleteTarget(t) \/ DeleteRow(t)
  PROVE  JobInv'
<1> USE DEF disk, memory, loops
<1>1. at[t] \in {"del_target", "del_row"} /\ at[t] # "free"
  BY DEF DeleteTarget, DeleteRow
<1>2. PICK i \in Ids, n \in Gens : arg[t].id = i /\ arg[t].gen = n /\ Its(t) = <<i, n>>
  BY <1>1, Going
<1>3. phase = "up" /\ Midway(t) /\ i \in FileIds \cup used
  BY <1>1, <1>2, Going
<1>4. jobs[i] = None /\ UNCHANGED <<phase, files, used, jobs, handle>>
  BY <1>1, <1>2, <1>3 DEF DeleteTarget, DeleteRow, Midway
<1>5. \A h : SameSpec(h)
  BY <1>4 DEF SameSpec
<1>6. CASE DeleteTarget(t)
  <2>1. targets' = [targets EXCEPT ![i] = None] /\ Goto(t, "del_row") /\ rows' = rows
    BY <1>2, <1>6 DEF DeleteTarget
  <2>2. arg' = arg /\ at'[t] = "del_row" /\ \A s \in Threads \ {t} : at'[s] = at[s]
    BY <1>1, <2>1, GotoMoves DEF IInv, Labels
  <2>3. targets'[i] = None /\ \A j \in Ids \ {i} : targets'[j] = targets[j]
    BY <2>1 DEF IInv, TypeOK
  <2>4. Midway(t)'
    BY <1>2, <1>4, <2>2, <2>3 DEF Midway
  <2> QED BY <1>1, <1>2, <1>3, <1>4, <1>5, <2>1, <2>2, <2>3, <2>4, RequestStep
<1>7. CASE DeleteRow(t)
  <2>1. /\ rows' = [rows EXCEPT ![i] = NoSpec] /\ Return(t) /\ targets' = targets
        /\ targets[i] = None
    BY <1>2, <1>3, <1>7 DEF DeleteRow, Midway
  <2>2. at'[t] = "free" /\ \A s \in Threads \ {t} : at'[s] = at[s] /\ arg'[s] = arg[s]
    BY <2>1, ReturnMoves DEF IInv
  <2>3. rows'[i] = NoSpec /\ \A j \in Ids \ {i} : rows'[j] = rows[j]
    BY <2>1 DEF IInv, TypeOK
  <2>4. EngineAgrees(i)' /\ StoreAgrees(i)'
    BY <1>4, <2>1, <2>3 DEF EngineAgrees, LeftBehind, StoreAgrees
  <2> QED BY <1>1, <1>2, <1>3, <1>4, <1>5, <2>1, <2>2, <2>3, <2>4, RequestStep
<1> QED BY <1>6, <1>7

\* pause: the flag, then the engine, then the row.
LEMMA PauseGoesOn ==
  ASSUME IInv, TypeOK', OneRequestPerJob, OneRequestPerJob', NEW t \in Threads,
         PauseFlag(t) \/ PauseTarget(t) \/ PauseRow(t)
  PROVE  JobInv'
<1> USE DEF disk, memory, loops
<1>1. at[t] \in {"pause_flag", "pause_target", "pause_row"} /\ at[t] # "free"
  BY DEF PauseFlag, PauseTarget, PauseRow
<1>2. PICK i \in Ids, n \in Gens : arg[t].id = i /\ arg[t].gen = n /\ Its(t) = <<i, n>>
  BY <1>1, Going
<1>3. phase = "up" /\ Midway(t) /\ i \in FileIds \cup used /\ <<i, n>> \in Handles /\ n # None
  BY <1>1, <1>2, Going, HandleParts
<1>4. jobs[i] = n /\ UNCHANGED <<phase, files, used, jobs>>
  BY <1>1, <1>2, <1>3 DEF PauseFlag, PauseTarget, PauseRow, Midway
<1>5. CASE PauseFlag(t)
  <2>1. /\ handle' = [handle EXCEPT ![<<i, n>>].enabled = FALSE, ![<<i, n>>].state = "paused"]
        /\ Goto(t, "pause_target") /\ rows' = rows /\ targets' = targets /\ at[t] = "pause_flag"
    BY <1>2, <1>5 DEF PauseFlag
  <2>2. arg' = arg /\ at'[t] = "pause_target" /\ \A s \in Threads \ {t} : at'[s] = at[s]
    BY <1>1, <2>1, GotoMoves DEF IInv, Labels
  <2>3. /\ handle'[<<i, n>>].mode = handle[<<i, n>>].mode /\ handle'[<<i, n>>].enabled = FALSE
        /\ \A g \in Handles \ {<<i, n>>} : SameSpec(g)
    BY <1>3, <2>1, Flipped DEF IInv
  <2>4. \A j \in Ids \ {i}, m \in Gens : SameSpec(<<j, m>>)
    BY <2>3, HandleParts
  <2>5. rows[i] # NoSpec /\ rows[i].mode = handle[<<i, n>>].mode
    BY <1>2, <1>3, <1>4, <2>1 DEF Midway, StoreAgrees, RowOf
  <2>6. Midway(t)'
    BY <1>2, <1>4, <2>1, <2>2, <2>3, <2>5 DEF Midway, Its
  <2> QED BY <1>1, <1>2, <1>3, <1>4, <2>1, <2>2, <2>4, <2>5, <2>6, RequestStep
<1>6. CASE PauseTarget(t)
  <2>1. /\ targets' = [targets EXCEPT ![i] = None] /\ Goto(t, "pause_row") /\ rows' = rows
        /\ handle' = handle /\ at[t] = "pause_target"
    BY <1>2, <1>6 DEF PauseTarget
  <2>2. arg' = arg /\ at'[t] = "pause_row" /\ \A s \in Threads \ {t} : at'[s] = at[s]
    BY <1>1, <2>1, GotoMoves DEF IInv, Labels
  <2>3. targets'[i] = None /\ \A j \in Ids \ {i} : targets'[j] = targets[j]
    BY <2>1 DEF IInv, TypeOK
  <2>4. rows[i] # NoSpec /\ rows[i].mode = handle[<<i, n>>].mode /\ ~handle[<<i, n>>].enabled
    BY <1>2, <1>3, <2>1 DEF Midway
  <2>5. Midway(t)'
    BY <1>2, <1>4, <2>1, <2>2, <2>3, <2>4 DEF Midway, Its
  <2>6. \A h : SameSpec(h)
    BY <2>1 DEF SameSpec
  <2> QED BY <1>1, <1>2, <1>3, <1>4, <2>1, <2>2, <2>3, <2>4, <2>5, <2>6, RequestStep
<1>7. CASE PauseRow(t)
  <2>1. SetEnabled(i, FALSE) /\ Return(t) /\ targets' = targets /\ handle' = handle
        /\ at[t] = "pause_row"
    BY <1>2, <1>7 DEF PauseRow
  <2>2. at'[t] = "free" /\ \A s \in Threads \ {t} : at'[s] = at[s] /\ arg'[s] = arg[s]
    BY <2>1, ReturnMoves DEF IInv
  <2>3. /\ rows[i] # NoSpec /\ rows[i].mode = handle[<<i, n>>].mode
        /\ ~handle[<<i, n>>].enabled /\ targets[i] = None
    BY <1>2, <1>3, <2>1 DEF Midway
  <2>4. /\ rows'[i] = [mode |-> rows[i].mode, enabled |-> FALSE] /\ rows'[i] # NoSpec
        /\ \A j \in Ids \ {i} : rows'[j] = rows[j]
    BY <2>1, <2>3, EnabledRow DEF IInv
  <2>5. handle[<<i, n>>].enabled = FALSE
    BY <1>3, <2>3 DEF IInv, TypeOK, HandleStates
  <2>6. rows'[i] = RowOf(<<i, n>>)'
    BY <2>1, <2>3, <2>4, <2>5 DEF RowOf
  <2>7. EngineAgrees(i)' /\ StoreAgrees(i)'
    BY <1>3, <1>4, <2>1, <2>3, <2>4, <2>6 DEF EngineAgrees, LeftBehind, StoreAgrees, Current, InEngine
  <2>8. \A h : SameSpec(h)
    BY <2>1 DEF SameSpec
  <2> QED BY <1>1, <1>2, <1>3, <1>4, <2>1, <2>2, <2>3, <2>4, <2>7, <2>8, RequestStep
<1> QED BY <1>5, <1>6, <1>7

\* resume: the flag, then the row, then the engine or the cron expression.
LEMMA ResumeGoesOn ==
  ASSUME IInv, TypeOK', OneRequestPerJob, OneRequestPerJob', NEW t \in Threads,
         ResumeFlag(t) \/ ResumeRow(t) \/ ResumeArm(t)
  PROVE  JobInv'
<1> USE DEF disk, memory, loops
<1>1. at[t] \in {"resume_flag", "resume_row", "resume_arm"} /\ at[t] # "free"
  BY DEF ResumeFlag, ResumeRow, ResumeArm
<1>2. PICK i \in Ids, n \in Gens : arg[t].id = i /\ arg[t].gen = n /\ Its(t) = <<i, n>>
  BY <1>1, Going
<1>3. phase = "up" /\ Midway(t) /\ i \in FileIds \cup used /\ <<i, n>> \in Handles /\ n # None
  BY <1>1, <1>2, Going, HandleParts
<1>4. jobs[i] = n /\ UNCHANGED <<phase, files, used, jobs>>
  BY <1>1, <1>2, <1>3 DEF ResumeFlag, ResumeRow, ResumeArm, Midway
<1>5. CASE ResumeFlag(t)
  <2>1. /\ handle' = [handle EXCEPT ![<<i, n>>].enabled = TRUE, ![<<i, n>>].state = "idle"]
        /\ Goto(t, "resume_row") /\ rows' = rows /\ targets' = targets /\ at[t] = "resume_flag"
    BY <1>2, <1>5 DEF ResumeFlag
  <2>2. arg' = arg /\ at'[t] = "resume_row" /\ \A s \in Threads \ {t} : at'[s] = at[s]
    BY <1>1, <2>1, GotoMoves DEF IInv, Labels
  <2>3. /\ handle'[<<i, n>>].mode = handle[<<i, n>>].mode /\ handle'[<<i, n>>].enabled = TRUE
        /\ \A g \in Handles \ {<<i, n>>} : SameSpec(g)
    BY <1>3, <2>1, Flipped DEF IInv
  <2>4. \A j \in Ids \ {i}, m \in Gens : SameSpec(<<j, m>>)
    BY <2>3, HandleParts
  <2>5. EngineAgrees(i) /\ StoreAgrees(i)
    BY <1>2, <1>3, <2>1 DEF Midway
  <2>6. rows[i] # NoSpec /\ rows[i].mode = handle[<<i, n>>].mode
    BY <1>3, <1>4, <2>5 DEF StoreAgrees, RowOf
  <2>7. \/ targets[i] = None
        \/ targets[i] = n /\ handle[<<i, n>>].mode = "adaptive"
        \/ targets[i] = 1 /\ n = 2
    BY <1>3, <1>4, <2>5 DEF EngineAgrees, LeftBehind, Current, InEngine
  <2>8. Midway(t)'
    BY <1>2, <1>4, <2>1, <2>2, <2>3, <2>6, <2>7 DEF Midway, Its
  <2> QED BY <1>1, <1>2, <1>3, <1>4, <2>1, <2>2, <2>4, <2>6, <2>8, RequestStep
<1>6. CASE ResumeRow(t)
  <2>1. /\ SetEnabled(i, TRUE) /\ Goto(t, "resume_arm") /\ targets' = targets
        /\ handle' = handle /\ at[t] = "resume_row"
    BY <1>2, <1>6 DEF ResumeRow
  <2>2. arg' = arg /\ at'[t] = "resume_arm" /\ \A s \in Threads \ {t} : at'[s] = at[s]
    BY <1>1, <2>1, GotoMoves DEF IInv, Labels
  <2>3. /\ rows[i] # NoSpec /\ rows[i].mode = handle[<<i, n>>].mode /\ handle[<<i, n>>].enabled
        /\ \/ targets[i] = None
           \/ targets[i] = n /\ handle[<<i, n>>].mode = "adaptive"
           \/ targets[i] = 1 /\ n = 2
    BY <1>2, <1>3, <2>1 DEF Midway
  <2>4. /\ rows'[i] = [mode |-> rows[i].mode, enabled |-> TRUE] /\ rows'[i] # NoSpec
        /\ \A j \in Ids \ {i} : rows'[j] = rows[j]
    BY <2>1, <2>3, EnabledRow DEF IInv
  <2>5. handle[<<i, n>>].enabled = TRUE
    BY <1>3, <2>3 DEF IInv, TypeOK, HandleStates
  <2>6. rows'[i] = RowOf(<<i, n>>)' /\ rows'[i].mode = rows[i].mode
    BY <2>1, <2>3, <2>4, <2>5 DEF RowOf
  <2>7. Midway(t)'
    BY <1>2, <1>4, <2>1, <2>2, <2>3, <2>4, <2>6 DEF Midway, Its
  <2>8. \A h : SameSpec(h)
    BY <2>1 DEF SameSpec
  <2> QED BY <1>1, <1>2, <1>3, <1>4, <2>1, <2>2, <2>3, <2>4, <2>6, <2>7, <2>8, RequestStep
<1>7. CASE ResumeArm(t)
  <2>1. /\ targets' = IF handle[<<i, n>>].mode = "adaptive"
                      THEN [targets EXCEPT ![i] = n] ELSE targets
        /\ handle' = handle \/ handle' = [handle EXCEPT ![<<i, n>>].fire = "later"]
        /\ Return(t) /\ rows' = rows /\ at[t] = "resume_arm"
    BY <1>2, <1>7 DEF ResumeArm
  <2>2. at'[t] = "free" /\ \A s \in Threads \ {t} : at'[s] = at[s] /\ arg'[s] = arg[s]
    BY <2>1, ReturnMoves DEF IInv
  <2>3. /\ rows[i] = RowOf(<<i, n>>) /\ rows[i] # NoSpec /\ handle[<<i, n>>].enabled
        /\ \/ targets[i] = None
           \/ targets[i] = n /\ handle[<<i, n>>].mode = "adaptive"
           \/ targets[i] = 1 /\ n = 2
    BY <1>2, <1>3, <2>1 DEF Midway
  <2>4. \A g \in Handles : SameSpec(g)
    BY <1>3, <2>1, Marked DEF IInv
  <2>5. /\ targets'[i] = IF handle[<<i, n>>].mode = "adaptive" THEN n ELSE targets[i]
        /\ \A j \in Ids \ {i} : targets'[j] = targets[j]
    BY <2>1 DEF IInv, TypeOK
  <2>6. RowOf(<<i, n>>)' = RowOf(<<i, n>>) /\ InEngine(handle'[<<i, n>>]) = InEngine(handle[<<i, n>>])
    BY <1>3, <2>4 DEF RowOf, SameSpec, InEngine
  <2>7. StoreAgrees(i)'
    BY <1>3, <1>4, <2>1, <2>3, <2>6 DEF StoreAgrees
  <2>8. \/ targets'[i] = IF InEngine(handle'[<<i, n>>]) THEN n ELSE None
        \/ targets'[i] = 1 /\ n = 2 /\ ~InEngine(handle'[<<i, n>>])
    BY <2>3, <2>5, <2>6 DEF InEngine
  <2>9. EngineAgrees(i)'
    BY <1>3, <1>4, <2>8 DEF EngineAgrees, LeftBehind, Current
  <2>10. \A j \in Ids \ {i}, m \in Gens : SameSpec(<<j, m>>)
    BY <2>4, HandleParts
  <2> QED BY <1>1, <1>2, <1>3, <1>4, <2>1, <2>2, <2>3, <2>5, <2>7, <2>9, <2>10, RequestStep
<1> QED BY <1>5, <1>6, <1>7

LEMMA RequestKeeps ==
  ASSUME IInv, TypeOK', OneRequestPerJob, OneRequestPerJob', NEW t \in Threads, Request(t)
  PROVE  JobInv'
BY CreateKeeps, LookupKeeps, CreateGoesOn, DeleteGoesOn, PauseGoesOn, ResumeGoesOn
DEF Request

-----------------------------------------------------------------------------
(* Starts, stops and the loops *)

LEMMA InitIInv == Init => IInv
<1> SUFFICES ASSUME Init PROVE IInv
  OBVIOUS
<1>1. TypeOK
  BY Registered DEF Init, TypeOK, Nowhere, NothingBuilt, AllFree, NoArgs, Unbuilt, Labels
<1>2. JobInv
  BY JobAssumption DEF Init, JobInv, Nowhere, AllFree, Ids, JobAssumption
<1> QED BY <1>1, <1>2 DEF IInv

LEMMA BootKeeps ==
  ASSUME IInv, Boot
  PROVE  JobInv'
<1> USE DEF disk, requests, loops
<1>1. /\ phase = "down" /\ phase' = "files" /\ UNCHANGED <<files, rows, used, at, arg>>
      /\ todo' = {i \in FileIds : files[i] # NoSpec}
      /\ jobs' = [i \in Ids |-> IF rows[i] = NoSpec THEN None ELSE 1]
      /\ targets' = [i \in Ids |-> IF InEngine(rows[i]) THEN 1 ELSE None]
  BY DEF Boot
<1>2. rows \in [Ids -> Specs \cup {NoSpec}] /\ 1 \in Gens
  BY DEF IInv, TypeOK, Gens
<1>5. ASSUME NEW i \in Ids, rows[i] # NoSpec
      PROVE  handle'[<<i, 1>>].mode = rows[i].mode /\ handle'[<<i, 1>>].enabled = rows[i].enabled
  <2>1. <<i, 1>> \in Handles /\ Id(<<i, 1>>) = i /\ Gen(<<i, 1>>) = 1
    BY <1>2, HandleParts
  <2>2. rows[i] \in Specs \cup {NoSpec}
    BY <1>2
  <2>3. handle'[<<i, 1>>] = [NewHandle(rows[i]) EXCEPT
                              !.state = IF rows[i].mode = "once" THEN "done" ELSE @]
    BY <1>5, <2>1 DEF Boot
  <2>4. /\ NewHandle(rows[i]) \in HandleStates
        /\ NewHandle(rows[i]).mode = rows[i].mode /\ NewHandle(rows[i]).enabled = rows[i].enabled
    BY <2>2, Registered
  <2> HIDE DEF NewHandle
  <2> QED BY <2>3, <2>4 DEF HandleStates
<1>6. ASSUME NEW i \in Ids PROVE Stage(i)'
  <2>1. CASE rows[i] = NoSpec
    <3>1. jobs'[i] = None /\ targets'[i] = None /\ rows'[i] = NoSpec
      BY <1>1, <2>1, SpecParts DEF InEngine
    <3> QED BY <1>1, <3>1 DEF Stage, EngineAgrees, LeftBehind, StoreAgrees, IInv, JobInv
  <2>2. CASE rows[i] # NoSpec
    <3>1. /\ jobs'[i] = 1 /\ targets'[i] = (IF InEngine(rows[i]) THEN 1 ELSE None)
          /\ rows'[i] = rows[i] /\ 1 # None
      BY <1>1, <2>2, HandleParts DEF Gens
    <3>2. /\ handle'[<<i, 1>>].mode = rows[i].mode /\ handle'[<<i, 1>>].enabled = rows[i].enabled
          /\ rows[i] = [mode |-> rows[i].mode, enabled |-> rows[i].enabled]
      BY <1>2, <1>5, <2>2, SpecParts
    <3>3. EngineAgrees(i)'
      BY <3>1, <3>2 DEF EngineAgrees, Current, InEngine
    <3>4. StoreAgrees(i)'
      BY <2>2, <3>1, <3>2 DEF StoreAgrees, RowOf
    <3> QED BY <1>1, <3>3, <3>4 DEF Stage, IInv, JobInv
  <2> QED BY <2>1, <2>2
<1>7. \A i \in PlainIds \ used : rows'[i] = NoSpec /\ jobs'[i] = None /\ targets'[i] = None
  <2>1. ASSUME NEW i \in PlainIds \ used PROVE rows[i] = NoSpec /\ i \in Ids /\ ~InEngine(rows[i])
    BY SpecParts DEF IInv, JobInv, InEngine, Ids
  <2> QED BY <1>1, <2>1
<1>8. \A i \in todo' : files'[i] # NoSpec /\ jobs'[i] # 2
  BY <1>1 DEF Ids, None
<1> QED BY <1>1, <1>6, <1>7, <1>8 DEF IInv, JobInv

LEMMA LoadFileKeeps ==
  ASSUME IInv, NEW i \in FileIds, LoadFile(i)
  PROVE  JobInv'
<1> USE DEF requests, loops
<1>1. /\ phase = "files" /\ i \in todo /\ todo' = todo \ {i}
      /\ RegisterTarget(i, 2, files[i])
      /\ jobs' = [jobs EXCEPT ![i] = 2] /\ rows' = [rows EXCEPT ![i] = files[i]]
      /\ UNCHANGED <<phase, files, used, at, arg>>
  BY DEF LoadFile
<1>2. /\ i \in Ids /\ 2 \in Gens /\ 2 # None /\ <<i, 2>> \in Handles
      /\ files[i] \in FileSpecs /\ files[i] \in Specs /\ files[i] # NoSpec
  <2>1. files[i] \in FileSpecs \cup {NoSpec} /\ files[i] # NoSpec
    BY <1>1 DEF IInv, TypeOK, JobInv
  <2>2. i \in Ids /\ 2 \in Gens /\ 2 # None
    BY DEF Ids, Gens, None
  <2> QED BY <2>1, <2>2, SpecParts, HandleParts
<1>3. /\ handle'[<<i, 2>>].mode = files[i].mode /\ handle'[<<i, 2>>].enabled = files[i].enabled
      /\ \A g \in Handles \ {<<i, 2>>} : SameSpec(g)
  BY <1>1, <1>2, Registered, OneHandle DEF RegisterTarget, IInv
<1>4. /\ targets'[i] = IF InEngine(files[i]) THEN 2 ELSE targets[i]
      /\ \A j \in Ids \ {i} : targets'[j] = targets[j]
  BY <1>1, <1>2 DEF RegisterTarget, IInv, TypeOK
<1>5. /\ jobs'[i] = 2 /\ rows'[i] = files[i]
      /\ \A j \in Ids \ {i} : jobs'[j] = jobs[j] /\ rows'[j] = rows[j]
  BY <1>1, <1>2 DEF IInv, TypeOK
<1>7. \A t \in Threads : at[t] = "free"
  BY <1>1 DEF IInv, JobInv
<1>8. targets[i] \in {None, 1}
  <2>1. jobs[i] \in Gens \cup {None} /\ jobs[i] # 2 /\ EngineAgrees(i)
    BY <1>1, <1>2, <1>7 DEF IInv, TypeOK, JobInv, Stage, Unattended
  <2> QED BY <2>1 DEF EngineAgrees, LeftBehind, Gens, None
<1>9. Stage(i)'
  <2>1. EngineAgrees(i)'
    BY <1>2, <1>3, <1>4, <1>5, <1>8 DEF EngineAgrees, LeftBehind, Current, InEngine
  <2>2. StoreAgrees(i)'
    <3>1. files[i] = [mode |-> files[i].mode, enabled |-> files[i].enabled]
      BY <1>2, SpecParts
    <3> QED BY <1>2, <1>3, <1>5, <3>1 DEF StoreAgrees, RowOf
  <2> QED BY <1>1, <1>7, <2>1, <2>2 DEF Stage
<1>10. ASSUME NEW j \in Ids, j # i PROVE Stage(j)'
  <2>1. EngineAgrees(j) /\ StoreAgrees(j)
    BY <1>1, <1>7 DEF IInv, JobInv, Stage, Unattended
  <2>2. jobs[j] \in Gens \cup {None} /\ jobs'[j] = jobs[j] /\ targets'[j] = targets[j]
        /\ rows'[j] = rows[j]
    BY <1>4, <1>5, <1>10 DEF IInv, TypeOK
  <2>3. jobs[j] # None => SameSpec(<<j, jobs[j]>>)
    BY <1>3, <1>10, <2>2, HandleParts
  <2>4. EngineAgrees(j)' /\ StoreAgrees(j)'
    BY <2>1, <2>2, <2>3, AgreementKept
  <2> QED BY <1>1, <1>7, <2>4 DEF Stage
<1>11. \A j \in PlainIds \ used : rows'[j] = NoSpec /\ jobs'[j] = None /\ targets'[j] = None
  BY <1>4, <1>5, JobAssumption DEF IInv, JobInv, Ids, JobAssumption
<1>12. \A j \in todo' : files'[j] # NoSpec /\ jobs'[j] # 2
  BY <1>1, <1>5 DEF IInv, TypeOK, JobInv, Ids
<1> QED BY <1>1, <1>9, <1>10, <1>11, <1>12 DEF IInv, JobInv

LEMMA StopKeeps ==
  ASSUME IInv, Stop
  PROVE  JobInv'
<1>1. /\ phase' = "down" /\ jobs' = Nowhere /\ targets' = Nowhere /\ at' = AllFree
      /\ UNCHANGED <<rows, used>>
  BY DEF Stop, disk
<1> QED BY <1>1 DEF IInv, JobInv, Nowhere, AllFree, Ids

\* Polls, cron fires, edits of the directory and the end of the start-up.
LEMMA RestKeeps ==
  ASSUME IInv,
         \/ Serve \/ EnginePolls \/ CronStep \/ UNCHANGED vars
         \/ \E i \in FileIds : EditFile(i)
         \/ \E i \in Ids : RunNow(i)
         \/ \E p \in Polls : Deliver(p) \/ PollEnds(p)
         \/ \E h \in Handles : FireTime(h)
  PROVE  JobInv'
<1> USE DEF IInv, vars, disk, memory, requests, loops
<1>1. CASE \/ Serve \/ EnginePolls \/ CronStep \/ UNCHANGED vars
           \/ (\E p \in Polls : Deliver(p)) \/ \E i \in FileIds : EditFile(i)
  <2>1. /\ UNCHANGED <<rows, used, jobs, targets, handle, at, arg, todo>>
        /\ \/ UNCHANGED <<phase, files>>
           \/ phase' = "up" /\ phase # "down"
           \/ phase # "files" /\ UNCHANGED phase
    BY <1>1 DEF Serve, EnginePolls, CronStep, CronSnapshot, CronPoll, Deliver, EditFile
  <2> QED BY <2>1, CopiesKept DEF SameSpec
<1>2. ASSUME NEW i \in Ids, RunNow(i) PROVE JobInv'
  <2>1. <<i, jobs[i]>> \in Handles
    BY <1>2, HandleParts DEF RunNow, TypeOK
  <2>2. handle' = [handle EXCEPT ![<<i, jobs[i]>>].state = "running"]
    BY <1>2 DEF RunNow
  <2>3. \A g \in Handles : SameSpec(g)
    BY <2>1, <2>2, Marked
  <2> QED BY <1>2, <2>3, CopiesKept DEF RunNow
<1>3. ASSUME NEW p \in Polls, PollEnds(p) PROVE JobInv'
  BY <1>3, EndMarks, Marked, CopiesKept DEF PollEnds
<1>4. ASSUME NEW h \in Handles, FireTime(h) PROVE JobInv'
  BY <1>4, Marked, CopiesKept DEF FireTime
<1> QED BY <1>1, <1>2, <1>3, <1>4

LEMMA NextKeeps ==
  ASSUME IInv, TypeOK', OneRequestPerJob, OneRequestPerJob', [Next]_vars
  PROVE  JobInv'
BY BootKeeps, LoadFileKeeps, StopKeeps, RequestKeeps, RestKeeps DEF Next

-----------------------------------------------------------------------------
(* The theorems *)

\* Whatever requests, polls, edits and stops overlap, every variable keeps its type, and
\* a job that is being created finds the spec it was registered with.
THEOREM JobTypes == Spec => []TypeInv
<1>1. Init => TypeInv
  BY InitIInv DEF Init, TypeInv, IInv, AllFree
<1>2. TypeInv /\ [Next]_vars => TypeInv'
  BY FreshKept
<1> QED BY <1>1, <1>2, PTL DEF Spec

LEMMA JobInvHolds == Spec /\ []OneRequestPerJob => []IInv
<1>1. Init => IInv
  BY InitIInv
<1>2. TypeInv => TypeOK
  BY DEF TypeInv
<1>3. IInv /\ TypeOK' /\ OneRequestPerJob /\ OneRequestPerJob' /\ [Next]_vars => IInv'
  BY NextKeeps DEF IInv
<1> QED BY <1>1, <1>2, <1>3, JobTypes, PTL DEF Spec

\* Between requests the engine drives exactly the enabled adaptive jobs, each through
\* its current handle, but for the targets that workflow files left behind, if no two
\* requests are at work on one job.  Whatever the files say and become, requests for
\* different jobs, polls, the cron loop, edits and stops may overlap in any way.
THEOREM EngineInStep == Spec /\ []OneRequestPerJob => []EngineMatchesJobs
<1>1. IInv => EngineMatchesJobs
  <2> SUFFICES ASSUME IInv, Quiet, NEW i \in Ids PROVE EngineAgrees(i)
    BY DEF EngineMatchesJobs
  <2> QED BY DEF IInv, JobInv, Stage, Unattended, Quiet
<1> QED BY <1>1, JobInvHolds, PTL

\* Between requests the rows are exactly the jobs in memory with their mode and their
\* enabled flag: a stop there loses nothing and revives nothing.  That holds of a file's
\* job too: create writes the row of every file it registers.
THEOREM StoreInStep == Spec /\ []OneRequestPerJob => []StoreMatchesJobs
<1>1. IInv => StoreMatchesJobs
  <2> SUFFICES ASSUME IInv, Quiet, NEW i \in Ids PROVE StoreAgrees(i)
    BY DEF StoreMatchesJobs, StoreAgrees, RowOf, Current
  <2> QED BY DEF IInv, JobInv, Stage, Unattended, Quiet
<1> QED BY <1>1, JobInvHolds, PTL

LEMMA GoneKept ==
  ASSUME TypeInv, [Next]_vars, NEW i \in PlainIds, Unattended(i), Gone(i)
  PROVE  Gone(i)'
<1> USE DEF vars, disk, memory, requests, loops
<1>1. /\ rows \in [Ids -> Specs \cup {NoSpec}] /\ i \in Ids /\ i \notin FileIds /\ i \in used
      /\ jobs \in [Ids -> Gens \cup {None}] /\ targets \in [Ids -> Gens \cup {None}]
      /\ jobs[i] = None /\ targets[i] = None /\ rows[i] = NoSpec
  BY JobAssumption DEF TypeInv, TypeOK, Ids, Gone, JobAssumption
<1>2. ASSUME NEW t \in Threads, Request(t) PROVE Gone(i)'
  <2>1. CASE CreateRegister(t)
    <3>1. PICK j \in PlainIds \ used, s \in PlainSpecs :
             /\ Begin(t, "publish", j, 1)
             /\ used' = used \cup {j}
             /\ RegisterTarget(j, 1, s)
             /\ UNCHANGED <<phase, todo, files, rows, history, jobs, loops>>
      BY <2>1 DEF CreateRegister
    <3>2. j # i /\ j \in Ids
      BY <1>1 DEF Ids
    <3> QED BY <1>1, <3>1, <3>2 DEF RegisterTarget, Gone
  <2>2. CASE at[t] # "free" /\ ~CreateRegister(t)
    <3>1. arg[t].id # i /\ used' = used
      BY <1>2, <2>2 DEF Unattended, Request, CreatePublish, CreateUpsert, DeletePop, DeleteTarget,
         DeleteRow, PauseLookup, PauseFlag, PauseTarget, PauseRow, ResumeLookup, ResumeFlag,
         ResumeRow, ResumeArm
    <3>2. jobs'[i] = jobs[i] /\ targets'[i] = targets[i]
      BY <1>1, <1>2, <2>2, <3>1 DEF Request, CreatePublish, CreateUpsert, DeletePop, DeleteTarget,
         DeleteRow, PauseLookup, PauseFlag, PauseTarget, PauseRow, ResumeLookup, ResumeFlag,
         ResumeRow, ResumeArm, Begin
    <3>3. rows'[i] = rows[i]
      BY <1>1, <1>2, <2>2, <3>1 DEF Request, CreatePublish, CreateUpsert, DeletePop, DeleteTarget,
         DeleteRow, PauseLookup, PauseFlag, PauseTarget, PauseRow, ResumeLookup, ResumeFlag,
         ResumeRow, ResumeArm, Begin, SetEnabled
    <3> QED BY <1>1, <3>1, <3>2, <3>3 DEF Gone
  <2>3. CASE at[t] = "free" /\ ~CreateRegister(t)
    <3>1. PICK j \in Ids : DeletePop(t, j) \/ PauseLookup(t, j) \/ ResumeLookup(t, j)
      BY <1>2, <2>3 DEF Request, CreatePublish, CreateUpsert, DeleteTarget, DeleteRow, PauseFlag,
                        PauseTarget, PauseRow, ResumeFlag, ResumeRow, ResumeArm
    <3>2. /\ j # i /\ UNCHANGED <<rows, used, targets>>
          /\ jobs' = jobs \/ jobs' = [jobs EXCEPT ![j] = None]
      BY <1>1, <3>1 DEF DeletePop, PauseLookup, ResumeLookup
    <3> QED BY <1>1, <3>2 DEF Gone
  <2> QED BY <2>1, <2>2, <2>3
<1>3. CASE Boot
  <2>1. ~InEngine(NoSpec)
    BY DEF InEngine, NoSpec
  <2> QED BY <1>1, <1>3, <2>1 DEF Boot, Gone
<1>4. ASSUME NEW j \in FileIds, LoadFile(j) PROVE Gone(i)'
  BY <1>1, <1>4 DEF LoadFile, RegisterTarget, Gone, Ids
<1>5. CASE Stop
  BY <1>1, <1>5 DEF Stop, Nowhere, Gone
<1>6. CASE \/ Serve \/ EnginePolls \/ CronStep \/ UNCHANGED vars
           \/ (\E j \in FileIds : EditFile(j))
           \/ (\E j \in Ids : RunNow(j))
           \/ (\E p \in Polls : Deliver(p) \/ PollEnds(p))
           \/ (\E h \in Handles : FireTime(h))
  <2>1. UNCHANGED <<rows, used, jobs, targets>>
    BY <1>6 DEF Serve, EnginePolls, CronStep, CronSnapshot, CronPoll, EditFile, RunNow, Deliver,
                PollEnds, FireTime
  <2> QED BY <2>1 DEF Gone
<1> QED BY <1>2, <1>3, <1>4, <1>5, <1>6 DEF Next

\* A job that is gone stays gone, however many requests for other jobs, polls in flight
\* (they deliver to a handle nobody has any more), stops and restarts follow: an id is
\* never handed out twice, and only a row or a request in progress can bring one back.
THEOREM DeletedForGood == Spec => GoneStaysGone
<1>1. TypeInv /\ [Next]_vars =>
        [\A i \in PlainIds : Unattended(i) /\ Gone(i) => Gone(i)']_vars
  BY GoneKept
<1> QED BY <1>1, JobTypes, PTL DEF Spec, GoneStaysGone

=============================================================================
