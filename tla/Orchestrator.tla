---------------------------- MODULE Orchestrator ----------------------------
(***************************************************************************)
(* orchestrator/: the development loop, one tick at a time (cycle.py), the *)
(* files a tick leaves behind (state.py) and the git branches it moves     *)
(* (merge.py, worktree.py).                                                *)
(*                                                                         *)
(* A tick is split at every write that survives the process: a status or   *)
(* budget file, a branch, a commit.  Crash stops the daemon between any    *)
(* two of them (a kill, or an exception out of tick() such as a git        *)
(* timeout); systemd restarts it and the next tick reads the files again.  *)
(* The gate's import self-check raises too, and as it depends on the tree  *)
(* alone it raises on every later tick: those ends of a tick are actions   *)
(* of their own, without a bound.  What else the agents and the gate       *)
(* answer is nondeterministic; they are outside src/'s control.            *)
(*                                                                         *)
(* A worktree and its branch are one value: what git ignores, and work     *)
(* whose automatic commit failed, is in the first only.                    *)
(*                                                                         *)
(* Left out: the backlog file and the event log, which no handler reads,   *)
(* the text of tasks, summaries and feedback, and the daily GC of dead     *)
(* branches.  Priorities are replaced by an arbitrary choice.              *)
(***************************************************************************)
EXTENDS Naturals, FiniteSets

CONSTANTS
  Foci,           \* names of foci the planner may pick
  Work,           \* what a builder may leave on a branch
  ContractWork,   \* the Work that edits a frozen contract file
  RenamedWork,    \* the ContractWork that also renames the file it edits
  Clashes,        \* sets of Work that, all in one tree, break `import ujin`
  Covs,           \* the coverage percentages a gate may report
  MaxConcurrent,  \* cfg.max_concurrent
  MaxRetries,     \* cfg.max_build_retries
  CoverageFloor,  \* cfg.coverage_floor
  FloorCap,       \* cfg.coverage_floor_cap
  PerAgent,       \* cfg.budgets.per_agent
  PerCycle,       \* cfg.budgets.per_cycle
  PerDay,         \* cfg.budgets.per_day
  FullAuto,       \* cfg.autonomy = "full_auto"
  Toggles,        \* what the operator does: a subset of {"kill", "drain", "commit"}
  MaxCycle,       \* model bound: the last cycle
  MaxCrashes      \* model bound: crashes

ASSUME OrchestratorAssumption ==
  /\ IsFiniteSet(Foci)
  /\ ContractWork \subseteq Work /\ RenamedWork \subseteq ContractWork
  /\ Clashes \subseteq SUBSET Work /\ {} \notin Clashes
  /\ Covs \subseteq Nat /\ CoverageFloor \in Nat /\ FloorCap \in Nat
  /\ MaxConcurrent \in Nat \ {0} /\ MaxRetries \in Nat
  /\ PerAgent \in Nat /\ PerCycle \in Nat /\ PerDay \in Nat
  /\ FullAuto \in BOOLEAN
  /\ MaxCycle \in Nat \ {0} /\ MaxCrashes \in Nat

Started == {"building", "testing", "reviewing", "needs_work"}
ActivePhases == Started \cup {"ready"}
TerminalPhases == {"integrated", "dead"}
Phases == ActivePhases \cup TerminalPhases \cup {"approved"}
CyclePhases == {"planning", "working", "integrating", "releasing", "done", "halted"}

NoWork == "no branch"
NoFocus == "no focus"
NoDiff == [work |-> NoWork, onto |-> {}]
Merges == Foci \X Work
Diffs == [work : Work \cup {NoWork}, onto : SUBSET Merges]
Heads == [merged : SUBSET Merges, green : BOOLEAN]

\* A focus without a status.json in this or an earlier cycle is in cycle 0.
FocusStates ==
  [cycle : 0..MaxCycle, phase : Phases, attempts : 0..MaxRetries, last : Diffs]
Unplanned == [cycle |-> 0, phase |-> "dead", attempts |-> 0, last |-> NoDiff]

\* Where the tick is: what it has done last, or is about to write.
Steps == {"idle", "write_foci", "work", "build", "retry", "built",
          "spent", "green", "approve", "rework", "reject", "quarantine", "regate", "merged",
          "cleanup", "unmerged", "requeue", "stamped", "stamp_gate", "publish",
          "released"}

VARIABLES
  cycle,     \* cycle.json: the number of the cycle and its phase
  focus,     \* <focus>/status.json
  floor,     \* cov_floor.txt
  budget,    \* budget.json
  branch,    \* the agent/<focus> branches with their worktrees
  intg,      \* the integration branch of which cycle, its HEAD (what is merged;
             \* nothing is in it that a gate has not passed on since the branch was
             \* cut), its release stamp, and the merges that went with a refused one
  base,      \* the base branch, by cycles: which it has, in which somebody else
             \* committed to it, whose release left a tree no gate has passed on
  killed,    \* the KILL file is there
  drain,     \* cfg.drain
  at,        \* the tick's place in its handler
  tick,      \* the tick's locals
  crashes

files == <<cycle, focus, floor, budget>>
repo == <<branch, intg, base>>
switches == <<killed, drain>>
vars == <<cycle, focus, floor, budget, branch, intg, base, killed, drain, at,
          tick, crashes>>

Locals == [todo : SUBSET Foci, ops : Nat, ok : BOOLEAN,
           f : Foci \cup {NoFocus}, head : Heads]
NoHead == [merged |-> {}, green |-> TRUE]
Blank == [todo |-> {}, ops |-> 0, ok |-> FALSE, f |-> NoFocus, head |-> NoHead]

Head == [merged |-> intg.merged, green |-> intg.green]

Integrations == [cycle : 0..MaxCycle, merged : SUBSET Merges, green : BOOLEAN,
                 stamp : {"none", "dirty", "committed"}, undone : SUBSET Merges]
CutFor(n) == [cycle |-> n, merged |-> {}, green |-> TRUE, stamp |-> "none", undone |-> {}]
Bases == [cycles : SUBSET (1..MaxCycle), moved : SUBSET (1..MaxCycle),
          ungated : SUBSET (1..MaxCycle)]

TypeOK ==
  /\ cycle \in [n : 1..MaxCycle, phase : CyclePhases]
  /\ focus \in [Foci -> FocusStates]
  /\ floor \in Nat
  /\ budget \in [cycle : 0..MaxCycle, today : Nat, spent : Nat]
  /\ branch \in [Foci -> Work \cup {NoWork}]
  /\ intg \in Integrations
  /\ base \in Bases
  /\ killed \in BOOLEAN /\ drain \in BOOLEAN
  /\ at \in Steps
  /\ tick \in Locals
  /\ crashes \in 0..MaxCrashes

\* The first tick writes cycle.json and goes on with that phase.
Init ==
  /\ cycle = [n |-> 1, phase |-> "planning"]
  /\ focus = [f \in Foci |-> Unplanned]
  /\ floor = CoverageFloor
  /\ budget = [cycle |-> 0, today |-> 0, spent |-> 0]
  /\ branch = [f \in Foci |-> NoWork]
  /\ intg = CutFor(0)
  /\ base = [cycles |-> {}, moved |-> {}, ungated |-> {}]
  /\ killed = FALSE /\ drain = FALSE
  /\ at = "idle" /\ tick = Blank /\ crashes = 0

-----------------------------------------------------------------------------
Planned(f) == focus[f].cycle = cycle.n
Phase(f) == focus[f].phase
InPhase(S) == {f \in Foci : Planned(f) /\ Phase(f) \in S}

\* MUTANT: one cap left is enough
BudgetEither == budget.today < PerDay \/ budget.spent < PerCycle

BudgetOK == budget.today < PerDay /\ budget.spent < PerCycle

Spend(usd) ==
  budget' = [cycle |-> cycle.n, today |-> budget.today + usd,
             spent |-> usd + IF budget.cycle = cycle.n THEN budget.spent ELSE 0]

Lower(a, b) == IF a < b THEN a ELSE b
GateFloor == Lower(floor, FloorCap)

WriteFocus(f, phase) == focus' = [focus EXCEPT ![f].phase = phase]
WriteCycle(phase) == cycle' = [cycle EXCEPT !.phase = phase]

\* A tick starts when KILL is absent and the cycle is in the handler's phase.
BeginTick(phases) == at = "idle" /\ ~killed /\ cycle.phase \in phases

Continue(step) == at' = step /\ UNCHANGED tick
EndTick == at' = "idle" /\ tick' = Blank
BackToLoop == at' = "work" /\ tick' = [tick EXCEPT !.f = NoFocus]

-----------------------------------------------------------------------------
(* PLAN *)

\* The integration branch of a new cycle is cut from the base branch.
EnsureIntegration ==
  intg' = IF intg.cycle = cycle.n THEN intg ELSE CutFor(cycle.n)

\* The planner runs and its cost is recorded; no items ends the tick.
Plan(items, usd) ==
  /\ BeginTick({"planning"}) /\ BudgetOK
  /\ EnsureIntegration
  /\ Spend(usd)
  /\ at' = IF items = {} THEN "idle" ELSE "write_foci"
  /\ tick' = [Blank EXCEPT !.todo = items]
  /\ UNCHANGED <<cycle, focus, floor, branch, base, switches, crashes>>

WritePlannedFocus(f) ==
  /\ at = "write_foci" /\ f \in tick.todo
  /\ focus' = [focus EXCEPT ![f] = [cycle |-> cycle.n, phase |-> "ready",
                                    attempts |-> 0, last |-> NoDiff]]
  /\ tick' = [tick EXCEPT !.todo = @ \ {f}]
  /\ UNCHANGED <<cycle, floor, budget, repo, switches, at, crashes>>

PlanDone ==
  /\ at = "write_foci" /\ tick.todo = {}
  /\ WriteCycle("working")
  /\ EndTick
  /\ UNCHANGED <<focus, floor, budget, repo, switches, crashes>>

-----------------------------------------------------------------------------
(* WORK *)

WorkComplete ==
  /\ BeginTick({"working"}) /\ InPhase(ActivePhases) = {}
  /\ WriteCycle("integrating")
  /\ UNCHANGED <<focus, floor, budget, repo, switches, at, tick, crashes>>

\* MUTANT: foci past their build are not counted as started
BeginWorkForgetful(admitted) ==
  LET started == InPhase({"building"})
      ready == InPhase({"ready"})
  IN
  /\ BeginTick({"working"}) /\ InPhase(ActivePhases) # {}
  /\ admitted \subseteq ready
  /\ Cardinality(admitted) = Lower(Cardinality(ready), MaxConcurrent)
  /\ at' = "work"
  /\ tick' = [Blank EXCEPT !.todo = started \cup admitted, !.ok = BudgetOK]
  /\ UNCHANGED <<files, repo, switches, crashes>>

\* Every started focus, then ready ones while there is room.
BeginWork(admitted) ==
  LET started == InPhase(Started)
      ready == InPhase({"ready"})
  IN
  /\ BeginTick({"working"}) /\ InPhase(ActivePhases) # {}
  /\ admitted \subseteq ready
  /\ \/ Cardinality(started) >= MaxConcurrent /\ admitted = {}
     \/ /\ Cardinality(started) < MaxConcurrent
        /\ Cardinality(admitted) =
             Lower(Cardinality(ready), MaxConcurrent - Cardinality(started))
  /\ at' = "work"
  /\ tick' = [Blank EXCEPT !.todo = started \cup admitted, !.ok = BudgetOK]
  /\ UNCHANGED <<files, repo, switches, crashes>>

\* f is the focus the loop has reached: started ones come before ready ones.
Reached(f) ==
  /\ at = "work" /\ tick.ops < MaxConcurrent
  /\ f \in tick.todo
  /\ Phase(f) = "ready" => \A g \in tick.todo : Phase(g) = "ready"

NeedsBudget(f) ==
  \/ Phase(f) \in {"ready", "building", "reviewing"}
  \/ Phase(f) = "needs_work" /\ focus[f].attempts < MaxRetries

\* What the loop does with f continues at step; f is then behind it.
Handle(f, step) ==
  /\ at' = step
  /\ tick' = [tick EXCEPT !.todo = @ \ {f}, !.ops = @ + 1, !.f = f]

SkipForBudget(f) ==
  /\ Reached(f) /\ NeedsBudget(f) /\ ~tick.ok
  /\ tick' = [tick EXCEPT !.todo = @ \ {f}]
  /\ UNCHANGED <<files, repo, switches, at, crashes>>

EndWork ==
  /\ at = "work" /\ (tick.todo = {} \/ tick.ops >= MaxConcurrent)
  /\ EndTick
  /\ UNCHANGED <<files, repo, switches, crashes>>

BeginBuild(f) ==
  /\ Reached(f) /\ Phase(f) \in {"ready", "building"} /\ tick.ok
  /\ WriteFocus(f, "building")
  /\ Handle(f, "build")
  /\ UNCHANGED <<cycle, floor, budget, repo, switches, crashes>>

Retry(f) ==
  /\ Reached(f) /\ Phase(f) = "needs_work"
  /\ focus[f].attempts < MaxRetries /\ tick.ok
  /\ focus' = [focus EXCEPT ![f].attempts = @ + 1]
  /\ Handle(f, "retry")
  /\ UNCHANGED <<cycle, floor, budget, repo, switches, crashes>>

RetryBuilds ==
  /\ at = "retry"
  /\ WriteFocus(tick.f, "building")
  /\ Continue("build")
  /\ UNCHANGED <<cycle, floor, budget, repo, switches, crashes>>

\* The builder commits on a new or an existing branch; it may change nothing.
BuilderRuns(w) ==
  /\ at = "build"
  /\ branch' = [branch EXCEPT ![tick.f] = w]
  /\ Continue("built")
  /\ UNCHANGED <<files, intg, base, switches, crashes>>

BuilderPaid(usd) ==
  /\ at = "built"
  /\ Spend(usd)
  /\ Continue("spent")
  /\ UNCHANGED <<cycle, focus, floor, repo, switches, crashes>>

BuildDone ==
  /\ at = "spent"
  /\ WriteFocus(tick.f, "testing")
  /\ BackToLoop
  /\ UNCHANGED <<cycle, floor, budget, repo, switches, crashes>>

-----------------------------------------------------------------------------
(* TEST *)

\* `git diff <integration>` in the worktree depends on both sides.
DiffHash(f) == [work |-> branch[f], onto |-> intg.merged]

NoProgress(f) == focus[f].attempts > 0 /\ DiffHash(f) = focus[f].last

\* The first write of _kill; the branch is quarantined next.
Kill(f) ==
  /\ WriteFocus(f, "dead")
  /\ UNCHANGED <<cycle, floor, budget, repo, switches, crashes>>

KillStuck(f) ==
  /\ Reached(f) /\ Phase(f) = "testing" /\ NoProgress(f)
  /\ Handle(f, "quarantine")
  /\ Kill(f)

\* `import ujin` works in a tree that holds these works.
Imports(works) == \A clash \in Clashes : ~ clash \subseteq works

\* verify_import raises before the gate runs, out of tick() and with nothing
\* written: the next tick finds the focus as it was.
GateRaises(f) ==
  /\ Reached(f) /\ Phase(f) = "testing" /\ ~NoProgress(f)
  /\ ~Imports({branch[f]})
  /\ EndTick
  /\ UNCHANGED <<files, repo, switches, crashes>>

\* A pass may raise the recorded floor, then the focus moves on.
GatePass(f, cov) ==
  /\ Reached(f) /\ Phase(f) = "testing" /\ ~NoProgress(f)
  /\ Imports({branch[f]})
  /\ cov >= GateFloor
  /\ floor' = IF cov > GateFloor THEN Lower(cov, FloorCap) ELSE floor
  /\ Handle(f, "green")
  /\ UNCHANGED <<cycle, focus, budget, repo, switches, crashes>>

\* MUTANT: the diff hash is not written with the phase
WriteGreenHashless ==
  /\ at = "green"
  /\ WriteFocus(tick.f, "reviewing")
  /\ BackToLoop
  /\ UNCHANGED <<cycle, floor, budget, repo, switches, crashes>>

WriteGreen ==
  /\ at = "green"
  /\ focus' = [focus EXCEPT ![tick.f].phase = "reviewing",
                            ![tick.f].last = DiffHash(tick.f)]
  /\ BackToLoop
  /\ UNCHANGED <<cycle, floor, budget, repo, switches, crashes>>

\* Tests, coverage or benchmark failed.
GateFail(f) ==
  /\ Reached(f) /\ Phase(f) = "testing" /\ ~NoProgress(f)
  /\ Imports({branch[f]})
  /\ focus' = [focus EXCEPT ![f].phase = "needs_work", ![f].last = DiffHash(f)]
  /\ at' = "work"
  /\ tick' = [tick EXCEPT !.todo = @ \ {f}, !.ops = @ + 1]
  /\ UNCHANGED <<cycle, floor, budget, repo, switches, crashes>>

-----------------------------------------------------------------------------
(* REVIEW *)

\* `git diff --name-only` gives a renamed file by its new name alone, so the
\* block does not see that a contract file was renamed and edited.
ContractsTouched(w) == w \in ContractWork \ RenamedWork

ContractBlock(f) ==
  /\ Reached(f) /\ Phase(f) = "reviewing" /\ tick.ok
  /\ ContractsTouched(branch[f])
  /\ Handle(f, "quarantine")
  /\ Kill(f)

VerifierPrompts == 3   \* run_verifier asks again when the reply has no verdict

\* MUTANT: the contract check is missing
VerifyUnblocked(f, verdict, usd) ==
  /\ Reached(f) /\ Phase(f) = "reviewing" /\ tick.ok
  /\ Spend(usd)
  /\ Handle(f, verdict)
  /\ UNCHANGED <<cycle, focus, floor, repo, switches, crashes>>

\* The verifier answers and its cost is recorded.
Verify(f, verdict, usd) ==
  /\ Reached(f) /\ Phase(f) = "reviewing" /\ tick.ok
  /\ ~ContractsTouched(branch[f])
  /\ Spend(usd)
  /\ Handle(f, verdict)
  /\ UNCHANGED <<cycle, focus, floor, repo, switches, crashes>>

Verdicts == {"approve", "rework", "reject"}

WriteVerdict ==
  /\ \/ at = "approve" /\ WriteFocus(tick.f, "approved") /\ BackToLoop
     \/ at = "rework" /\ WriteFocus(tick.f, "needs_work") /\ BackToLoop
     \/ at = "reject" /\ WriteFocus(tick.f, "dead") /\ Continue("quarantine")
  /\ UNCHANGED <<cycle, floor, budget, repo, switches, crashes>>

\* MUTANT: kills one retry too late
ExhaustedLate(f) ==
  /\ Reached(f) /\ Phase(f) = "needs_work" /\ focus[f].attempts > MaxRetries
  /\ Handle(f, "quarantine")
  /\ Kill(f)

Exhausted(f) ==
  /\ Reached(f) /\ Phase(f) = "needs_work" /\ focus[f].attempts >= MaxRetries
  /\ Handle(f, "quarantine")
  /\ Kill(f)

\* The branch becomes dead/agent/<focus>-<cycle> and its worktree goes.
Quarantine ==
  /\ at = "quarantine"
  /\ branch' = [branch EXCEPT ![tick.f] = NoWork]
  /\ IF cycle.phase = "working" THEN BackToLoop ELSE EndTick
  /\ UNCHANGED <<files, intg, base, switches, crashes>>

-----------------------------------------------------------------------------
(* INTEGRATE: one merge per tick *)

IntegrateComplete ==
  /\ BeginTick({"integrating"}) /\ InPhase({"approved"}) = {}
  /\ WriteCycle("releasing")
  /\ UNCHANGED <<focus, floor, budget, repo, switches, at, tick, crashes>>

IsMerged(f) == <<f, branch[f]>> \in intg.merged

\* head_before is read, then the branch is merged: a new HEAD the gate has not
\* seen, or the same HEAD when the branch is in it already.
Merge(f) ==
  /\ BeginTick({"integrating"}) /\ f \in InPhase({"approved"})
  /\ intg' = [intg EXCEPT !.merged = @ \cup {<<f, branch[f]>>},
                          !.green = @ /\ IsMerged(f)]
  /\ at' = "regate"
  /\ tick' = [Blank EXCEPT !.f = f, !.head = Head]
  /\ UNCHANGED <<files, branch, base, switches, crashes>>

\* A conflict the triage agent does not resolve; the merge is aborted.
MergeConflict(f) ==
  /\ BeginTick({"integrating"}) /\ f \in InPhase({"approved"}) /\ ~IsMerged(f)
  /\ at' = "unmerged"
  /\ tick' = [Blank EXCEPT !.f = f]
  /\ UNCHANGED <<files, repo, switches, crashes>>

MergedWorks == {m[2] : m \in intg.merged}

\* The merged tree does not import: the merge stays where it is, ungated, and
\* the focus approved, so that the next tick comes back to it and raises again.
RegateRaises ==
  /\ at = "regate" /\ ~Imports(MergedWorks)
  /\ EndTick
  /\ UNCHANGED <<files, repo, switches, crashes>>

RegatePass ==
  /\ at = "regate" /\ Imports(MergedWorks)
  /\ intg' = [intg EXCEPT !.green = TRUE]
  /\ Continue("merged")
  /\ UNCHANGED <<files, branch, base, switches, crashes>>

\* MUTANT: resets to the base branch
ResetToBase(head) == [intg EXCEPT !.merged = {}, !.green = TRUE]

\* MUTANT: the failed merge is kept
ResetNothing(head) == intg

\* git reset --hard head_before.
ResetHead(head) ==
  [intg EXCEPT !.merged = head.merged,
               !.green = head.green /\ head.merged # intg.merged]

RegateFail ==
  /\ at = "regate" /\ Imports(MergedWorks)
  /\ intg' = ResetHead(tick.head)
  /\ at' = "unmerged" /\ tick' = [tick EXCEPT !.head = NoHead]
  /\ UNCHANGED <<files, branch, base, switches, crashes>>

WriteIntegrated ==
  /\ at = "merged"
  /\ WriteFocus(tick.f, "integrated")
  /\ Continue("cleanup")
  /\ UNCHANGED <<cycle, floor, budget, repo, switches, crashes>>

RemoveWorktree ==
  /\ at = "cleanup"
  /\ branch' = [branch EXCEPT ![tick.f] = NoWork]
  /\ EndTick
  /\ UNCHANGED <<files, intg, base, switches, crashes>>

Requeue ==
  /\ at = "unmerged" /\ focus[tick.f].attempts < MaxRetries
  /\ focus' = [focus EXCEPT ![tick.f].attempts = @ + 1,
                            ![tick.f].phase = "needs_work"]
  /\ Continue("requeue")
  /\ UNCHANGED <<cycle, floor, budget, repo, switches, crashes>>

RequeueReopens ==
  /\ at = "requeue"
  /\ WriteCycle("working")
  /\ EndTick
  /\ UNCHANGED <<focus, floor, budget, repo, switches, crashes>>

KillUnmergeable ==
  /\ at = "unmerged" /\ focus[tick.f].attempts >= MaxRetries
  /\ Continue("quarantine")
  /\ Kill(tick.f)

-----------------------------------------------------------------------------
(* RELEASE *)

ReleaseEmpty ==
  /\ BeginTick({"releasing"}) /\ InPhase({"integrated"}) = {}
  /\ WriteCycle("done")
  /\ UNCHANGED <<focus, floor, budget, repo, switches, at, tick, crashes>>

\* Version and changelog are written once; files that already carry the stamp
\* are not touched again, and then neither the commit nor its gate happens.
Stamp ==
  /\ BeginTick({"releasing"}) /\ InPhase({"integrated"}) # {}
  /\ IF intg.stamp = "none"
       THEN intg' = [intg EXCEPT !.stamp = "dirty"] /\ at' = "stamped"
       ELSE UNCHANGED intg /\ at' = "publish"
  /\ UNCHANGED <<files, branch, base, switches, tick, crashes>>

\* git may refuse the commit, and nothing looks whether it did: the stamp then
\* stays in the worktree only, over the HEAD of the last merge.
CommitStamp ==
  /\ at = "stamped"
  /\ \/ intg' = [intg EXCEPT !.stamp = "committed", !.green = FALSE]
     \/ UNCHANGED intg
  /\ at' = "stamp_gate" /\ tick' = [tick EXCEPT !.head = Head]
  /\ UNCHANGED <<files, branch, base, switches, crashes>>

\* MUTANT: the gate's answer is not read
StampGateUnread ==
  /\ at = "stamp_gate"
  /\ intg' \in {[intg EXCEPT !.green = green] : green \in BOOLEAN}
  /\ at' = "publish" /\ tick' = Blank
  /\ UNCHANGED <<files, branch, base, switches, crashes>>

\* The order of the merges is not kept: any of them may be the last.
LastMerge == IF intg.merged = {} THEN {{}} ELSE {{m} : m \in intg.merged}

\* git reset --hard HEAD~1 takes back the release commit, or the last merge when
\* there is none, and the stamp of the worktree.  (What a HEAD before that was, its
\* own gate has passed on.)
ResetOne ==
  \/ /\ intg.stamp = "committed"
     /\ intg' = [intg EXCEPT !.green = tick.head.green, !.stamp = "none"]
  \/ /\ intg.stamp = "dirty"
     /\ \E last \in LastMerge :
          intg' = [intg EXCEPT !.merged = @ \ last, !.undone = @ \cup last,
                               !.stamp = "none"]

\* A red gate takes one commit back, and there is no release.
StampGate ==
  /\ at = "stamp_gate"
  /\ \/ intg' = [intg EXCEPT !.green = @ \/ intg.stamp = "committed"] /\ at' = "publish"
     \/ ResetOne /\ at' = "released"
  /\ tick' = Blank
  /\ UNCHANGED <<files, branch, base, switches, crashes>>

\* The outcome of the merge into the base branch is not looked at: on a
\* conflict base stays as it is.  No gate runs on the merge commit, whose tree is
\* that of integration's HEAD unless base has moved since the branch was cut.
Publish ==
  /\ at = "publish"
  /\ \/ /\ FullAuto
        /\ base' = [base EXCEPT
             !.cycles = @ \cup {cycle.n},
             !.ungated = IF intg.green /\ cycle.n \notin base.moved
                           THEN @ ELSE @ \cup {cycle.n}]
     \/ UNCHANGED base
  /\ Continue("released")
  /\ UNCHANGED <<files, branch, intg, switches, crashes>>

ReleaseDone ==
  /\ at = "released"
  /\ WriteCycle("done")
  /\ EndTick
  /\ UNCHANGED <<focus, floor, budget, repo, switches, crashes>>

-----------------------------------------------------------------------------
(* DONE and HALTED *)

Halt ==
  /\ BeginTick({"done"}) /\ drain
  /\ WriteCycle("halted")
  /\ UNCHANGED <<focus, floor, budget, repo, switches, at, tick, crashes>>

StartNextCycle ==
  /\ BeginTick({"done", "halted"}) /\ ~drain /\ cycle.n < MaxCycle
  /\ cycle' = [n |-> cycle.n + 1, phase |-> "planning"]
  /\ UNCHANGED <<focus, floor, budget, repo, switches, at, tick, crashes>>

-----------------------------------------------------------------------------
(* The daemon's surroundings *)

Crash ==
  /\ at # "idle" /\ crashes < MaxCrashes
  /\ EndTick
  /\ crashes' = crashes + 1
  /\ UNCHANGED <<files, repo, switches>>

\* read_budget starts a new day's counter at midnight.
NewDay ==
  /\ budget.today > 0
  /\ budget' = [budget EXCEPT !.today = 0]
  /\ UNCHANGED <<cycle, focus, floor, repo, switches, at, tick, crashes>>

FlipKill ==
  /\ "kill" \in Toggles
  /\ killed' = ~killed
  /\ UNCHANGED <<files, repo, drain, at, tick, crashes>>

FlipDrain ==
  /\ "drain" \in Toggles
  /\ drain' = ~drain
  /\ UNCHANGED <<files, repo, killed, at, tick, crashes>>

\* Somebody commits to the base branch while a cycle works on its integration.
CommitToBase ==
  /\ "commit" \in Toggles /\ intg.cycle = cycle.n
  /\ base' = [base EXCEPT !.moved = @ \cup {cycle.n}]
  /\ UNCHANGED <<files, branch, intg, switches, at, tick, crashes>>

-----------------------------------------------------------------------------
PlanTick ==
  \/ \E items \in SUBSET Foci, usd \in 0..PerAgent : Plan(items, usd)
  \/ \E f \in Foci : WritePlannedFocus(f)
  \/ PlanDone

WorkTick ==
  \/ WorkComplete
  \/ \E admitted \in SUBSET Foci : BeginWork(admitted)
  \/ \E f \in Foci : SkipForBudget(f) \/ BeginBuild(f) \/ Retry(f)
                     \/ KillStuck(f) \/ GateRaises(f) \/ GateFail(f)
                     \/ ContractBlock(f) \/ Exhausted(f)
  \/ \E f \in Foci, cov \in Covs : GatePass(f, cov)
  \/ \E f \in Foci, verdict \in Verdicts, usd \in 0..(VerifierPrompts * PerAgent) :
       Verify(f, verdict, usd)
  \/ RetryBuilds
  \/ \E w \in Work : BuilderRuns(w)
  \/ \E usd \in 0..PerAgent : BuilderPaid(usd)
  \/ BuildDone \/ WriteGreen \/ WriteVerdict
  \/ Quarantine
  \/ EndWork

IntegrateTick ==
  \/ IntegrateComplete
  \/ \E f \in Foci : Merge(f) \/ MergeConflict(f)
  \/ RegateRaises \/ RegatePass \/ RegateFail \/ WriteIntegrated \/ RemoveWorktree
  \/ Requeue \/ RequeueReopens \/ KillUnmergeable

ReleaseTick ==
  \/ ReleaseEmpty \/ Stamp \/ CommitStamp \/ StampGate \/ Publish \/ ReleaseDone
  \/ Halt \/ StartNextCycle

Daemon == PlanTick \/ WorkTick \/ IntegrateTick \/ ReleaseTick

Next == Daemon \/ Crash \/ NewDay \/ FlipKill \/ FlipDrain \/ CommitToBase

\* systemd keeps the daemon running and serve() ticks for ever; days pass.
Fairness == WF_vars(Daemon) /\ WF_vars(NewDay)

Spec == Init /\ [][Next]_vars
FairSpec == Spec /\ Fairness

-----------------------------------------------------------------------------
(* Safety, whatever crashes *)

\* Work that edits a frozen contract file under its own name is never in
\* integration: the block is in _review, before the verifier is asked, and nothing
\* builds after it.  (An edit together with a rename goes past the block.)
ContractNeverMerged ==
  \A f \in Foci, w \in Work : ContractsTouched(w) => <<f, w>> \notin intg.merged

\* What is approved is what the gate ran on: no step between the gate's pass
\* and the merge moves the branch.
ApprovedWorkWasGated ==
  \A f \in InPhase({"approved"}) : branch[f] = focus[f].last.work

\* A focus recorded as integrated stays in integration: undoing a later merge
\* takes nothing else away.  (remove() has deleted its branch by then.)  Only the
\* reset after a release commit that git refused takes a merge with it.
IntegratedNotLost ==
  \A f \in InPhase({"integrated"}) :
    \E w \in Work : <<f, w>> \in intg.merged \cup intg.undone

\* Caps are read at the start of a tick, so a tick may pass them, by no more
\* than what max_concurrent verifiers can spend.
TickSpend == MaxConcurrent * VerifierPrompts * PerAgent
BudgetOvershootBounded ==
  /\ budget.today < PerDay + TickSpend
  /\ budget.spent < PerCycle + TickSpend

\* The recorded coverage floor only rises.
FloorOnlyRises == [][floor' >= floor]_vars

-----------------------------------------------------------------------------
(* Safety and progress of a daemon that is not interrupted *)

\* No more than max_concurrent foci are between their first build and their
\* verdict, although every tick admits new ones and merges send old ones back.
InFlightCapped == Cardinality(InPhase(Started)) <= MaxConcurrent

\* Between ticks the gate has passed on the HEAD of integration, unless the
\* merge of a focus still to be integrated will run it again.
IntegrationStaysGreen ==
  at = "idle" /\ ~intg.green => \E f \in InPhase({"approved"}) : IsMerged(f)

\* A release leaves the base branch with a tree that the gate has passed on, unless
\* somebody else has committed to base since the integration branch was cut.
OnlyGreenReachesBase == base.ungated \subseteq base.moved

\* The tree of some gate does not import: no tick gets past it.
GateBlocked ==
  \/ \E f \in InPhase({"testing"}) : ~Imports({branch[f]})
  \/ ~Imports(MergedWorks)

\* A planned cycle ends, unless it uses up its budget on the way or comes to a tree
\* that does not import.
CycleFinishes ==
  (cycle.phase = "working")
    ~> \/ cycle.phase \in {"done", "halted"} \/ budget.spent >= PerCycle
       \/ GateBlocked

=============================================================================
