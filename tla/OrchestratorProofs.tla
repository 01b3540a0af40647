------------------------- MODULE OrchestratorProofs -------------------------
(***************************************************************************)
(* Theorems of Orchestrator for every set of foci and of work, every cap,  *)
(* any number of cycles and of crashes.                                    *)
(*                                                                         *)
(* One inductive invariant, IInv, carries them.  RepoInv says what the     *)
(* files and branches promise between any two steps, which is all a crash  *)
(* leaves; HandInv says, for each place of a tick, what the focus in hand  *)
(* has reached, which is what the next write relies on.                    *)
(*                                                                         *)
(* Until the first crash more holds: Calm says which phase each place of a *)
(* tick belongs to, what is in flight, and that integration is green but   *)
(* at a gate, where the HEAD to go back to is.                             *)
(***************************************************************************)
EXTENDS Orchestrator, FiniteSetTheorems, TLAPS

-----------------------------------------------------------------------------
(* The inductive invariant *)

NoContract(merged) ==
  \A f \in Foci, w \in Work : ContractsTouched(w) => <<f, w>> \notin merged

Holds(merged) ==
  \A f \in Foci : Planned(f) /\ Phase(f) = "integrated" =>
    \E w \in Work : <<f, w>> \in merged \cup intg.undone

\* What a focus in this phase has: a branch, a gate run on it, no contract edit.
PhaseInv(f) ==
  /\ Phase(f) \in {"testing", "reviewing", "approved"} => branch[f] \in Work
  /\ Phase(f) \in {"reviewing", "approved"} => branch[f] = focus[f].last.work
  /\ Phase(f) = "approved" => ~ContractsTouched(branch[f])

RepoInv ==
  /\ \A f \in Foci : PhaseInv(f) /\ focus[f].cycle <= cycle.n
  /\ cycle.phase # "planning" \/ (\E f \in Foci : Planned(f)) => intg.cycle = cycle.n
  /\ NoContract(intg.merged)
  /\ Holds(intg.merged)

InHand(places, phase) == at \in places => tick.f \in Foci /\ Phase(tick.f) = phase

HandInv ==
  /\ InHand({"retry"}, "needs_work")
  /\ InHand({"build", "built", "spent"}, "building")
  /\ InHand({"green"}, "testing")
  /\ InHand({"approve", "rework", "reject"}, "reviewing")
  /\ InHand({"quarantine"}, "dead")
  /\ InHand({"regate", "merged", "unmerged"}, "approved")
  /\ InHand({"cleanup"}, "integrated")
  /\ at \in {"built", "spent"} => branch[tick.f] \in Work
  /\ at = "approve" => ~ContractsTouched(branch[tick.f])
  /\ at \in {"regate", "merged"} => <<tick.f, branch[tick.f]>> \in intg.merged
  /\ at = "regate" => NoContract(tick.head.merged) /\ Holds(tick.head.merged)
  /\ at # "idle" => intg.cycle = cycle.n

IInv == TypeOK /\ RepoInv /\ HandInv

-----------------------------------------------------------------------------
(* What the helpers of the handlers leave *)

LEMMA PhaseNames ==
  {"building", "testing", "reviewing", "needs_work", "ready", "approved",
   "integrated", "dead"} \subseteq Phases
BY DEF Phases, ActivePhases, Started, TerminalPhases

\* The status of focus f was written: its phase is p and its diff d, the rest as before.
Wrote(f, p, d) ==
  /\ focus' \in [Foci -> FocusStates]
  /\ \A g \in Foci : /\ focus'[g].cycle = focus[g].cycle
                     /\ focus'[g].phase = IF g = f THEN p ELSE focus[g].phase
                     /\ focus'[g].last = IF g = f THEN d ELSE focus[g].last

LEMMA SetPhase ==
  ASSUME TypeOK, NEW f \in Foci, NEW p \in Phases, WriteFocus(f, p)
  PROVE  Wrote(f, p, focus[f].last)
BY DEF TypeOK, WriteFocus, FocusStates, Wrote

LEMMA SetPhaseAndDiff ==
  ASSUME TypeOK, NEW f \in Foci, NEW p \in Phases, NEW d \in Diffs,
         focus' = [focus EXCEPT ![f].phase = p, ![f].last = d]
  PROVE  Wrote(f, p, d)
<1>1. focus \in [Foci -> FocusStates]
  BY DEF TypeOK
<1>2. focus' = [focus EXCEPT ![f] = [focus[f] EXCEPT !.phase = p, !.last = d]]
  BY <1>1 DEF FocusStates
<1>3. [focus[f] EXCEPT !.phase = p, !.last = d] \in FocusStates
  BY <1>1 DEF FocusStates
<1> QED BY <1>1, <1>2, <1>3 DEF Wrote, FocusStates

LEMMA SetCycle ==
  ASSUME TypeOK, NEW p \in CyclePhases, WriteCycle(p)
  PROVE  /\ cycle' \in [n : 1..MaxCycle, phase : CyclePhases]
         /\ cycle'.n = cycle.n /\ cycle'.phase = p
BY DEF TypeOK, WriteCycle

LEMMA BlankOK == Blank \in Locals /\ Blank.head = NoHead
BY DEF Blank, Locals, NoHead, Heads

LEMMA HandleOK ==
  ASSUME TypeOK, NEW f \in Foci, NEW step \in Steps, Handle(f, step)
  PROVE  at' = step /\ tick' \in Locals /\ tick'.f = f
<1>1. tick.todo \ {f} \in SUBSET Foci /\ tick.ops + 1 \in Nat
  BY DEF TypeOK, Locals
<1>2. tick' = [tick EXCEPT !.todo = tick.todo \ {f}, !.ops = tick.ops + 1, !.f = f]
  BY DEF TypeOK, Locals, Handle
<1>3. tick \in Locals /\ at' = step
  BY DEF TypeOK, Handle
<1> QED BY <1>1, <1>2, <1>3 DEF Locals

LEMMA ContinueOK ==
  ASSUME TypeOK, NEW step \in Steps, Continue(step)
  PROVE  at' = step /\ tick' = tick /\ tick' \in Locals
BY DEF TypeOK, Continue

LEMMA LoopOK ==
  ASSUME TypeOK, BackToLoop \/ EndTick
  PROVE  at' \in {"idle", "work"} /\ tick' \in Locals
BY BlankOK DEF TypeOK, BackToLoop, EndTick, Locals

LEMMA SpendOK ==
  ASSUME TypeOK, NEW usd \in Nat, Spend(usd)
  PROVE  budget' \in [cycle : 0..MaxCycle, today : Nat, spent : Nat]
BY DEF TypeOK, Spend

LEMMA DiffOK ==
  ASSUME TypeOK, NEW f \in Foci
  PROVE  DiffHash(f) \in Diffs /\ DiffHash(f).work = branch[f]
BY DEF TypeOK, Integrations, DiffHash, Diffs

-----------------------------------------------------------------------------
(* Two kinds of steps: those that leave files and branches alone, and those *)
(* that write the status of one focus.                                      *)

LEMMA RepoUntouched ==
  ASSUME RepoInv, UNCHANGED <<cycle, focus, branch, intg>>
  PROVE  RepoInv'
BY DEF RepoInv, PhaseInv, Phase, Planned, NoContract, Holds

LEMMA RepoWrite ==
  ASSUME RepoInv, NEW f \in Foci, NEW p \in Phases, NEW d, Wrote(f, p, d),
         p \in {"testing", "reviewing", "approved"} => branch[f] \in Work,
         p \in {"reviewing", "approved"} => branch[f] = d.work,
         p = "approved" => ~ContractsTouched(branch[f]),
         p = "integrated" => \E w \in Work : <<f, w>> \in intg.merged \cup intg.undone,
         UNCHANGED <<cycle, branch, intg>>
  PROVE  RepoInv'
<1> USE DEF Wrote
<1>1. \A g \in Foci : PhaseInv(g)' /\ focus'[g].cycle <= cycle'.n
  BY DEF RepoInv, PhaseInv, Phase
<1>2. NoContract(intg.merged)'
  BY DEF RepoInv, NoContract
<1>3. Holds(intg.merged)'
  BY DEF RepoInv, Holds, Planned, Phase
<1>4. cycle'.phase # "planning" \/ (\E g \in Foci : Planned(g)') => intg'.cycle = cycle'.n
  BY DEF RepoInv, Planned
<1> QED BY <1>1, <1>2, <1>3, <1>4 DEF RepoInv

\* Nothing is asked of a place without a focus in hand.
LEMMA NoneInHand ==
  ASSUME at' \in {"idle", "write_foci", "work", "requeue", "stamped", "stamp_gate",
                  "publish", "released"},
         at' # "idle" => intg'.cycle = cycle'.n
  PROVE  HandInv'
BY DEF HandInv, InHand

-----------------------------------------------------------------------------
(* Every step keeps IInv *)

LEMMA InitIInv == Init => IInv
<1> SUFFICES ASSUME Init PROVE IInv
  OBVIOUS
<1>1. 1 \in 1..MaxCycle /\ 0 \in 0..MaxCycle /\ 0 \in 0..MaxRetries /\ 0 \in 0..MaxCrashes
  BY OrchestratorAssumption DEF OrchestratorAssumption
<1>2. Unplanned \in FocusStates /\ Unplanned.phase = "dead" /\ Unplanned.cycle = 0
  BY <1>1, PhaseNames DEF Unplanned, FocusStates, NoDiff, Diffs
<1>3. TypeOK
  BY <1>1, <1>2, BlankOK, OrchestratorAssumption
  DEF Init, TypeOK, CutFor, Integrations, Bases, CyclePhases, Steps, OrchestratorAssumption
<1>4. RepoInv
  BY <1>1, <1>2 DEF Init, CutFor, RepoInv, PhaseInv, Phase, Planned, NoContract, Holds
<1>5. HandInv
  BY DEF Init, HandInv, InHand
<1> QED BY <1>3, <1>4, <1>5 DEF IInv

LEMMA PlanKeeps ==
  ASSUME IInv, PlanTick
  PROVE  IInv'
<1> USE DEF IInv, files, repo, switches
<1>1. ASSUME NEW items \in SUBSET Foci, NEW usd \in 0..PerAgent, Plan(items, usd)
      PROVE  IInv'
  <2>1. /\ UNCHANGED <<cycle, focus, floor, branch, base, killed, drain, crashes>>
        /\ at' \in {"idle", "write_foci"} /\ tick' = [Blank EXCEPT !.todo = items]
        /\ Spend(usd) /\ EnsureIntegration
    BY <1>1 DEF Plan
  <2>2. usd \in Nat /\ tick' \in Locals
    <3>1. usd \in Nat
      BY OrchestratorAssumption DEF OrchestratorAssumption
    <3>2. tick' \in Locals
      BY <2>1, BlankOK DEF Locals
    <3> QED BY <3>1, <3>2
  <2>3. /\ intg' \in Integrations
        /\ intg'.cycle = cycle.n
        /\ intg' = intg \/ (intg.cycle # cycle.n /\ intg'.merged = {})
    BY <2>1 DEF EnsureIntegration, CutFor, Integrations, TypeOK
  <2>4. TypeOK'
    BY <2>1, <2>2, <2>3, SpendOK DEF TypeOK, Steps
  <2>6. RepoInv'
    BY <2>1, <2>3 DEF RepoInv, PhaseInv, Phase, Planned, NoContract, Holds
  <2>7. HandInv'
    BY <2>1, <2>3, NoneInHand
  <2> QED BY <2>4, <2>6, <2>7
<1>2. ASSUME NEW f \in Foci, WritePlannedFocus(f) PROVE IInv'
  <2>1. /\ at = "write_foci" /\ tick' = [tick EXCEPT !.todo = @ \ {f}]
        /\ UNCHANGED <<cycle, floor, budget, branch, intg, base, killed, drain, at, crashes>>
    BY <1>2 DEF WritePlannedFocus
  <2>2. /\ focus' \in [Foci -> FocusStates]
        /\ \A g \in Foci \ {f} : focus'[g] = focus[g]
        /\ focus'[f].phase = "ready" /\ focus'[f].cycle = cycle.n
    BY <1>2, PhaseNames, OrchestratorAssumption
    DEF WritePlannedFocus, TypeOK, FocusStates, NoDiff, Diffs, OrchestratorAssumption
  <2>3. tick' \in Locals
    BY <2>1 DEF TypeOK, Locals
  <2>4. TypeOK'
    BY <2>1, <2>2, <2>3 DEF TypeOK
  <2>5. intg.cycle = cycle.n
    BY <2>1 DEF HandInv
  <2>6. cycle.n <= cycle.n
    BY DEF TypeOK
  <2>7. RepoInv'
    BY <2>1, <2>2, <2>5, <2>6 DEF RepoInv, PhaseInv, Phase, Planned, NoContract, Holds
  <2>8. HandInv'
    BY <2>1, <2>5, NoneInHand
  <2> QED BY <2>4, <2>7, <2>8
<1>3. CASE PlanDone
  <2>1. /\ WriteCycle("working") /\ EndTick
        /\ UNCHANGED <<focus, floor, budget, branch, intg, base, killed, drain, crashes>>
    BY <1>3 DEF PlanDone
  <2>2. /\ cycle' \in [n : 1..MaxCycle, phase : CyclePhases] /\ cycle'.n = cycle.n
        /\ at' = "idle" /\ tick' \in Locals
    BY <2>1, SetCycle, LoopOK DEF CyclePhases, EndTick
  <2>3. TypeOK'
    BY <2>1, <2>2 DEF TypeOK, Steps
  <2>4. intg.cycle = cycle.n
    BY <1>3 DEF PlanDone, HandInv
  <2>5. RepoInv'
    BY <2>1, <2>2, <2>4 DEF RepoInv, PhaseInv, Phase, Planned, NoContract, Holds
  <2>6. HandInv'
    BY <2>2, NoneInHand
  <2> QED BY <2>3, <2>5, <2>6
<1> QED BY <1>1, <1>2, <1>3 DEF PlanTick

LEMMA BuildKeeps ==
  ASSUME IInv,
         \/ \E f \in Foci : BeginBuild(f) \/ Retry(f)
         \/ RetryBuilds \/ (\E w \in Work : BuilderRuns(w))
         \/ (\E usd \in 0..PerAgent : BuilderPaid(usd)) \/ BuildDone
  PROVE  IInv'
<1> USE DEF IInv, files, repo, switches
<1>1. ASSUME NEW f \in Foci, BeginBuild(f) PROVE IInv'
  <2>1. /\ at = "work" /\ WriteFocus(f, "building") /\ Handle(f, "build")
        /\ UNCHANGED <<cycle, floor, budget, branch, intg, base, killed, drain, crashes>>
    BY <1>1 DEF BeginBuild, Reached
  <2>2. at' = "build" /\ tick' \in Locals /\ tick'.f = f
    BY <2>1, HandleOK DEF Steps
  <2>3. Wrote(f, "building", focus[f].last)
    BY <2>1, <2>2, SetPhase, PhaseNames
  <2>4. TypeOK'
    BY <2>1, <2>2, <2>3 DEF TypeOK, Steps, Wrote
  <2>5. RepoInv'
    BY <2>1, <2>3, RepoWrite, PhaseNames DEF RepoInv
  <2>6. HandInv'
    BY <2>1, <2>2, <2>3 DEF HandInv, InHand, Phase, Wrote
  <2> QED BY <2>4, <2>5, <2>6
<1>2. ASSUME NEW f \in Foci, Retry(f) PROVE IInv'
  <2>1. /\ at = "work" /\ Phase(f) = "needs_work" /\ focus[f].attempts < MaxRetries
        /\ focus' = [focus EXCEPT ![f].attempts = @ + 1] /\ Handle(f, "retry")
        /\ UNCHANGED <<cycle, floor, budget, branch, intg, base, killed, drain, crashes>>
    BY <1>2 DEF Retry, Reached
  <2>2. at' = "retry" /\ tick' \in Locals /\ tick'.f = f
    BY <2>1, HandleOK DEF Steps
  <2>3. Wrote(f, "needs_work", focus[f].last)
    BY <2>1, OrchestratorAssumption DEF TypeOK, FocusStates, Phase, Wrote, OrchestratorAssumption
  <2>4. TypeOK'
    BY <2>1, <2>2, <2>3 DEF TypeOK, Steps, Wrote
  <2>5. RepoInv'
    BY <2>1, <2>3, RepoWrite, PhaseNames DEF RepoInv
  <2>6. HandInv'
    BY <2>1, <2>2, <2>3 DEF HandInv, InHand, Phase, Wrote
  <2> QED BY <2>4, <2>5, <2>6
<1>3. CASE RetryBuilds
  <2>1. /\ at = "retry" /\ WriteFocus(tick.f, "building") /\ Continue("build")
        /\ UNCHANGED <<cycle, floor, budget, branch, intg, base, killed, drain, crashes>>
    BY <1>3 DEF RetryBuilds
  <2>2. at' = "build" /\ tick' = tick /\ tick.f \in Foci
    BY <2>1, ContinueOK DEF Steps, HandInv, InHand
  <2>3. Wrote(tick.f, "building", focus[tick.f].last)
    BY <2>1, <2>2, SetPhase, PhaseNames
  <2>4. TypeOK'
    BY <2>1, <2>2, <2>3 DEF TypeOK, Steps, Wrote
  <2>5. RepoInv'
    BY <2>1, <2>2, <2>3, RepoWrite, PhaseNames DEF RepoInv
  <2>6. HandInv'
    BY <2>1, <2>2, <2>3 DEF HandInv, InHand, Phase, Wrote
  <2> QED BY <2>4, <2>5, <2>6
<1>4. ASSUME NEW w \in Work, BuilderRuns(w) PROVE IInv'
  <2>1. /\ at = "build" /\ branch' = [branch EXCEPT ![tick.f] = w] /\ Continue("built")
        /\ UNCHANGED <<cycle, focus, floor, budget, intg, base, killed, drain, crashes>>
    BY <1>4 DEF BuilderRuns
  <2>2. at' = "built" /\ tick' = tick /\ tick.f \in Foci /\ Phase(tick.f) = "building"
    BY <2>1, ContinueOK DEF Steps, HandInv, InHand
  <2>3. /\ branch' \in [Foci -> Work \cup {NoWork}]
        /\ branch'[tick.f] = w /\ \A g \in Foci \ {tick.f} : branch'[g] = branch[g]
    BY <2>1, <2>2 DEF TypeOK
  <2>4. TypeOK'
    BY <2>1, <2>2, <2>3 DEF TypeOK, Steps, Wrote
  <2>5. RepoInv'
    BY <2>1, <2>2, <2>3 DEF RepoInv, PhaseInv, Phase, Planned, NoContract, Holds
  <2>6. HandInv'
    BY <2>1, <2>2, <2>3 DEF HandInv, InHand, Phase, Wrote
  <2> QED BY <2>4, <2>5, <2>6
<1>5. ASSUME NEW usd \in 0..PerAgent, BuilderPaid(usd) PROVE IInv'
  <2>1. /\ at = "built" /\ Spend(usd) /\ Continue("spent")
        /\ UNCHANGED <<cycle, focus, floor, branch, intg, base, killed, drain, crashes>>
    BY <1>5 DEF BuilderPaid
  <2>2. at' = "spent" /\ tick' = tick /\ tick.f \in Foci /\ usd \in Nat
    BY <2>1, ContinueOK, OrchestratorAssumption
    DEF Steps, HandInv, InHand, OrchestratorAssumption
  <2>3. TypeOK'
    BY <2>1, <2>2, SpendOK DEF TypeOK, Steps
  <2>4. HandInv'
    BY <2>1, <2>2 DEF HandInv, InHand, Phase, Wrote
  <2> QED BY <2>1, <2>3, <2>4, RepoUntouched
<1>6. CASE BuildDone
  <2>1. /\ at = "spent" /\ WriteFocus(tick.f, "testing") /\ BackToLoop
        /\ UNCHANGED <<cycle, floor, budget, branch, intg, base, killed, drain, crashes>>
    BY <1>6 DEF BuildDone
  <2>2. at' \in {"idle", "work"} /\ tick' \in Locals /\ tick.f \in Foci /\ branch[tick.f] \in Work
    BY <2>1, LoopOK DEF HandInv, InHand
  <2>3. Wrote(tick.f, "testing", focus[tick.f].last)
    BY <2>1, <2>2, SetPhase, PhaseNames
  <2>4. TypeOK'
    BY <2>1, <2>2, <2>3 DEF TypeOK, Steps, Wrote
  <2>5. RepoInv'
    BY <2>1, <2>2, <2>3, RepoWrite, PhaseNames DEF RepoInv
  <2>6. HandInv'
    BY <2>1, <2>2, NoneInHand DEF HandInv
  <2> QED BY <2>4, <2>5, <2>6
<1> QED BY <1>1, <1>2, <1>3, <1>4, <1>5, <1>6

\* A focus leaves the work phases: its status says dead, its branch is next.
LEMMA KillKeeps ==
  ASSUME IInv, NEW f \in Foci, Kill(f), at' = "quarantine", tick' \in Locals, tick'.f = f,
         intg.cycle = cycle.n
  PROVE  IInv'
<1> USE DEF IInv, files, repo, switches
<1>1. /\ Wrote(f, "dead", focus[f].last)
      /\ UNCHANGED <<cycle, floor, budget, branch, intg, base, killed, drain, crashes>>
  BY SetPhase, PhaseNames DEF Kill
<1>2. TypeOK'
  BY <1>1 DEF TypeOK, Steps, Wrote
<1>3. RepoInv'
  BY <1>1, RepoWrite, PhaseNames
<1>4. HandInv'
  BY <1>1 DEF HandInv, InHand, Phase, Wrote
<1> QED BY <1>2, <1>3, <1>4

LEMMA TestKeeps ==
  ASSUME IInv,
         \/ \E f \in Foci : KillStuck(f) \/ GateFail(f) \/ Exhausted(f) \/ ContractBlock(f)
         \/ \E f \in Foci, cov \in Covs : GatePass(f, cov)
         \/ WriteGreen
  PROVE  IInv'
<1> USE DEF IInv, files, repo, switches
<1>1. ASSUME NEW f \in Foci, KillStuck(f) \/ Exhausted(f) \/ ContractBlock(f) PROVE IInv'
  <2>1. at = "work" /\ Handle(f, "quarantine") /\ Kill(f)
    BY <1>1 DEF KillStuck, Exhausted, ContractBlock, Reached
  <2>2. at' = "quarantine" /\ tick' \in Locals /\ tick'.f = f
    BY <2>1, HandleOK DEF Steps
  <2> QED BY <2>1, <2>2, KillKeeps DEF HandInv
<1>2. ASSUME NEW f \in Foci, GateFail(f) PROVE IInv'
  <2>1. /\ at = "work" /\ at' = "work"
        /\ focus' = [focus EXCEPT ![f].phase = "needs_work", ![f].last = DiffHash(f)]
        /\ tick' = [tick EXCEPT !.todo = @ \ {f}, !.ops = @ + 1]
        /\ UNCHANGED <<cycle, floor, budget, branch, intg, base, killed, drain, crashes>>
    BY <1>2 DEF GateFail, Reached
  <2>2. tick' \in Locals
    <3>1. tick.todo \ {f} \in SUBSET Foci /\ tick.ops + 1 \in Nat /\ tick \in Locals
      BY DEF TypeOK, Locals
    <3>2. tick' = [tick EXCEPT !.todo = tick.todo \ {f}, !.ops = tick.ops + 1]
      BY <2>1 DEF TypeOK, Locals
    <3> QED BY <3>1, <3>2 DEF Locals
  <2>3. Wrote(f, "needs_work", DiffHash(f))
    BY <2>1, DiffOK, PhaseNames, SetPhaseAndDiff
  <2>4. TypeOK'
    BY <2>1, <2>2, <2>3 DEF TypeOK, Wrote
  <2>5. RepoInv'
    BY <2>1, <2>3, RepoWrite, PhaseNames
  <2>6. HandInv'
    BY <2>1, NoneInHand DEF HandInv
  <2> QED BY <2>4, <2>5, <2>6
<1>3. ASSUME NEW f \in Foci, NEW cov \in Covs, GatePass(f, cov) PROVE IInv'
  <2>1. /\ at = "work" /\ Phase(f) = "testing" /\ Handle(f, "green")
        /\ floor' = (IF cov > GateFloor THEN Lower(cov, FloorCap) ELSE floor)
        /\ UNCHANGED <<cycle, focus, budget, branch, intg, base, killed, drain, crashes>>
    BY <1>3 DEF GatePass, Reached
  <2>2. at' = "green" /\ tick' \in Locals /\ tick'.f = f
    BY <2>1, HandleOK DEF Steps
  <2>3. floor' \in Nat
    BY <2>1, OrchestratorAssumption DEF TypeOK, Lower, OrchestratorAssumption
  <2>4. TypeOK'
    BY <2>1, <2>2, <2>3 DEF TypeOK, Steps
  <2>5. HandInv'
    BY <2>1, <2>2 DEF HandInv, InHand, Phase
  <2> QED BY <2>1, <2>4, <2>5, RepoUntouched
<1>4. CASE WriteGreen
  <2>1. /\ at = "green" /\ BackToLoop
        /\ focus' = [focus EXCEPT ![tick.f].phase = "reviewing",
                                  ![tick.f].last = DiffHash(tick.f)]
        /\ UNCHANGED <<cycle, floor, budget, branch, intg, base, killed, drain, crashes>>
    BY <1>4 DEF WriteGreen
  <2>2. /\ at' \in {"idle", "work"} /\ tick' \in Locals
        /\ tick.f \in Foci /\ Phase(tick.f) = "testing"
    BY <2>1, LoopOK DEF HandInv, InHand
  <2>3. Wrote(tick.f, "reviewing", DiffHash(tick.f))
    BY <2>1, <2>2, DiffOK, PhaseNames, SetPhaseAndDiff
  <2>4. TypeOK'
    BY <2>1, <2>2, <2>3 DEF TypeOK, Steps, Wrote
  <2>5. branch[tick.f] \in Work /\ branch[tick.f] = DiffHash(tick.f).work
    BY <2>2, DiffOK DEF RepoInv, PhaseInv
  <2>6. RepoInv'
    BY <2>1, <2>2, <2>3, <2>5, RepoWrite, PhaseNames
  <2>7. HandInv'
    BY <2>1, <2>2, NoneInHand DEF HandInv
  <2> QED BY <2>4, <2>6, <2>7
<1> QED BY <1>1, <1>2, <1>3, <1>4

LEMMA ReviewKeeps ==
  ASSUME IInv,
         \/ \E f \in Foci, verdict \in Verdicts, usd \in 0..(VerifierPrompts * PerAgent) :
              Verify(f, verdict, usd)
         \/ WriteVerdict \/ Quarantine
  PROVE  IInv'
<1> USE DEF IInv, files, repo, switches
<1>1. ASSUME NEW f \in Foci, NEW verdict \in Verdicts,
             NEW usd \in 0..(VerifierPrompts * PerAgent), Verify(f, verdict, usd)
      PROVE  IInv'
  <2>1. /\ at = "work" /\ Phase(f) = "reviewing" /\ ~ContractsTouched(branch[f])
        /\ Spend(usd) /\ Handle(f, verdict)
        /\ UNCHANGED <<cycle, focus, floor, branch, intg, base, killed, drain, crashes>>
    BY <1>1 DEF Verify, Reached
  <2>2. at' = verdict /\ tick' \in Locals /\ tick'.f = f /\ usd \in Nat
    BY <2>1, HandleOK, OrchestratorAssumption
    DEF Steps, Verdicts, VerifierPrompts, OrchestratorAssumption
  <2>3. TypeOK'
    BY <2>1, <2>2, SpendOK DEF TypeOK, Steps, Verdicts
  <2>4. HandInv'
    BY <2>1, <2>2 DEF HandInv, InHand, Phase, Verdicts
  <2> QED BY <2>1, <2>3, <2>4, RepoUntouched
<1>2. CASE at = "approve" /\ WriteVerdict
  <2>1. /\ WriteFocus(tick.f, "approved") /\ BackToLoop
        /\ UNCHANGED <<cycle, floor, budget, branch, intg, base, killed, drain, crashes>>
    BY <1>2 DEF WriteVerdict
  <2>2. /\ at' \in {"idle", "work"} /\ tick' \in Locals
        /\ tick.f \in Foci /\ Phase(tick.f) = "reviewing" /\ ~ContractsTouched(branch[tick.f])
    BY <1>2, <2>1, LoopOK DEF HandInv, InHand
  <2>3. Wrote(tick.f, "approved", focus[tick.f].last)
    BY <2>1, <2>2, SetPhase, PhaseNames
  <2>4. TypeOK'
    BY <2>1, <2>2, <2>3 DEF TypeOK, Steps, Wrote
  <2>5. RepoInv'
    <3>1. branch[tick.f] \in Work /\ branch[tick.f] = focus[tick.f].last.work
      BY <2>2 DEF RepoInv, PhaseInv
    <3> QED BY <2>1, <2>2, <2>3, <3>1, RepoWrite, PhaseNames
  <2>6. HandInv'
    BY <1>2, <2>1, <2>2, NoneInHand DEF HandInv
  <2> QED BY <2>4, <2>5, <2>6
<1>3. CASE at = "rework" /\ WriteVerdict
  <2>1. /\ WriteFocus(tick.f, "needs_work") /\ BackToLoop
        /\ UNCHANGED <<cycle, floor, budget, branch, intg, base, killed, drain, crashes>>
    BY <1>3 DEF WriteVerdict
  <2>2. at' \in {"idle", "work"} /\ tick' \in Locals /\ tick.f \in Foci
    BY <1>3, <2>1, LoopOK DEF HandInv, InHand
  <2>3. Wrote(tick.f, "needs_work", focus[tick.f].last)
    BY <2>1, <2>2, SetPhase, PhaseNames
  <2>4. TypeOK'
    BY <2>1, <2>2, <2>3 DEF TypeOK, Steps, Wrote
  <2>5. RepoInv'
    BY <2>1, <2>2, <2>3, RepoWrite, PhaseNames
  <2>6. HandInv'
    BY <1>3, <2>1, <2>2, NoneInHand DEF HandInv
  <2> QED BY <2>4, <2>5, <2>6
<1>4. CASE at = "reject" /\ WriteVerdict
  <2>1. Kill(tick.f) /\ Continue("quarantine") /\ tick.f \in Foci /\ intg.cycle = cycle.n
    BY <1>4 DEF WriteVerdict, Kill, HandInv, InHand
  <2>2. at' = "quarantine" /\ tick' = tick /\ tick' \in Locals
    BY <2>1, ContinueOK DEF Steps
  <2> QED BY <2>1, <2>2, KillKeeps
<1>5. CASE Quarantine
  <2>1. /\ at = "quarantine" /\ branch' = [branch EXCEPT ![tick.f] = NoWork]
        /\ BackToLoop \/ EndTick
        /\ UNCHANGED <<cycle, focus, floor, budget, intg, base, killed, drain, crashes>>
    BY <1>5 DEF Quarantine
  <2>2. /\ at' \in {"idle", "work"} /\ tick' \in Locals
        /\ tick.f \in Foci /\ Phase(tick.f) = "dead"
    BY <2>1, LoopOK DEF HandInv, InHand
  <2>3. /\ branch' \in [Foci -> Work \cup {NoWork}]
        /\ \A g \in Foci \ {tick.f} : branch'[g] = branch[g]
    BY <2>1 DEF TypeOK
  <2>4. TypeOK'
    BY <2>1, <2>2, <2>3 DEF TypeOK, Steps
  <2>5. RepoInv'
    BY <2>1, <2>2, <2>3 DEF RepoInv, PhaseInv, Phase, Planned, NoContract, Holds
  <2>6. HandInv'
    BY <2>1, <2>2, NoneInHand DEF HandInv
  <2> QED BY <2>4, <2>5, <2>6
<1> QED BY <1>1, <1>2, <1>3, <1>4, <1>5 DEF WriteVerdict

\* A phase of the cycle ends with no focus in hand.
LEMMA CycleKeeps ==
  ASSUME IInv, NEW p \in CyclePhases, WriteCycle(p), intg.cycle = cycle.n,
         at' = "idle", tick' \in Locals,
         UNCHANGED <<focus, floor, budget, branch, intg, base, killed, drain, crashes>>
  PROVE  IInv'
<1>1. cycle' \in [n : 1..MaxCycle, phase : CyclePhases] /\ cycle'.n = cycle.n
  BY SetCycle DEF IInv
<1>2. TypeOK'
  BY <1>1 DEF IInv, TypeOK, Steps
<1>3. RepoInv'
  BY <1>1 DEF IInv, RepoInv, PhaseInv, Phase, Planned, NoContract, Holds
<1>4. HandInv'
  BY NoneInHand
<1> QED BY <1>2, <1>3, <1>4 DEF IInv

\* A step that moves only the tick, to a place without a focus in hand.
LEMMA MoveKeeps ==
  ASSUME IInv, at' \in {"idle", "work"}, tick' \in Locals, intg.cycle = cycle.n,
         UNCHANGED <<cycle, focus, floor, budget, branch, intg, base, killed, drain>>,
         crashes' \in 0..MaxCrashes
  PROVE  IInv'
<1>1. TypeOK'
  BY DEF IInv, TypeOK, Steps
<1>2. RepoInv'
  BY RepoUntouched DEF IInv
<1>3. HandInv'
  BY NoneInHand
<1> QED BY <1>1, <1>2, <1>3 DEF IInv

LEMMA LoopKeeps ==
  ASSUME IInv,
         \/ WorkComplete \/ EndWork \/ RegateRaises
         \/ \E f \in Foci : GateRaises(f)
         \/ \E admitted \in SUBSET Foci : BeginWork(admitted)
         \/ \E f \in Foci : SkipForBudget(f)
  PROVE  IInv'
<1> USE DEF files, repo, switches
<1>1. CASE WorkComplete
  <2>1. /\ WriteCycle("integrating") /\ cycle.phase = "working"
        /\ at' = "idle" /\ tick' = tick
        /\ UNCHANGED <<focus, floor, budget, branch, intg, base, killed, drain, crashes>>
    BY <1>1 DEF WorkComplete, BeginTick
  <2>2. intg.cycle = cycle.n /\ tick' \in Locals
    BY <2>1 DEF IInv, RepoInv, TypeOK
  <2> QED BY <2>1, <2>2, CycleKeeps DEF CyclePhases
<1>2. CASE EndWork \/ RegateRaises \/ \E f \in Foci : GateRaises(f)
  <2>1. /\ at # "idle" /\ EndTick
        /\ UNCHANGED <<cycle, focus, floor, budget, branch, intg, base, killed, drain, crashes>>
    BY <1>2 DEF EndWork, RegateRaises, GateRaises, Reached
  <2>2. at' \in {"idle", "work"} /\ tick' \in Locals /\ intg.cycle = cycle.n
    BY <2>1, LoopOK DEF IInv, HandInv
  <2> QED BY <2>1, <2>2, MoveKeeps DEF IInv, TypeOK
<1>3. ASSUME NEW admitted \in SUBSET Foci, BeginWork(admitted) PROVE IInv'
  <2>1. /\ at' = "work" /\ cycle.phase = "working"
        /\ tick' = [Blank EXCEPT !.todo = InPhase(Started) \cup admitted, !.ok = BudgetOK]
        /\ UNCHANGED <<cycle, focus, floor, budget, branch, intg, base, killed, drain, crashes>>
    BY <1>3 DEF BeginWork, BeginTick
  <2>2. tick' \in Locals
    <3>1. InPhase(Started) \cup admitted \in SUBSET Foci /\ BudgetOK \in BOOLEAN
      BY DEF InPhase, BudgetOK
    <3> QED BY <2>1, <3>1, BlankOK DEF Locals
  <2>3. intg.cycle = cycle.n
    BY <2>1 DEF IInv, RepoInv
  <2> QED BY <2>1, <2>2, <2>3, MoveKeeps DEF IInv, TypeOK
<1>4. ASSUME NEW f \in Foci, SkipForBudget(f) PROVE IInv'
  <2>1. /\ at = "work" /\ at' = "work" /\ tick' = [tick EXCEPT !.todo = @ \ {f}]
        /\ UNCHANGED <<cycle, focus, floor, budget, branch, intg, base, killed, drain, crashes>>
    BY <1>4 DEF SkipForBudget, Reached
  <2>2. tick' \in Locals
    BY <2>1 DEF IInv, TypeOK, Locals
  <2>3. intg.cycle = cycle.n
    BY <2>1 DEF IInv, HandInv
  <2> QED BY <2>1, <2>2, <2>3, MoveKeeps DEF IInv, TypeOK
<1> QED BY <1>1, <1>2, <1>3, <1>4

\* The merge of one approved focus, from head_before to the status write.
LEMMA MergeKeeps ==
  ASSUME IInv, (\E f \in Foci : Merge(f) \/ MergeConflict(f)) \/ RegatePass \/ RegateFail
  PROVE  IInv'
<1> USE DEF IInv, files, repo, switches
<1>1. ASSUME NEW f \in Foci, Merge(f) PROVE IInv'
  <2>1. /\ cycle.phase = "integrating" /\ Planned(f) /\ Phase(f) = "approved"
        /\ intg' = [intg EXCEPT !.merged = intg.merged \cup {<<f, branch[f]>>},
                                !.green = intg.green /\ IsMerged(f)]
        /\ at' = "regate" /\ tick' = [Blank EXCEPT !.f = f, !.head = Head]
        /\ UNCHANGED <<cycle, focus, floor, budget, branch, base, killed, drain, crashes>>
    BY <1>1 DEF Merge, BeginTick, InPhase
  <2>2. branch[f] \in Work /\ ~ContractsTouched(branch[f]) /\ intg.cycle = cycle.n
    BY <2>1 DEF RepoInv, PhaseInv
  <2>3. Head \in Heads /\ Head.merged = intg.merged
    BY DEF TypeOK, Head, Heads, Integrations
  <2>4. tick' \in Locals /\ tick'.f = f /\ tick'.head = Head
    BY <2>1, <2>3, BlankOK DEF Locals
  <2>5. intg.merged \cup {<<f, branch[f]>>} \in SUBSET Merges
    BY <2>2 DEF TypeOK, Merges, Integrations
  <2>6. (intg.green /\ IsMerged(f)) \in BOOLEAN
    OBVIOUS
  <2>7. /\ intg' \in Integrations
        /\ intg'.merged = intg.merged \cup {<<f, branch[f]>>} /\ intg'.cycle = intg.cycle
        /\ intg'.undone = intg.undone
    BY <2>1, <2>5, <2>6 DEF TypeOK, Integrations
  <2>8. TypeOK'
    BY <2>1, <2>4, <2>7 DEF TypeOK, Steps
  <2>9. RepoInv'
    BY <2>1, <2>2, <2>7 DEF RepoInv, PhaseInv, Phase, Planned, NoContract, Holds
  <2>10. HandInv'
    <3>1. tick'.head.merged = intg.merged
      BY <2>3, <2>4
    <3>2. NoContract(tick.head.merged)' /\ Holds(tick.head.merged)'
      BY <2>1, <2>7, <3>1 DEF RepoInv, Holds, Planned, Phase, NoContract
    <3>3. <<tick.f, branch[tick.f]>>' \in intg'.merged
      BY <2>1, <2>4, <2>7
    <3> QED BY <2>1, <2>2, <2>4, <2>7, <3>2, <3>3 DEF HandInv, InHand, Phase
  <2> QED BY <2>8, <2>9, <2>10
<1>2. ASSUME NEW f \in Foci, MergeConflict(f) PROVE IInv'
  <2>1. /\ cycle.phase = "integrating" /\ Phase(f) = "approved"
        /\ at' = "unmerged" /\ tick' = [Blank EXCEPT !.f = f]
        /\ UNCHANGED <<cycle, focus, floor, budget, branch, intg, base, killed, drain, crashes>>
    BY <1>2 DEF MergeConflict, BeginTick, InPhase
  <2>2. tick' \in Locals /\ tick'.f = f
    BY <2>1, BlankOK DEF Locals
  <2>3. TypeOK'
    BY <2>1, <2>2 DEF TypeOK, Steps
  <2>4. RepoInv'
    BY <2>1, RepoUntouched
  <2>5. HandInv'
    BY <2>1, <2>2 DEF HandInv, InHand, Phase, RepoInv
  <2> QED BY <2>3, <2>4, <2>5
<1>3. CASE RegatePass
  <2>1. /\ at = "regate" /\ intg' = [intg EXCEPT !.green = TRUE] /\ Continue("merged")
        /\ UNCHANGED <<cycle, focus, floor, budget, branch, base, killed, drain, crashes>>
    BY <1>3 DEF RegatePass
  <2>2. at' = "merged" /\ tick' = tick /\ tick' \in Locals
    BY <2>1, ContinueOK DEF Steps
  <2>3. /\ intg' \in Integrations
        /\ intg'.merged = intg.merged /\ intg'.cycle = intg.cycle /\ intg'.undone = intg.undone
    BY <2>1 DEF TypeOK, Integrations
  <2>4. TypeOK'
    BY <2>1, <2>2, <2>3 DEF TypeOK, Steps
  <2>5. RepoInv'
    BY <2>1, <2>3 DEF RepoInv, PhaseInv, Phase, Planned, NoContract, Holds
  <2>6. HandInv'
    BY <2>1, <2>2, <2>3 DEF HandInv, InHand, Phase
  <2> QED BY <2>4, <2>5, <2>6
<1>4. CASE RegateFail
  <2>1. /\ at = "regate" /\ intg' = ResetHead(tick.head)
        /\ at' = "unmerged" /\ tick' = [tick EXCEPT !.head = NoHead]
        /\ UNCHANGED <<cycle, focus, floor, budget, branch, base, killed, drain, crashes>>
    BY <1>4 DEF RegateFail
  <2>2. tick.head \in Heads /\ tick' \in Locals /\ tick'.f = tick.f
    BY <2>1, BlankOK DEF TypeOK, Locals, NoHead, Heads
  <2>3. (tick.head.green /\ tick.head.merged # intg.merged) \in BOOLEAN
    OBVIOUS
  <2>4. /\ intg' \in Integrations
        /\ intg'.merged = tick.head.merged /\ intg'.cycle = intg.cycle
        /\ intg'.undone = intg.undone
    BY <2>1, <2>2, <2>3 DEF TypeOK, ResetHead, Heads, Integrations
  <2>5. TypeOK'
    BY <2>1, <2>2, <2>4 DEF TypeOK, Steps
  <2>6. NoContract(tick.head.merged) /\ Holds(tick.head.merged)
    BY <2>1 DEF HandInv
  <2>7. RepoInv'
    BY <2>1, <2>4, <2>6 DEF RepoInv, PhaseInv, Phase, Planned, NoContract, Holds
  <2>8. HandInv'
    BY <2>1, <2>2, <2>4 DEF HandInv, InHand, Phase
  <2> QED BY <2>5, <2>7, <2>8
<1> QED BY <1>1, <1>2, <1>3, <1>4

LEMMA AfterMergeKeeps ==
  ASSUME IInv,
         \/ IntegrateComplete \/ WriteIntegrated \/ RemoveWorktree
         \/ Requeue \/ RequeueReopens \/ KillUnmergeable
  PROVE  IInv'
<1> USE DEF files, repo, switches
<1>1. CASE IntegrateComplete
  <2>1. /\ WriteCycle("releasing") /\ cycle.phase = "integrating"
        /\ at' = "idle" /\ tick' = tick
        /\ UNCHANGED <<focus, floor, budget, branch, intg, base, killed, drain, crashes>>
    BY <1>1 DEF IntegrateComplete, BeginTick
  <2>2. intg.cycle = cycle.n /\ tick' \in Locals
    BY <2>1 DEF IInv, RepoInv, TypeOK
  <2> QED BY <2>1, <2>2, CycleKeeps DEF CyclePhases
<1>2. CASE WriteIntegrated
  <2>1. /\ at = "merged" /\ WriteFocus(tick.f, "integrated") /\ Continue("cleanup")
        /\ UNCHANGED <<cycle, floor, budget, branch, intg, base, killed, drain, crashes>>
    BY <1>2 DEF WriteIntegrated
  <2>2. /\ at' = "cleanup" /\ tick' = tick /\ tick' \in Locals /\ tick.f \in Foci
        /\ Phase(tick.f) = "approved"
    BY <2>1, ContinueOK DEF IInv, Steps, HandInv, InHand
  <2>3. Wrote(tick.f, "integrated", focus[tick.f].last)
    BY <2>1, <2>2, SetPhase, PhaseNames DEF IInv
  <2>4. branch[tick.f] \in Work /\ <<tick.f, branch[tick.f]>> \in intg.merged
    BY <2>1, <2>2 DEF IInv, HandInv, RepoInv, PhaseInv
  <2>5. TypeOK'
    BY <2>1, <2>2, <2>3 DEF IInv, TypeOK, Steps, Wrote
  <2>6. RepoInv'
    BY <2>1, <2>2, <2>3, <2>4, RepoWrite, PhaseNames DEF IInv
  <2>7. HandInv'
    BY <2>1, <2>2, <2>3 DEF IInv, HandInv, InHand, Phase, Wrote
  <2> QED BY <2>5, <2>6, <2>7 DEF IInv
<1>3. CASE RemoveWorktree
  <2>1. /\ at = "cleanup" /\ branch' = [branch EXCEPT ![tick.f] = NoWork] /\ EndTick
        /\ UNCHANGED <<cycle, focus, floor, budget, intg, base, killed, drain, crashes>>
    BY <1>3 DEF RemoveWorktree
  <2>2. at' = "idle" /\ tick' \in Locals /\ tick.f \in Foci /\ Phase(tick.f) = "integrated"
    BY <2>1, LoopOK DEF IInv, HandInv, InHand, EndTick
  <2>3. /\ branch' \in [Foci -> Work \cup {NoWork}]
        /\ \A g \in Foci \ {tick.f} : branch'[g] = branch[g]
    BY <2>1 DEF IInv, TypeOK
  <2>4. TypeOK'
    BY <2>1, <2>2, <2>3 DEF IInv, TypeOK, Steps
  <2>5. RepoInv'
    BY <2>1, <2>2, <2>3 DEF IInv, RepoInv, PhaseInv, Phase, Planned, NoContract, Holds
  <2>6. HandInv'
    BY <2>2, NoneInHand
  <2> QED BY <2>4, <2>5, <2>6 DEF IInv
<1>4. CASE Requeue
  <2>1. /\ at = "unmerged" /\ focus[tick.f].attempts < MaxRetries /\ Continue("requeue")
        /\ focus' = [focus EXCEPT ![tick.f].attempts = @ + 1, ![tick.f].phase = "needs_work"]
        /\ UNCHANGED <<cycle, floor, budget, branch, intg, base, killed, drain, crashes>>
    BY <1>4 DEF Requeue
  <2>2. at' = "requeue" /\ tick' = tick /\ tick' \in Locals /\ tick.f \in Foci
    BY <2>1, ContinueOK DEF IInv, Steps, HandInv, InHand
  <2>3. Wrote(tick.f, "needs_work", focus[tick.f].last)
    <3> DEFINE s == [focus[tick.f] EXCEPT !.attempts = focus[tick.f].attempts + 1,
                                          !.phase = "needs_work"]
    <3>1. focus \in [Foci -> FocusStates]
      BY DEF IInv, TypeOK
    <3>2. focus' = [focus EXCEPT ![tick.f] = s]
      BY <2>1, <2>2, <3>1 DEF FocusStates
    <3>3. focus[tick.f].attempts + 1 \in 0..MaxRetries
      BY <2>1, <2>2, <3>1, OrchestratorAssumption DEF FocusStates, OrchestratorAssumption
    <3>4. /\ s \in FocusStates /\ s.cycle = focus[tick.f].cycle
          /\ s.phase = "needs_work" /\ s.last = focus[tick.f].last
      BY <2>2, <3>1, <3>3, PhaseNames DEF FocusStates
    <3> HIDE DEF s
    <3> QED BY <2>2, <3>1, <3>2, <3>4 DEF Wrote
  <2>4. TypeOK'
    BY <2>1, <2>2, <2>3 DEF IInv, TypeOK, Steps, Wrote
  <2>5. RepoInv'
    BY <2>1, <2>2, <2>3, RepoWrite, PhaseNames DEF IInv
  <2>6. HandInv'
    BY <2>1, <2>2, NoneInHand DEF IInv, HandInv
  <2> QED BY <2>4, <2>5, <2>6 DEF IInv
<1>5. CASE RequeueReopens
  <2>1. /\ WriteCycle("working") /\ at = "requeue" /\ EndTick
        /\ UNCHANGED <<focus, floor, budget, branch, intg, base, killed, drain, crashes>>
    BY <1>5 DEF RequeueReopens
  <2>2. intg.cycle = cycle.n /\ at' = "idle" /\ tick' \in Locals
    BY <2>1, LoopOK DEF IInv, HandInv, EndTick
  <2> QED BY <2>1, <2>2, CycleKeeps DEF CyclePhases
<1>6. CASE KillUnmergeable
  <2>1. Continue("quarantine") /\ Kill(tick.f) /\ at = "unmerged"
    BY <1>6 DEF KillUnmergeable
  <2>2. /\ at' = "quarantine" /\ tick' = tick /\ tick' \in Locals /\ tick.f \in Foci
        /\ intg.cycle = cycle.n
    BY <2>1, ContinueOK DEF IInv, Steps, HandInv, InHand
  <2> QED BY <2>1, <2>2, KillKeeps
<1> QED BY <1>1, <1>2, <1>3, <1>4, <1>5, <1>6

LEMMA ReleaseKeeps ==
  ASSUME IInv, ReleaseTick
  PROVE  IInv'
<1> USE DEF files, repo, switches
<1>1. ASSUME NEW p \in CyclePhases, WriteCycle(p), cycle.phase \in {"releasing", "done"},
             at' = "idle", tick' = tick,
             UNCHANGED <<focus, floor, budget, branch, intg, base, killed, drain, crashes>>
      PROVE  IInv'
  BY <1>1, CycleKeeps DEF IInv, RepoInv, TypeOK
<1>2. CASE ReleaseEmpty
  BY <1>1, <1>2 DEF ReleaseEmpty, BeginTick, CyclePhases
<1>3. CASE Halt
  BY <1>1, <1>3 DEF Halt, BeginTick, CyclePhases
\* The steps of a release move the integration branch's green light and stamp, and may
\* take a merge off it, which undone then has.
<1>4. ASSUME intg' \in Integrations,
             intg'.merged \subseteq intg.merged, intg'.cycle = intg.cycle, intg.cycle = cycle.n,
             intg.merged \cup intg.undone \subseteq intg'.merged \cup intg'.undone,
             base' \in Bases,
             at' \in {"stamped", "stamp_gate", "publish", "released"}, tick' \in Locals,
             UNCHANGED <<cycle, focus, floor, budget, branch, killed, drain, crashes>>
      PROVE  IInv'
  <2>1. TypeOK'
    BY <1>4 DEF IInv, TypeOK, Steps
  <2>2. RepoInv'
    BY <1>4 DEF IInv, RepoInv, PhaseInv, Phase, Planned, NoContract, Holds
  <2>3. HandInv'
    BY <1>4, NoneInHand
  <2> QED BY <2>1, <2>2, <2>3 DEF IInv
<1>5. CASE Stamp
  <2>1. /\ cycle.phase = "releasing" /\ at' \in {"stamped", "publish"}
        /\ intg' = intg \/ intg' = [intg EXCEPT !.stamp = "dirty"]
        /\ UNCHANGED <<cycle, focus, floor, budget, branch, base, killed, drain, tick, crashes>>
    BY <1>5 DEF Stamp, BeginTick
  <2> QED BY <2>1, <1>4 DEF IInv, RepoInv, TypeOK, Integrations
<1>6. CASE CommitStamp
  <2>1. /\ at = "stamped" /\ at' = "stamp_gate" /\ tick' = [tick EXCEPT !.head = Head]
        /\ intg' = intg \/ intg' = [intg EXCEPT !.stamp = "committed", !.green = FALSE]
        /\ UNCHANGED <<cycle, focus, floor, budget, branch, base, killed, drain, crashes>>
    BY <1>6 DEF CommitStamp
  <2>2. Head \in Heads
    BY DEF IInv, TypeOK, Head, Heads, Integrations
  <2>3. tick' \in Locals
    BY <2>1, <2>2 DEF IInv, TypeOK, Locals
  <2> QED BY <2>1, <2>3, <1>4 DEF IInv, TypeOK, HandInv, Integrations
<1>7. CASE StampGate
  <2>1. /\ at = "stamp_gate" /\ at' \in {"publish", "released"} /\ tick' = Blank
        /\ \/ \E green \in BOOLEAN : intg' = [intg EXCEPT !.green = green]
           \/ intg' = [intg EXCEPT !.green = tick.head.green, !.stamp = "none"]
           \/ \E last \in LastMerge :
                intg' = [intg EXCEPT !.merged = @ \ last, !.undone = @ \cup last,
                                     !.stamp = "none"]
        /\ UNCHANGED <<cycle, focus, floor, budget, branch, base, killed, drain, crashes>>
    <3>1. (intg.green \/ intg.stamp = "committed") \in BOOLEAN
      OBVIOUS
    <3> QED BY <1>7, <3>1 DEF StampGate, ResetOne
  <2>2. tick.head.green \in BOOLEAN
    BY DEF IInv, TypeOK, Locals, Heads
  <2>3. LastMerge \subseteq SUBSET intg.merged
    BY DEF LastMerge
  <2>4. /\ intg' \in Integrations /\ intg'.merged \subseteq intg.merged
        /\ intg'.cycle = intg.cycle
        /\ intg.merged \cup intg.undone \subseteq intg'.merged \cup intg'.undone
    <3>1. intg \in Integrations
      BY DEF IInv, TypeOK
    <3>2. ASSUME NEW last \in SUBSET intg.merged,
                 intg' = [intg EXCEPT !.merged = @ \ last, !.undone = @ \cup last,
                                      !.stamp = "none"]
          PROVE  /\ intg' \in Integrations /\ intg'.merged \subseteq intg.merged
                 /\ intg'.cycle = intg.cycle
                 /\ intg.merged \cup intg.undone \subseteq intg'.merged \cup intg'.undone
      BY <3>1, <3>2 DEF Integrations
    <3> QED BY <2>1, <2>2, <2>3, <3>1, <3>2 DEF Integrations
  <2> QED BY <2>1, <2>4, <1>4, BlankOK DEF IInv, TypeOK, HandInv
<1>8. CASE Publish
  <2>1. /\ at = "publish" /\ Continue("released")
        /\ UNCHANGED <<cycle, focus, floor, budget, branch, intg, killed, drain, crashes>>
    BY <1>8 DEF Publish
  <2>2. base' \in Bases
    <3>1. base \in Bases /\ cycle.n \in 1..MaxCycle
      BY DEF IInv, TypeOK
    <3>2. base' = base \/ \E ungated \in {base.ungated, base.ungated \cup {cycle.n}} :
            base' = [base EXCEPT !.cycles = @ \cup {cycle.n}, !.ungated = ungated]
      BY <1>8, <3>1 DEF Publish, Bases
    <3> QED BY <3>1, <3>2 DEF Bases
  <2>3. at' = "released" /\ tick' \in Locals
    BY <2>1, ContinueOK DEF IInv, Steps
  <2> QED BY <2>1, <2>2, <2>3, <1>4 DEF IInv, TypeOK, HandInv
<1>9. CASE ReleaseDone
  <2>1. /\ at = "released" /\ WriteCycle("done") /\ EndTick
        /\ UNCHANGED <<focus, floor, budget, branch, intg, base, killed, drain, crashes>>
    BY <1>9 DEF ReleaseDone
  <2>2. intg.cycle = cycle.n /\ at' = "idle" /\ tick' \in Locals
    BY <2>1, LoopOK DEF IInv, HandInv, EndTick
  <2> QED BY <2>1, <2>2, CycleKeeps DEF CyclePhases
<1>10. CASE StartNextCycle
  <2>1. /\ at = "idle" /\ cycle.n < MaxCycle /\ cycle' = [n |-> cycle.n + 1, phase |-> "planning"]
        /\ UNCHANGED <<focus, floor, budget, branch, intg, base, killed, drain, at, tick, crashes>>
    BY <1>10 DEF StartNextCycle, BeginTick
  <2>2. cycle.n \in 1..MaxCycle /\ MaxCycle \in Nat /\ \A f \in Foci : focus[f].cycle \in 0..MaxCycle
    BY OrchestratorAssumption DEF IInv, TypeOK, FocusStates, OrchestratorAssumption
  <2>3. TypeOK'
    BY <2>1, <2>2 DEF IInv, TypeOK, CyclePhases
  <2>4. \A f \in Foci : focus[f].cycle <= cycle'.n /\ focus[f].cycle # cycle'.n
    BY <2>1, <2>2 DEF IInv, RepoInv
  <2>5. RepoInv'
    BY <2>1, <2>4 DEF IInv, RepoInv, PhaseInv, Phase, Planned, NoContract, Holds
  <2>6. HandInv'
    BY <2>1, NoneInHand
  <2> QED BY <2>3, <2>5, <2>6 DEF IInv
<1> QED BY <1>2, <1>3, <1>5, <1>6, <1>7, <1>8, <1>9, <1>10 DEF ReleaseTick

\* A crash forgets the tick; the operator's switches and midnight touch no branch.
LEMMA RestKeeps ==
  ASSUME IInv, Crash \/ NewDay \/ FlipKill \/ FlipDrain \/ CommitToBase \/ UNCHANGED vars
  PROVE  IInv'
<1> USE DEF files, repo, switches
<1>1. CASE Crash
  <2>1. /\ at # "idle" /\ crashes < MaxCrashes /\ EndTick /\ crashes' = crashes + 1
        /\ UNCHANGED <<cycle, focus, floor, budget, branch, intg, base, killed, drain>>
    BY <1>1 DEF Crash
  <2>2. crashes' \in 0..MaxCrashes
    BY <2>1, OrchestratorAssumption DEF IInv, TypeOK, OrchestratorAssumption
  <2>3. at' \in {"idle", "work"} /\ tick' \in Locals /\ intg.cycle = cycle.n
    BY <2>1, LoopOK DEF IInv, HandInv
  <2> QED BY <2>1, <2>2, <2>3, MoveKeeps
<1>2. ASSUME UNCHANGED <<cycle, focus, floor, branch, intg, at, tick, crashes>>,
             base' \in Bases,
             budget' \in [cycle : 0..MaxCycle, today : Nat, spent : Nat],
             killed' \in BOOLEAN, drain' \in BOOLEAN
      PROVE  IInv'
  <2>1. TypeOK'
    BY <1>2 DEF IInv, TypeOK
  <2>2. RepoInv'
    BY <1>2, RepoUntouched DEF IInv
  <2>3. HandInv'
    BY <1>2 DEF IInv, HandInv, InHand, Phase, Holds, Planned, NoContract
  <2> QED BY <2>1, <2>2, <2>3 DEF IInv
<1>3. CASE NewDay
  <2>1. budget' \in [cycle : 0..MaxCycle, today : Nat, spent : Nat]
    BY <1>3 DEF NewDay, IInv, TypeOK
  <2> QED BY <1>2, <1>3, <2>1 DEF NewDay, IInv, TypeOK
<1>4. CASE FlipKill
  BY <1>2, <1>4 DEF FlipKill, IInv, TypeOK
<1>5. CASE FlipDrain
  BY <1>2, <1>5 DEF FlipDrain, IInv, TypeOK
<1>6. CASE CommitToBase
  <2>1. base' \in Bases
    BY <1>6 DEF CommitToBase, IInv, TypeOK, Bases
  <2> QED BY <1>2, <1>6, <2>1 DEF CommitToBase, IInv, TypeOK
<1>7. CASE UNCHANGED vars
  BY <1>2, <1>7 DEF vars, IInv, TypeOK
<1> QED BY <1>1, <1>3, <1>4, <1>5, <1>6, <1>7

LEMMA NextKeepsIInv ==
  ASSUME IInv, [Next]_vars
  PROVE  IInv'
<1>1. CASE PlanTick
  BY <1>1, PlanKeeps
<1>2. CASE WorkTick
  BY <1>2, LoopKeeps, BuildKeeps, TestKeeps, ReviewKeeps DEF WorkTick
<1>3. CASE IntegrateTick
  BY <1>3, LoopKeeps, MergeKeeps, AfterMergeKeeps DEF IntegrateTick
<1>4. CASE ReleaseTick
  BY <1>4, ReleaseKeeps
<1>5. CASE Crash \/ NewDay \/ FlipKill \/ FlipDrain \/ CommitToBase \/ UNCHANGED vars
  BY <1>5, RestKeeps
<1> QED BY <1>1, <1>2, <1>3, <1>4, <1>5 DEF Next, Daemon

\* Between any two steps, whatever crashed before, files and branches agree.
THEOREM RepositoryConsistent == Spec => []IInv
<1>1. Init => IInv
  BY InitIInv
<1>2. IInv /\ [Next]_vars => IInv'
  BY NextKeepsIInv
<1> QED BY <1>1, <1>2, PTL DEF Spec

-----------------------------------------------------------------------------
(* What follows from IInv *)

\* The types of the files, the branches and the tick's locals (cycle.py, state.py).
THEOREM TypeCorrect == Spec => []TypeOK
<1>1. IInv => TypeOK
  BY DEF IInv
<1> QED BY <1>1, RepositoryConsistent, PTL

\* The contract block of _review cannot be slipped past by a crash between the block
\* and the quarantine, nor by a builder that runs again after a review.  It stops what
\* contracts_touched sees, and an edit together with a rename is not seen.
THEOREM ContractsFrozen == Spec => []ContractNeverMerged
<1>1. IInv => ContractNeverMerged
  BY DEF IInv, RepoInv, NoContract, ContractNeverMerged
<1> QED BY <1>1, RepositoryConsistent, PTL

\* The verdict of _review and the merge of integrate are about the commit the
\* gate of _test ran on.
THEOREM ApprovalAfterGate == Spec => []ApprovedWorkWasGated
<1>1. IInv => ApprovedWorkWasGated
  BY DEF IInv, RepoInv, PhaseInv, InPhase, Phase, ApprovedWorkWasGated
<1> QED BY <1>1, RepositoryConsistent, PTL

\* git reset --hard head_before after a red gate takes back one merge, no other.  The
\* reset of a release may: with its commit refused, HEAD~1 is before the last merge,
\* and that one is then known by name (undone).
THEOREM MergesAreKept == Spec => []IntegratedNotLost
<1>1. IInv => IntegratedNotLost
  BY DEF IInv, RepoInv, Holds, InPhase, IntegratedNotLost
<1> QED BY <1>1, RepositoryConsistent, PTL

-----------------------------------------------------------------------------
(* The coverage floor *)

\* Only the gate's pass writes the floor, from a coverage of the run.
LEMMA FloorWrites ==
  ASSUME [Next]_vars
  PROVE  \/ floor' = floor
         \/ \E cov \in Covs : cov > GateFloor /\ floor' = Lower(cov, FloorCap)
<1> USE DEF files, repo, switches
<1>1. CASE PlanTick
  BY <1>1 DEF PlanTick, Plan, WritePlannedFocus, PlanDone
<1>2. CASE WorkTick
  <2>1. ASSUME NEW f \in Foci, NEW cov \in Covs, GatePass(f, cov)
        PROVE  floor' = floor \/ (cov > GateFloor /\ floor' = Lower(cov, FloorCap))
    BY <2>1 DEF GatePass
  <2>2. CASE \E f \in Foci, cov \in Covs : GatePass(f, cov)
    BY <2>1, <2>2
  <2>3. CASE \/ WorkComplete \/ RetryBuilds \/ BuildDone \/ WriteGreen \/ WriteVerdict
             \/ (\E f \in Foci : GateRaises(f))
             \/ Quarantine \/ EndWork
    BY <2>3 DEF WorkComplete, RetryBuilds, BuildDone, WriteGreen, WriteVerdict, Quarantine, EndWork,
                GateRaises
  <2>4. CASE \/ \E admitted \in SUBSET Foci : BeginWork(admitted)
             \/ \E w \in Work : BuilderRuns(w)
             \/ \E usd \in 0..PerAgent : BuilderPaid(usd)
             \/ \E f \in Foci, verdict \in Verdicts, usd \in 0..(VerifierPrompts * PerAgent) :
                  Verify(f, verdict, usd)
    BY <2>4 DEF BeginWork, BuilderRuns, BuilderPaid, Verify
  <2>5. CASE \E f \in Foci : SkipForBudget(f) \/ BeginBuild(f) \/ Retry(f) \/ KillStuck(f)
                             \/ GateFail(f) \/ ContractBlock(f) \/ Exhausted(f)
    BY <2>5 DEF SkipForBudget, BeginBuild, Retry, KillStuck, GateFail, ContractBlock, Exhausted, Kill
  <2> QED BY <1>2, <2>2, <2>3, <2>4, <2>5 DEF WorkTick
<1>3. CASE IntegrateTick
  BY <1>3 DEF IntegrateTick, IntegrateComplete, Merge, MergeConflict, RegateRaises, RegatePass, RegateFail,
              WriteIntegrated, RemoveWorktree, Requeue, RequeueReopens, KillUnmergeable, Kill
<1>4. CASE ReleaseTick
  BY <1>4 DEF ReleaseTick, ReleaseEmpty, Stamp, CommitStamp, StampGate, Publish, ReleaseDone,
              Halt, StartNextCycle
<1>5. CASE Crash \/ NewDay \/ FlipKill \/ FlipDrain \/ CommitToBase \/ UNCHANGED vars
  BY <1>5 DEF Crash, NewDay, FlipKill, FlipDrain, CommitToBase, vars
<1> QED BY <1>1, <1>2, <1>3, <1>4, <1>5 DEF Next, Daemon

FloorBelowCap == floor \in Nat /\ floor <= FloorCap

\* The ratchet of _test: passing gates raise the recorded floor and nothing
\* lowers it.  A configuration whose first floor is above its cap is excluded:
\* there the first pass writes the cap.
THEOREM FloorRatchets ==
  ASSUME CoverageFloor <= FloorCap
  PROVE  Spec => []FloorBelowCap /\ FloorOnlyRises
<1> USE OrchestratorAssumption DEF OrchestratorAssumption, FloorBelowCap
<1>1. Init => FloorBelowCap
  BY DEF Init
<1>2. FloorBelowCap /\ [Next]_vars => FloorBelowCap' /\ floor' >= floor
  <2> SUFFICES ASSUME FloorBelowCap, [Next]_vars PROVE FloorBelowCap' /\ floor' >= floor
    OBVIOUS
  <2>1. CASE floor' = floor
    BY <2>1
  <2>2. ASSUME NEW cov \in Covs, cov > GateFloor, floor' = Lower(cov, FloorCap)
        PROVE  FloorBelowCap' /\ floor' >= floor
    BY <2>2 DEF GateFloor, Lower
  <2> QED BY <2>1, <2>2, FloorWrites
<1>3. FloorBelowCap /\ [Next]_vars => [floor' >= floor]_vars
  BY <1>2
<1> QED BY <1>1, <1>2, <1>3, PTL DEF Spec, FloorOnlyRises

-----------------------------------------------------------------------------
(* The budget *)

\* The most one operation of a tick can spend, and the operations a tick that
\* may spend has still to pay for: those it has room for and the one in hand.
Price == VerifierPrompts * PerAgent
Unpaid == IF at \in {"retry", "build", "built"} THEN 1 ELSE 0
Owed == MaxConcurrent - tick.ops + Unpaid

BudgetInv ==
  /\ BudgetOvershootBounded
  /\ at \in {"retry", "build", "built"} => tick.ok
  /\ tick.ok => /\ tick.ops <= MaxConcurrent
                /\ budget.today + Owed * Price < PerDay + TickSpend
                /\ budget.spent + Owed * Price < PerCycle + TickSpend

LEMMA PriceOK == /\ Price \in Nat /\ TickSpend = MaxConcurrent * Price
                 /\ PerAgent <= Price /\ Price <= TickSpend
<1>1. Price \in Nat /\ PerAgent <= Price
  BY OrchestratorAssumption DEF Price, VerifierPrompts, OrchestratorAssumption
<1>2. TickSpend = MaxConcurrent * Price
  BY OrchestratorAssumption DEF Price, VerifierPrompts, TickSpend, OrchestratorAssumption
<1>3. \A n \in Nat \ {0}, p \in Nat : p <= n * p
  <2> SUFFICES ASSUME NEW n \in Nat \ {0}, NEW p \in Nat PROVE p <= n * p
    OBVIOUS
  <2>1. n * p = p + (n - 1) * p /\ n - 1 \in Nat
    OBVIOUS
  <2>2. \A i, j \in Nat : i * j >= 0
    OBVIOUS
  <2> QED BY <2>1, <2>2
<1> QED BY <1>1, <1>2, <1>3, OrchestratorAssumption DEF OrchestratorAssumption

\* Fewer turns cost less.
LEMMA TurnsCost ==
  ASSUME NEW m \in Nat, NEW n \in Nat, NEW p \in Nat, m <= n
  PROVE  m * p <= n * p /\ m * p \in Nat /\ n * p \in Nat
<1>1. n * p = m * p + (n - m) * p /\ n - m \in Nat
  OBVIOUS
<1>2. \A i, j \in Nat : i * j \in Nat
  OBVIOUS
<1>3. m * p \in Nat /\ n * p \in Nat /\ (n - m) * p \in Nat
  BY <1>1, <1>2
<1> QED BY <1>1, <1>3

\* A step that spends nothing and takes no more turns.
LEMMA NothingSpent ==
  ASSUME TypeOK, TypeOK', BudgetInv,
         budget'.today <= budget.today, budget'.spent <= budget.spent,
         at' \in {"retry", "build", "built"} => tick'.ok,
         tick'.ok => tick.ok /\ tick'.ops <= MaxConcurrent /\ Owed' <= Owed
  PROVE  BudgetInv'
<1> USE OrchestratorAssumption, PriceOK DEF OrchestratorAssumption
<1>1. /\ budget.today \in Nat /\ budget.spent \in Nat
      /\ budget'.today \in Nat /\ budget'.spent \in Nat /\ TickSpend \in Nat
  BY DEF TypeOK
<1>2. BudgetOvershootBounded'
  BY <1>1 DEF BudgetInv, BudgetOvershootBounded, TickSpend
<1>3. ASSUME tick'.ok
      PROVE  /\ budget'.today + Owed' * Price < PerDay + TickSpend
             /\ budget'.spent + Owed' * Price < PerCycle + TickSpend
  <2>1. tick.ops \in Nat /\ tick'.ops \in Nat
    BY DEF TypeOK, Locals
  <2>2. Owed \in Nat /\ Owed' \in Nat /\ Owed' <= Owed
    BY <1>3, <2>1 DEF Owed, Unpaid, BudgetInv
  <2>3. Owed' * Price <= Owed * Price /\ Owed * Price \in Nat /\ Owed' * Price \in Nat
    BY <2>2, TurnsCost
  <2> QED BY <1>1, <1>3, <2>3 DEF BudgetInv
<1> QED BY <1>2, <1>3 DEF BudgetInv, Price, TickSpend, VerifierPrompts

\* A step of a tick that may spend, which takes and pays for one turn.
LEMMA OneTurnSpent ==
  ASSUME TypeOK, TypeOK', BudgetInv, tick.ok, NEW usd \in Nat, usd <= Price,
         budget'.today <= budget.today + usd, budget'.spent <= budget.spent + usd,
         at' \notin {"retry", "build", "built"},
         tick'.ops <= MaxConcurrent, Owed' = Owed - 1
  PROVE  BudgetInv'
<1> USE OrchestratorAssumption, PriceOK DEF OrchestratorAssumption
<1>1. /\ budget.today \in Nat /\ budget.spent \in Nat
      /\ budget'.today \in Nat /\ budget'.spent \in Nat /\ TickSpend \in Nat
  BY DEF TypeOK
<1>2. tick.ops \in Nat /\ tick'.ops \in Nat
  BY DEF TypeOK, Locals
<1>3. Owed \in Nat /\ Owed' \in Nat
  BY <1>2 DEF Owed, Unpaid, BudgetInv
<1>4. Owed * Price = Owed' * Price + Price /\ Owed' * Price \in Nat
  <2>1. \A n, p \in Nat : (n + 1) * p = n * p + p /\ n * p \in Nat
    OBVIOUS
  <2> QED BY <1>3, <2>1
<1>5. /\ budget'.today + Owed' * Price < PerDay + TickSpend
      /\ budget'.spent + Owed' * Price < PerCycle + TickSpend
  BY <1>1, <1>4 DEF BudgetInv
<1> QED BY <1>1, <1>4, <1>5
        DEF BudgetInv, BudgetOvershootBounded, Price, TickSpend, VerifierPrompts

LEMMA InitBudget ==
  ASSUME Init, PerDay > 0, PerCycle > 0
  PROVE  BudgetInv
<1>1. tick.ok = FALSE /\ at = "idle" /\ budget.today = 0 /\ budget.spent = 0
  BY DEF Init, Blank
<1>2. TickSpend \in Nat
  BY PriceOK, OrchestratorAssumption DEF OrchestratorAssumption, TickSpend
<1> QED BY <1>1, <1>2, OrchestratorAssumption
        DEF BudgetInv, BudgetOvershootBounded, OrchestratorAssumption

\* Turning to the next focus: one operation more, for a focus in hand or not.
LEMMA TurnTaken ==
  ASSUME TypeOK, TypeOK', BudgetInv, NEW f \in Foci, Reached(f), UNCHANGED budget,
         \/ tick' = [tick EXCEPT !.todo = @ \ {f}, !.ops = @ + 1]
         \/ tick' = [tick EXCEPT !.todo = @ \ {f}, !.ops = @ + 1, !.f = f],
         at' \in {"retry", "build", "built"} => tick.ok
  PROVE  BudgetInv'
<1>1. tick'.ok = tick.ok /\ tick'.ops = tick.ops + 1 /\ tick.ops \in Nat
  BY DEF TypeOK, Locals
<1>2. tick.ops < MaxConcurrent /\ at = "work"
  BY DEF Reached
<1>3. tick'.ops <= MaxConcurrent /\ Owed' <= Owed
  BY <1>1, <1>2, OrchestratorAssumption DEF Owed, Unpaid, OrchestratorAssumption
<1>4. budget.today \in Nat /\ budget.spent \in Nat
  BY DEF TypeOK
<1> QED BY <1>1, <1>3, <1>4, NothingSpent

\* A step that is neither: it leaves the count of operations, or ends the tick.
LEMMA TurnKept ==
  ASSUME TypeOK, TypeOK', BudgetInv,
         budget'.today <= budget.today, budget'.spent <= budget.spent,
         tick'.ok => tick.ok /\ tick'.ops = tick.ops,
         at' \in {"retry", "build", "built"} => at \in {"retry", "build", "built"} /\ tick'.ok
  PROVE  BudgetInv'
<1>1. tick'.ok => Owed' <= Owed
  BY OrchestratorAssumption DEF Owed, Unpaid, TypeOK, Locals, OrchestratorAssumption
<1> QED BY <1>1, NothingSpent DEF BudgetInv

\* What each step spends: the planner once in a tick of its own, the builder and
\* the verifier once for each turn, everybody else nothing.
LEMMA PlanBudget ==
  ASSUME TypeOK, TypeOK', BudgetInv, PlanTick
  PROVE  BudgetInv'
<1> USE DEF files, repo, switches
<1>1. ASSUME NEW items \in SUBSET Foci, NEW usd \in 0..PerAgent, Plan(items, usd)
      PROVE  BudgetInv'
  <2>1. /\ BudgetOK /\ at' \in {"idle", "write_foci"} /\ tick'.ok = FALSE
        /\ budget'.today = budget.today + usd
        /\ budget'.spent = usd \/ budget'.spent = usd + budget.spent
    BY <1>1 DEF Plan, Spend, Blank
  <2>2. usd <= TickSpend /\ usd \in Nat /\ TickSpend \in Nat
    BY PriceOK, OrchestratorAssumption DEF OrchestratorAssumption
  <2>3. budget.today \in Nat /\ budget.spent \in Nat
    BY DEF TypeOK
  <2>4. BudgetOvershootBounded'
    BY <2>1, <2>2, <2>3, OrchestratorAssumption
    DEF BudgetOK, BudgetOvershootBounded, TickSpend, OrchestratorAssumption
  <2> QED BY <2>1, <2>4 DEF BudgetInv
<1>2. CASE (\E f \in Foci : WritePlannedFocus(f)) \/ PlanDone
  <2>1. /\ UNCHANGED budget /\ at' \in {"idle", "write_foci"}
        /\ tick' = Blank \/ \E f \in Foci : tick' = [tick EXCEPT !.todo = @ \ {f}] /\ at = "write_foci"
    BY <1>2 DEF WritePlannedFocus, PlanDone, EndTick
  <2>2. tick'.ok => tick.ok /\ tick'.ops = tick.ops
    BY <2>1 DEF TypeOK, Locals, Blank
  <2>3. budget.today \in Nat /\ budget.spent \in Nat
    BY DEF TypeOK
  <2> QED BY <2>1, <2>2, <2>3, TurnKept
<1> QED BY <1>1, <1>2 DEF PlanTick

LEMMA WorkBudget ==
  ASSUME TypeOK, TypeOK', BudgetInv, WorkTick
  PROVE  BudgetInv'
<1> USE DEF files, repo, switches
<1>0. budget.today \in Nat /\ budget.spent \in Nat /\ tick \in Locals /\ tick' \in Locals
  BY DEF TypeOK
<1>1. ASSUME NEW f \in Foci,
             \/ BeginBuild(f) \/ Retry(f) \/ KillStuck(f) \/ GateFail(f)
             \/ ContractBlock(f) \/ Exhausted(f) \/ \E cov \in Covs : GatePass(f, cov)
      PROVE  BudgetInv'
  <2>1. /\ Reached(f) /\ UNCHANGED budget
        /\ \/ tick' = [tick EXCEPT !.todo = @ \ {f}, !.ops = @ + 1]
           \/ tick' = [tick EXCEPT !.todo = @ \ {f}, !.ops = @ + 1, !.f = f]
        /\ tick.ok \/ at' \notin {"retry", "build", "built"}
    BY <1>1 DEF BeginBuild, Retry, KillStuck, GateFail, ContractBlock, Exhausted, GatePass,
                Handle, Kill
  <2> QED BY <2>1, TurnTaken
<1>2. ASSUME NEW f \in Foci, NEW verdict \in Verdicts,
             NEW usd \in 0..(VerifierPrompts * PerAgent), Verify(f, verdict, usd)
      PROVE  BudgetInv'
  <2>1. /\ tick.ok /\ at = "work" /\ tick.ops < MaxConcurrent
        /\ Spend(usd) /\ at' = verdict
        /\ tick' = [tick EXCEPT !.todo = @ \ {f}, !.ops = @ + 1, !.f = f]
    BY <1>2 DEF Verify, Reached, Handle
  <2>2. usd \in Nat /\ usd <= Price
    BY PriceOK DEF Price
  <2>3. budget'.today <= budget.today + usd /\ budget'.spent <= budget.spent + usd
    BY <1>0, <2>1, <2>2 DEF Spend
  <2>4. tick'.ops = tick.ops + 1 /\ tick.ops \in Nat
    BY <1>0, <2>1 DEF Locals
  <2>5. /\ at' \notin {"retry", "build", "built"} /\ tick'.ops <= MaxConcurrent
        /\ Owed' = Owed - 1
    BY <2>1, <2>4, OrchestratorAssumption DEF Owed, Unpaid, Verdicts, OrchestratorAssumption
  <2> QED BY <2>1, <2>2, <2>3, <2>5, OneTurnSpent
<1>3. ASSUME NEW usd \in 0..PerAgent, BuilderPaid(usd) PROVE BudgetInv'
  <2>1. at = "built" /\ at' = "spent" /\ Spend(usd) /\ tick' = tick /\ tick.ok
    BY <1>3 DEF BuilderPaid, Continue, BudgetInv
  <2>2. usd \in Nat /\ usd <= Price
    BY PriceOK, OrchestratorAssumption DEF OrchestratorAssumption
  <2>3. budget'.today <= budget.today + usd /\ budget'.spent <= budget.spent + usd
    BY <1>0, <2>1, <2>2 DEF Spend
  <2>4. tick'.ops <= MaxConcurrent /\ Owed' = Owed - 1
    BY <1>0, <2>1, OrchestratorAssumption
    DEF Owed, Unpaid, Locals, BudgetInv, OrchestratorAssumption
  <2> QED BY <2>1, <2>2, <2>3, <2>4, OneTurnSpent
<1>4. ASSUME NEW admitted \in SUBSET Foci, BeginWork(admitted) PROVE BudgetInv'
  <2>1. /\ UNCHANGED budget /\ at' = "work"
        /\ tick' = [Blank EXCEPT !.todo = InPhase(Started) \cup admitted, !.ok = BudgetOK]
    BY <1>4 DEF BeginWork
  <2>2. tick'.ok = BudgetOK /\ tick'.ops = 0
    BY <2>1 DEF Blank
  <2>3. Owed' = MaxConcurrent
    BY <2>1, <2>2, OrchestratorAssumption DEF Owed, Unpaid, OrchestratorAssumption
  <2>4. TickSpend = Owed' * Price /\ TickSpend \in Nat
    BY <2>3, PriceOK, OrchestratorAssumption DEF OrchestratorAssumption
  <2>5. BudgetOK => /\ budget.today + Owed' * Price < PerDay + TickSpend
                    /\ budget.spent + Owed' * Price < PerCycle + TickSpend
    BY <1>0, <2>4, OrchestratorAssumption DEF BudgetOK, OrchestratorAssumption
  <2>6. BudgetOvershootBounded'
    BY <2>1 DEF BudgetInv, BudgetOvershootBounded, TickSpend
  <2>7. tick'.ops <= MaxConcurrent
    BY <2>2, OrchestratorAssumption DEF OrchestratorAssumption
  <2> QED BY <2>1, <2>2, <2>5, <2>6, <2>7 DEF BudgetInv, Price, TickSpend, VerifierPrompts
<1>5. ASSUME NEW f \in Foci, SkipForBudget(f) PROVE BudgetInv'
  <2>1. UNCHANGED budget /\ UNCHANGED at /\ tick' = [tick EXCEPT !.todo = @ \ {f}] /\ at = "work"
    BY <1>5 DEF SkipForBudget, Reached
  <2>2. tick'.ok = tick.ok /\ tick'.ops = tick.ops
    BY <1>0, <2>1 DEF Locals
  <2> QED BY <1>0, <2>1, <2>2, TurnKept
<1>6. CASE \/ WorkComplete \/ RetryBuilds \/ (\E w \in Work : BuilderRuns(w)) \/ BuildDone
           \/ WriteGreen \/ WriteVerdict \/ Quarantine \/ EndWork
           \/ (\E f \in Foci : GateRaises(f))
  <2>1. /\ UNCHANGED budget
        /\ tick' \in {tick, Blank, [tick EXCEPT !.f = NoFocus]}
        /\ at' \in {"retry", "build", "built"} =>
             tick' = tick /\ at \in {"retry", "build", "built"} 
    BY <1>6 DEF WorkComplete, RetryBuilds, BuilderRuns, BuildDone, WriteGreen, WriteVerdict,
                Quarantine, EndWork, GateRaises, Continue, BackToLoop, EndTick, BeginTick
  <2>2. tick'.ok => tick.ok /\ tick'.ops = tick.ops
    BY <1>0, <2>1 DEF Locals, Blank
  <2>3. at' \in {"retry", "build", "built"} => at \in {"retry", "build", "built"} /\ tick'.ok
    BY <2>1 DEF BudgetInv
  <2> QED BY <1>0, <2>1, <2>2, <2>3, TurnKept
<1> QED BY <1>1, <1>2, <1>3, <1>4, <1>5, <1>6 DEF WorkTick

LEMMA OtherBudget ==
  ASSUME TypeOK, TypeOK', BudgetInv,
         IntegrateTick \/ ReleaseTick \/ Crash \/ NewDay \/ FlipKill \/ FlipDrain \/ CommitToBase \/ UNCHANGED vars
  PROVE  BudgetInv'
<1> USE DEF files, repo, switches
<1>0. budget.today \in Nat /\ budget.spent \in Nat /\ tick \in Locals
  BY DEF TypeOK
<1>1. CASE IntegrateTick
  <2>1. /\ UNCHANGED budget /\ at' \notin {"retry", "build", "built"}
        /\ tick' \in {tick, Blank, [tick EXCEPT !.head = NoHead]} \/ tick'.ok = FALSE
    BY <1>1 DEF IntegrateTick, IntegrateComplete, Merge, MergeConflict, RegateRaises, RegatePass, RegateFail,
                WriteIntegrated, RemoveWorktree, Requeue, RequeueReopens, KillUnmergeable, Kill,
                Continue, EndTick, BeginTick, Blank
  <2>2. tick'.ok => tick.ok /\ tick'.ops = tick.ops
    BY <1>0, <2>1 DEF Locals, Blank
  <2> QED BY <1>0, <2>1, <2>2, TurnKept
<1>2. CASE ReleaseTick
  <2>1. /\ UNCHANGED budget /\ at' \notin {"retry", "build", "built"}
        /\ tick' \in {tick, Blank, [tick EXCEPT !.head = Head]}
    BY <1>2 DEF ReleaseTick, ReleaseEmpty, Stamp, CommitStamp, StampGate, Publish, ReleaseDone,
                Halt, StartNextCycle, Continue, EndTick, BeginTick
  <2>2. tick'.ok => tick.ok /\ tick'.ops = tick.ops
    BY <1>0, <2>1 DEF Locals, Blank
  <2> QED BY <1>0, <2>1, <2>2, TurnKept
<1>3. CASE Crash
  BY <1>0, <1>3, TurnKept DEF Crash, EndTick, Blank
<1>4. CASE NewDay
  <2>1. budget'.today = 0 /\ budget'.spent = budget.spent /\ UNCHANGED <<at, tick>>
    BY <1>4 DEF NewDay, TypeOK
  <2> QED BY <1>0, <2>1, TurnKept DEF BudgetInv
<1>5. CASE FlipKill \/ FlipDrain \/ CommitToBase \/ UNCHANGED vars
  <2>1. UNCHANGED <<budget, at, tick>>
    BY <1>5 DEF FlipKill, FlipDrain, CommitToBase, vars
  <2> QED BY <1>0, <2>1, TurnKept DEF BudgetInv
<1> QED BY <1>1, <1>2, <1>3, <1>4, <1>5

\* The caps are read once a tick, and may be passed by at most one price for each
\* of the max_concurrent operations: write_budget after every call, the check in
\* _work before the loop, the cap on the loop.  A cap of zero is excluded: with
\* agents that cost nothing it would have to be passed at once.
THEOREM OvershootBounded ==
  ASSUME PerDay > 0, PerCycle > 0
  PROVE  Spec => []BudgetOvershootBounded
<1>1. Init => BudgetInv
  BY InitBudget
<1>2. TypeOK /\ TypeOK' /\ BudgetInv /\ [Next]_vars => BudgetInv'
  <2> SUFFICES ASSUME TypeOK, TypeOK', BudgetInv, [Next]_vars PROVE BudgetInv'
    OBVIOUS
  <2> QED BY PlanBudget, WorkBudget, OtherBudget DEF Next, Daemon
<1>3. BudgetInv => BudgetOvershootBounded
  BY DEF BudgetInv
<1> QED BY <1>1, <1>2, <1>3, TypeCorrect, PTL DEF Spec

-----------------------------------------------------------------------------
(* A daemon that was never interrupted                                      *)
(*                                                                          *)
(* After a crash the next tick finds files that belong to a place it no     *)
(* longer knows.  Until then every place of a tick belongs to one phase of  *)
(* the cycle, which is what Calm adds to IInv.                              *)

Building == {"work", "build", "retry", "built", "spent", "green", "approve", "rework", "reject"}
Merging == {"regate", "merged", "cleanup", "unmerged", "requeue"}
Releasing == {"stamped", "stamp_gate", "publish", "released"}

Places ==
  /\ at = "write_foci" => cycle.phase = "planning"
  /\ at \in Building => cycle.phase = "working"
  /\ at = "quarantine" => cycle.phase \in {"working", "integrating"}
  /\ at \in Merging => cycle.phase = "integrating"
  /\ at \in Releasing => cycle.phase = "releasing"

\* The foci in flight, and those this tick has admitted and not reached yet.
Claimed ==
  InPhase(Started) \cup IF at = "idle" THEN {} ELSE tick.todo \cap InPhase({"ready"})

\* Once the work is over no focus is open, but the one a failed merge sends back.
Flight ==
  /\ cycle.phase = "planning" =>
       \A f \in Foci : Planned(f) => at = "write_foci" /\ Phase(f) = "ready"
  /\ cycle.phase = "working" => Cardinality(Claimed) <= MaxConcurrent
  /\ cycle.phase \notin {"planning", "working"} =>
       \A f \in InPhase(ActivePhases) : at = "requeue" /\ f = tick.f

\* What is in integration is integrated, but for the merge in hand: so the HEAD a
\* red gate goes back to is the one the gate passed on before that merge.
MergesAreDone ==
  /\ cycle.phase = "planning" /\ intg.cycle = cycle.n => intg.merged = {}
  /\ cycle.phase # "planning" =>
       \A f \in Foci, w \in Work : <<f, w>> \in intg.merged =>
          \/ Phase(f) = "integrated"
          \/ at \in {"regate", "merged"} /\ f = tick.f /\ w = branch[f]

GreenInv ==
  /\ \/ intg.green \/ at = "regate"
     \/ at = "stamp_gate" /\ intg.stamp = "committed"
  /\ at = "regate" => /\ tick.head.green
                      /\ tick.head.merged = intg.merged \ {<<tick.f, branch[tick.f]>>}
  /\ at = "stamp_gate" => tick.head.green

Sound == MergesAreDone /\ GreenInv

\* A merged tree that does not import keeps the merge of some approved focus for good:
\* no gate answers, so nothing takes it back, and that focus is never done with.
BlockInv ==
  ~Imports(MergedWorks) =>
    /\ cycle.phase \in {"working", "integrating"} /\ at # "merged"
    /\ at = "unmerged" => ~IsMerged(tick.f)
    /\ \E f \in InPhase({"approved"}) : IsMerged(f)

Calm ==
  /\ Places /\ Flight /\ BlockInv
  /\ Imports(MergedWorks) => Sound
  /\ OnlyGreenReachesBase

\* With fewer works in it a tree that imports still does.
LEMMA ImportsFewer ==
  ASSUME Imports(MergedWorks), intg'.merged \subseteq intg.merged
  PROVE  Imports(MergedWorks)'
BY DEF Imports, MergedWorks

\* A step that leaves the branches of the release alone, and the branch and status of
\* the approved foci but the one in hand.
LEMMA BlockKept ==
  ASSUME BlockInv, UNCHANGED intg, cycle'.n = cycle.n,
         ~Imports(MergedWorks) =>
           /\ cycle'.phase \in {"working", "integrating"} /\ at' # "merged"
           /\ at' = "unmerged" => ~IsMerged(tick.f)' 
           /\ \A g \in InPhase({"approved"}) : IsMerged(g) =>
                focus'[g].cycle = focus[g].cycle /\ focus'[g].phase = "approved"
                /\ branch'[g] = branch[g]
  PROVE  BlockInv'
BY DEF BlockInv, Imports, MergedWorks, InPhase, Planned, Phase, IsMerged

\* Admitting foci up to the room that is left does not exceed it.
LEMMA RoomKept ==
  ASSUME NEW S, NEW T, IsFiniteSet(S), IsFiniteSet(T), NEW room \in Nat,
         Cardinality(S) <= room,
         \/ T = {}
         \/ Cardinality(T) <= room - Cardinality(S)
  PROVE  Cardinality(S \cup T) <= room
<1>1. CASE T = {}
  BY <1>1
<1>2. CASE Cardinality(T) <= room - Cardinality(S)
  <2>1. /\ Cardinality(S \cup T) = Cardinality(S) + Cardinality(T) - Cardinality(S \cap T)
        /\ Cardinality(S) \in Nat /\ Cardinality(T) \in Nat
    BY FS_Union, FS_CardinalityType
  <2>2. Cardinality(S \cap T) \in Nat
    BY FS_Intersection, FS_CardinalityType
  <2> QED BY <1>2, <2>1, <2>2
<1> QED BY <1>1, <1>2

\* A focus written in a working tick was claimed by it, and never an integrated one.
Reworked(g) ==
  /\ focus'[g].cycle = focus[g].cycle
  /\ \/ focus'[g].phase = focus[g].phase
     \/ /\ Phase(g) \notin {"integrated", "approved"} /\ focus'[g].phase # "ready"
        /\ focus'[g].phase \in Started => ~Planned(g) \/ g \in Claimed
  /\ branch'[g] = branch[g] \/ Phase(g) # "approved"

LEMMA WorkCalm ==
  ASSUME IInv, Calm, cycle.phase = "working", UNCHANGED <<cycle, intg, base>>,
         \A g \in Foci : Reworked(g),
         at' \in Building \cup {"quarantine", "idle"},
         at' = "idle" \/ (at # "idle" /\ tick'.todo \subseteq tick.todo)
  PROVE  Calm'
<1>1. Places'
  BY DEF Places, Building, Merging, Releasing
<1>2. Claimed' \subseteq Claimed
  <2> SUFFICES ASSUME NEW g \in Claimed' PROVE g \in Claimed
    OBVIOUS
  <2>1. g \in Foci /\ Planned(g) /\ Reworked(g)
    BY DEF Claimed, InPhase, Planned, Reworked
  <2>2. CASE g \in InPhase(Started)'
    BY <2>1, <2>2 DEF Claimed, InPhase, Phase, Reworked, Started
  <2>3. CASE at' # "idle" /\ g \in tick'.todo /\ g \in InPhase({"ready"})'
    <3>1. focus'[g].phase = "ready" /\ g \in tick.todo /\ at # "idle"
      BY <2>3 DEF InPhase, Phase
    <3> QED BY <2>1, <3>1 DEF Claimed, InPhase, Phase, Reworked
  <2> QED BY <2>2, <2>3 DEF Claimed
<1>3. Flight'
  <2>1. IsFiniteSet(Claimed)
    <3>1. Claimed \subseteq Foci
      BY DEF Claimed, InPhase
    <3> QED BY <3>1, FS_Subset, OrchestratorAssumption DEF OrchestratorAssumption
  <2>2. Cardinality(Claimed') <= Cardinality(Claimed) /\ Cardinality(Claimed) \in Nat
        /\ Cardinality(Claimed') \in Nat
    BY <1>2, <2>1, FS_Subset, FS_CardinalityType
  <2>3. Cardinality(Claimed) <= MaxConcurrent
    BY DEF Calm, Flight
  <2>4. Cardinality(Claimed') <= MaxConcurrent
    BY <2>2, <2>3, OrchestratorAssumption DEF OrchestratorAssumption
  <2> QED BY <2>4 DEF Flight
<1>4. BlockInv'
  BY BlockKept DEF Calm, Building, Reworked, InPhase, Phase
<1>5. Imports(MergedWorks)' => Sound'
  <2> SUFFICES ASSUME Sound PROVE Sound'
    BY DEF Calm, Imports, MergedWorks
  <2>1. MergesAreDone'
    <3> SUFFICES ASSUME NEW f \in Foci, NEW w \in Work, <<f, w>> \in intg.merged
                 PROVE  Phase(f)'  = "integrated"
      BY DEF MergesAreDone
    <3>1. at \notin {"regate", "merged"}
      BY DEF Calm, Places, Merging
    <3>2. Phase(f) = "integrated"
      BY <3>1 DEF Sound, MergesAreDone
    <3> QED BY <3>2 DEF Reworked, Phase
  <2>2. GreenInv'
    <3>1. intg.green
      BY DEF Sound, GreenInv, Calm, Places, Merging, Releasing
    <3>2. at' \notin {"regate", "stamp_gate"}
      BY DEF Building
    <3> QED BY <3>1, <3>2 DEF GreenInv
  <2> QED BY <2>1, <2>2 DEF Sound
<1>6. OnlyGreenReachesBase'
  BY DEF Calm, OnlyGreenReachesBase
<1> QED BY <1>1, <1>3, <1>4, <1>5, <1>6 DEF Calm

\* The operations of the loop: a focus of tick.todo is taken off it, and its phase
\* written or left.
LEMMA TurnCalm ==
  ASSUME IInv, Calm,
         \E f \in Foci :
           \/ SkipForBudget(f) \/ BeginBuild(f) \/ Retry(f) \/ KillStuck(f) \/ GateFail(f)
           \/ ContractBlock(f) \/ Exhausted(f)
           \/ (\E cov \in Covs : GatePass(f, cov))
           \/ \E verdict \in Verdicts, usd \in 0..(VerifierPrompts * PerAgent) :
                Verify(f, verdict, usd)
  PROVE  Calm'
<1> USE DEF files, repo, switches
<1>0. focus \in [Foci -> FocusStates] /\ tick \in Locals
  BY DEF IInv, TypeOK
<1>1. PICK f \in Foci :
           \/ SkipForBudget(f) \/ BeginBuild(f) \/ Retry(f) \/ KillStuck(f) \/ GateFail(f)
           \/ ContractBlock(f) \/ Exhausted(f)
           \/ (\E cov \in Covs : GatePass(f, cov))
           \/ \E verdict \in Verdicts, usd \in 0..(VerifierPrompts * PerAgent) :
                Verify(f, verdict, usd)
  OBVIOUS
<1>2. Reached(f) /\ UNCHANGED <<cycle, branch, intg, base>>
  BY <1>1 DEF SkipForBudget, BeginBuild, Retry, KillStuck, GateFail, ContractBlock, Exhausted,
              GatePass, Verify, Kill
<1>3. at = "work" /\ f \in tick.todo /\ cycle.phase = "working"
  BY <1>2 DEF Reached, Calm, Places, Building
<1>4. tick'.todo \subseteq tick.todo
  <2>1. \/ tick' = [tick EXCEPT !.todo = @ \ {f}]
        \/ tick' = [tick EXCEPT !.todo = @ \ {f}, !.ops = @ + 1]
        \/ tick' = [tick EXCEPT !.todo = @ \ {f}, !.ops = @ + 1, !.f = f]
    BY <1>1 DEF SkipForBudget, BeginBuild, Retry, KillStuck, GateFail, ContractBlock, Exhausted,
                GatePass, Verify, Handle
  <2> QED BY <1>0, <2>1 DEF Locals
<1>5. at' \in Building \cup {"quarantine", "idle"}
  BY <1>1, <1>3 DEF SkipForBudget, BeginBuild, Retry, KillStuck, GateFail, ContractBlock,
              Exhausted, GatePass, Verify, Handle, Building, Verdicts
<1>6. \/ focus' = focus
      \/ /\ Phase(f) \in {"ready", "building"}
         /\ focus' = [focus EXCEPT ![f].phase = "building"]
      \/ focus' = [focus EXCEPT ![f].attempts = @ + 1]
      \/ /\ Phase(f) \in {"testing", "reviewing", "needs_work"}
         /\ focus' = [focus EXCEPT ![f].phase = "dead"]
      \/ /\ Phase(f) = "testing"
         /\ focus' = [focus EXCEPT ![f].phase = "needs_work", ![f].last = DiffHash(f)]
  BY <1>1 DEF SkipForBudget, BeginBuild, Retry, KillStuck, GateFail, ContractBlock, Exhausted,
              GatePass, Verify, Kill, WriteFocus
<1>7. \A g \in Foci : Reworked(g)
  <2>1. ASSUME NEW g \in Foci, g # f PROVE Reworked(g)
    BY <1>0, <1>2, <1>6, <2>1 DEF Reworked, FocusStates
  <2>2. CASE UNCHANGED focus \/ focus' = [focus EXCEPT ![f].attempts = @ + 1]
    BY <1>0, <1>2, <2>2 DEF Reworked, FocusStates
  <2>3. ASSUME Phase(f) \in {"ready", "building"},
               focus' = [focus EXCEPT ![f].phase = "building"]
        PROVE  Reworked(f)
    <3>1. focus'[f].cycle = focus[f].cycle /\ focus'[f].phase = "building"
      BY <1>0, <2>3 DEF FocusStates
    <3>2. Planned(f) => f \in Claimed
      BY <1>3, <2>3 DEF Claimed, InPhase, Started
    <3> QED BY <1>2, <2>3, <3>1, <3>2 DEF Reworked
  <2>4. ASSUME Phase(f) \in {"testing", "reviewing", "needs_work"},
               focus' = [focus EXCEPT ![f].phase = "dead"]
        PROVE  Reworked(f)
    <3>1. focus'[f].cycle = focus[f].cycle /\ focus'[f].phase = "dead"
      BY <1>0, <2>4 DEF FocusStates
    <3> QED BY <1>2, <2>4, <3>1 DEF Reworked, Started
  <2>5. ASSUME Phase(f) = "testing",
               focus' = [focus EXCEPT ![f].phase = "needs_work", ![f].last = DiffHash(f)]
        PROVE  Reworked(f)
    <3>1. focus'[f].cycle = focus[f].cycle /\ focus'[f].phase = "needs_work"
      BY <1>0, <2>5 DEF FocusStates
    <3>2. Planned(f) => f \in Claimed
      BY <2>5 DEF Claimed, InPhase, Started
    <3> QED BY <1>2, <2>5, <3>1, <3>2 DEF Reworked
  <2> QED BY <1>6, <2>1, <2>2, <2>3, <2>4, <2>5
<1> QED BY <1>2, <1>3, <1>4, <1>5, <1>7, WorkCalm

\* The rest of an operation: the phase of the focus in hand is written or left.
LEMMA HandCalm ==
  ASSUME IInv, Calm, cycle.phase = "working",
         \/ RetryBuilds \/ (\E w \in Work : BuilderRuns(w))
         \/ (\E usd \in 0..PerAgent : BuilderPaid(usd))
         \/ BuildDone \/ WriteGreen \/ WriteVerdict \/ Quarantine \/ EndWork
         \/ \E f \in Foci : GateRaises(f)
  PROVE  Calm'
<1> USE DEF files, repo, switches
<1>0. focus \in [Foci -> FocusStates] /\ tick \in Locals
  BY DEF IInv, TypeOK
<1>1. /\ at # "idle" /\ UNCHANGED <<cycle, intg, base>>
      /\ at' \in Building \cup {"quarantine", "idle"}
      /\ at' = "idle" \/ tick' = tick \/ tick' = [tick EXCEPT !.f = NoFocus]
  BY DEF RetryBuilds, BuilderRuns, BuilderPaid, BuildDone, WriteGreen, WriteVerdict, Quarantine,
         EndWork, GateRaises, Reached, Continue, BackToLoop, EndTick, Building
<1>2. at' = "idle" \/ tick'.todo \subseteq tick.todo
  BY <1>0, <1>1 DEF Locals
<1>3. \/ focus' = focus
      \/ /\ at = "retry" /\ focus' = [focus EXCEPT ![tick.f].phase = "building"]
      \/ /\ at = "spent" /\ focus' = [focus EXCEPT ![tick.f].phase = "testing"]
      \/ /\ at = "green" /\ focus' = [focus EXCEPT ![tick.f].phase = "reviewing",
                                                   ![tick.f].last = DiffHash(tick.f)]
      \/ /\ at \in {"approve", "rework", "reject"}
         /\ \E p \in {"approved", "needs_work", "dead"} :
              focus' = [focus EXCEPT ![tick.f].phase = p]
  BY DEF RetryBuilds, BuilderRuns, BuilderPaid, BuildDone, WriteGreen, WriteVerdict, Quarantine,
         EndWork, GateRaises, WriteFocus
<1>9. \A g \in Foci : branch'[g] = branch[g] \/ Phase(g) # "approved"
  <2>1. branch' = branch \/ /\ at \in {"build", "quarantine"}
                            /\ \E w : branch' = [branch EXCEPT ![tick.f] = w]
    <3>1. CASE Quarantine
      BY <3>1 DEF Quarantine
    <3>2. CASE \E w \in Work : BuilderRuns(w)
      BY <3>2 DEF BuilderRuns
    <3>3. ASSUME \/ RetryBuilds \/ BuildDone \/ WriteGreen \/ WriteVerdict \/ EndWork
                 \/ (\E usd \in 0..PerAgent : BuilderPaid(usd))
                 \/ \E f \in Foci : GateRaises(f)
          PROVE  branch' = branch
      BY <3>3 DEF RetryBuilds, BuildDone, WriteGreen, WriteVerdict, EndWork, BuilderPaid,
                  GateRaises
    <3> QED BY <3>1, <3>2, <3>3
  <2>2. at \in {"build", "quarantine"} => Phase(tick.f) \in {"building", "dead"}
    BY DEF IInv, HandInv, InHand
  <2> QED BY <1>0, <2>1, <2>2 DEF IInv, TypeOK
<1>4. \A g \in Foci : Reworked(g)
  <2>1. CASE focus' = focus
    BY <1>0, <1>9, <2>1 DEF Reworked
  <2>2. ASSUME NEW f \in Foci, f = tick.f, Phase(f) \in Started,
               NEW p \in Started \cup {"approved", "dead"}, NEW d,
               \/ focus' = [focus EXCEPT ![f].phase = p]
               \/ focus' = [focus EXCEPT ![f].phase = p, ![f].last = d]
        PROVE  \A g \in Foci : Reworked(g)
    <3>1. ASSUME NEW g \in Foci
          PROVE  /\ focus'[g].cycle = focus[g].cycle
                 /\ focus'[g].phase = IF g = f THEN p ELSE focus[g].phase
      BY <1>0, <2>2 DEF FocusStates
    <3>2. Planned(f) => f \in Claimed
      BY <2>2 DEF Claimed, InPhase
    <3>3. Phase(f) \notin {"integrated", "approved"} /\ p # "ready"
      BY <2>2 DEF Started
    <3>4. Reworked(f)
      BY <1>9, <3>1, <3>2, <3>3 DEF Reworked
    <3>5. \A g \in Foci : g # f => Reworked(g)
      BY <1>9, <3>1 DEF Reworked
    <3> QED BY <3>4, <3>5
  <2>3. CASE focus' # focus
    <3>1. tick.f \in Foci /\ Phase(tick.f) \in {"needs_work", "building", "testing", "reviewing"}
      BY <1>3, <2>3 DEF IInv, HandInv, InHand
    <3> QED BY <1>3, <2>2, <2>3, <3>1 DEF Started
  <2> QED BY <2>1, <2>3
<1> QED BY <1>1, <1>2, <1>4, WorkCalm

\* A tick admits ready foci up to the room that the started ones leave.
LEMMA BeginWorkCalm ==
  ASSUME IInv, Calm, NEW admitted \in SUBSET Foci, BeginWork(admitted)
  PROVE  Calm'
<1> USE DEF files, repo, switches
<1>1. /\ at = "idle" /\ cycle.phase = "working" /\ admitted \subseteq InPhase({"ready"})
      /\ at' = "work" /\ tick' = [Blank EXCEPT !.todo = InPhase(Started) \cup admitted,
                                               !.ok = BudgetOK]
      /\ UNCHANGED <<cycle, focus, branch, intg, base>>
  BY DEF BeginWork, BeginTick
<1>2. tick'.todo = InPhase(Started) \cup admitted
  BY <1>1 DEF Blank
<1>3. Claimed = InPhase(Started) /\ Claimed' = InPhase(Started) \cup admitted
  <2>1. InPhase(Started)' = InPhase(Started) /\ InPhase({"ready"})' = InPhase({"ready"})
    BY <1>1 DEF InPhase, Planned, Phase
  <2>2. InPhase(Started) \cap InPhase({"ready"}) = {}
    BY DEF InPhase, Started
  <2> QED BY <1>1, <1>2, <2>1, <2>2 DEF Claimed
<1>4. Cardinality(Claimed') <= MaxConcurrent
  <2>1. IsFiniteSet(InPhase(Started)) /\ IsFiniteSet(admitted) /\ IsFiniteSet(InPhase({"ready"}))
    <3>1. InPhase(Started) \subseteq Foci /\ InPhase({"ready"}) \subseteq Foci
      BY DEF InPhase
    <3> QED BY <3>1, FS_Subset, OrchestratorAssumption DEF OrchestratorAssumption
  <2>2. Cardinality(InPhase(Started)) <= MaxConcurrent
    BY <1>1, <1>3 DEF Calm, Flight
  <2>3. /\ Cardinality(InPhase(Started)) \in Nat /\ Cardinality(InPhase({"ready"})) \in Nat
        /\ Cardinality(admitted) \in Nat /\ MaxConcurrent \in Nat
    BY <2>1, FS_CardinalityType, OrchestratorAssumption DEF OrchestratorAssumption
  <2>4. admitted = {} \/ Cardinality(admitted) <= MaxConcurrent - Cardinality(InPhase(Started))
    BY <2>3 DEF BeginWork, Lower
  <2> QED BY <1>3, <2>1, <2>2, <2>3, <2>4, RoomKept
<1>5. Places' /\ Flight'
  BY <1>1, <1>4 DEF Places, Flight, Building, Merging, Releasing
<1>6. (Imports(MergedWorks) => Sound)'
  BY <1>1 DEF Calm, Sound, MergesAreDone, GreenInv, Phase, Imports, MergedWorks
<1>7. BlockInv'
  BY <1>1, BlockKept DEF Calm, InPhase, Phase
<1>8. OnlyGreenReachesBase'
  BY <1>1 DEF Calm, OnlyGreenReachesBase
<1> QED BY <1>5, <1>6, <1>7, <1>8 DEF Calm

\* The work is over, or the plan is written, or the next cycle begins.
LEMMA PhaseCalm ==
  ASSUME IInv, Calm, WorkComplete \/ PlanDone \/ IntegrateComplete \/ ReleaseEmpty \/ Halt
                     \/ StartNextCycle \/ RequeueReopens \/ ReleaseDone
  PROVE  Calm'
<1> USE DEF files, repo, switches
<1>0. /\ cycle \in [n : 1..MaxCycle, phase : CyclePhases]
      /\ intg.cycle \in 0..MaxCycle /\ intg.merged \subseteq Merges
  BY DEF IInv, TypeOK, Integrations
<1>1. /\ UNCHANGED <<focus, branch, intg, base>> /\ at' = "idle"
      /\ at \in {"idle", "write_foci", "requeue", "released"}
  BY DEF WorkComplete, PlanDone, IntegrateComplete, ReleaseEmpty, Halt, StartNextCycle,
         RequeueReopens, ReleaseDone, BeginTick, EndTick
<1>2. ~Imports(MergedWorks) => WorkComplete \/ RequeueReopens
  BY DEF WorkComplete, PlanDone, IntegrateComplete, ReleaseEmpty, Halt, StartNextCycle,
         RequeueReopens, ReleaseDone, BeginTick, Calm, BlockInv, Places, Releasing
<1>6. (Imports(MergedWorks) => GreenInv') /\ OnlyGreenReachesBase'
  BY <1>1 DEF Calm, Sound, GreenInv, OnlyGreenReachesBase
<1>7. Imports(MergedWorks)' = Imports(MergedWorks)
  BY <1>1 DEF Imports, MergedWorks
<1>3. Places'
  BY <1>1 DEF Places, Building, Merging, Releasing
<1>4. CASE StartNextCycle
  <2>1. cycle'.n = cycle.n + 1 /\ cycle'.phase = "planning" /\ cycle.phase \in {"done", "halted"}
    BY <1>4 DEF StartNextCycle, BeginTick
  <2>2. intg.cycle = cycle.n /\ \A f \in Foci : focus[f].cycle <= cycle.n
    BY <2>1 DEF IInv, RepoInv
  <2>3. focus \in [Foci -> FocusStates] /\ \A f \in Foci : focus[f].cycle \in Nat
    BY DEF IInv, TypeOK, FocusStates
  <2>4. Flight'
    BY <1>0, <1>1, <2>1, <2>2, <2>3 DEF Flight, Planned
  <2>5. MergesAreDone'
    BY <1>0, <1>1, <2>1, <2>2 DEF MergesAreDone
  <2>6. Imports(MergedWorks)
    BY <2>1 DEF Calm, BlockInv
  <2> QED BY <1>3, <1>6, <1>7, <2>4, <2>5, <2>6 DEF Calm, Sound, BlockInv
<1>5. CASE ~StartNextCycle
  <2>1. /\ cycle'.n = cycle.n /\ cycle'.phase # "planning"
        /\ cycle.phase = "planning" => PlanDone
    BY <1>0, <1>5 DEF WorkComplete, PlanDone, IntegrateComplete, ReleaseEmpty, Halt,
                      RequeueReopens, ReleaseDone, BeginTick, WriteCycle, Calm, Places, Merging,
                      Releasing
  <2>2. Imports(MergedWorks) => MergesAreDone'
    <3>1. ASSUME cycle.phase = "planning", MergesAreDone PROVE MergesAreDone'
      <4>1. intg.cycle = cycle.n /\ intg.merged = {}
        BY <2>1, <3>1 DEF PlanDone, IInv, HandInv, MergesAreDone
      <4> QED BY <1>1, <4>1 DEF MergesAreDone
    <3>2. ASSUME cycle.phase # "planning", MergesAreDone PROVE MergesAreDone'
      BY <1>1, <2>1, <3>2 DEF MergesAreDone, Phase
    <3> QED BY <3>1, <3>2 DEF Calm, Sound
  <2>3. \A S : InPhase(S)' = InPhase(S)
    BY <1>1, <2>1 DEF InPhase, Planned, Phase
  <2>4. Claimed' = InPhase(Started)
    BY <1>1, <2>3 DEF Claimed
  <2>5. ASSUME cycle'.phase = "working" PROVE Cardinality(Claimed') <= MaxConcurrent
    <3>1. PlanDone \/ RequeueReopens
      BY <1>0, <2>5, <1>5 DEF WorkComplete, IntegrateComplete, ReleaseEmpty, Halt, ReleaseDone,
                              WriteCycle
    <3>2. CASE PlanDone
      <4>1. InPhase(Started) = {}
        BY <3>2 DEF PlanDone, Calm, Places, Flight, InPhase, Started
      <4>2. Cardinality({}) = 0
        BY FS_EmptySet
      <4> QED BY <2>4, <4>1, <4>2, OrchestratorAssumption DEF OrchestratorAssumption
    <3>3. CASE RequeueReopens
      <4>1. cycle.phase = "integrating"
        BY <3>3 DEF RequeueReopens, Calm, Places, Merging
      <4>2. InPhase(Started) \subseteq {tick.f}
        BY <4>1 DEF Calm, Flight, InPhase, ActivePhases
      <4>3. IsFiniteSet({tick.f}) /\ Cardinality({tick.f}) = 1
        BY FS_Singleton
      <4>4. Cardinality(InPhase(Started)) <= 1 /\ Cardinality(InPhase(Started)) \in Nat
        BY <4>2, <4>3, FS_Subset, FS_CardinalityType
      <4> QED BY <2>4, <4>4, OrchestratorAssumption DEF OrchestratorAssumption
    <3> QED BY <3>1, <3>2, <3>3
  <2>6. ASSUME cycle'.phase \notin {"planning", "working"} PROVE InPhase(ActivePhases)' = {}
    <3>1. CASE WorkComplete
      BY <2>3, <3>1 DEF WorkComplete
    <3>2. CASE ~WorkComplete
      <4>1. cycle.phase \notin {"planning", "working"} /\ at # "requeue"
        BY <1>0, <1>5, <2>6, <3>2 DEF PlanDone, IntegrateComplete, ReleaseEmpty, Halt,
             RequeueReopens, ReleaseDone, BeginTick, WriteCycle, Calm, Places, Releasing
      <4>2. InPhase(ActivePhases) = {}
        BY <4>1 DEF Calm, Flight
      <4> QED BY <2>3, <4>2
    <3> QED BY <3>1, <3>2
  <2>7. Flight'
    BY <2>1, <2>5, <2>6 DEF Flight
  <2>8. BlockInv'
    <3>1. ~Imports(MergedWorks) => cycle'.phase \in {"working", "integrating"}
      BY <1>0, <1>2 DEF WorkComplete, RequeueReopens, WriteCycle
    <3> QED BY <1>1, <2>1, <3>1, BlockKept DEF Calm, InPhase, Phase
  <2> QED BY <1>3, <1>6, <1>7, <2>2, <2>7, <2>8 DEF Calm, Sound
<1> QED BY <1>4, <1>5

LEMMA PlanCalm ==
  ASSUME IInv, Calm,
         \/ \E items \in SUBSET Foci, usd \in 0..PerAgent : Plan(items, usd)
         \/ \E f \in Foci : WritePlannedFocus(f)
  PROVE  Calm'
<1> USE DEF files, repo, switches
<1>1. ASSUME NEW items \in SUBSET Foci, NEW usd \in 0..PerAgent, Plan(items, usd)
      PROVE  Calm'
  <2>1. /\ cycle.phase = "planning" /\ at = "idle" /\ at' \in {"idle", "write_foci"}
        /\ UNCHANGED <<cycle, focus, branch, base>> /\ EnsureIntegration
    BY <1>1 DEF Plan, BeginTick
  <2>2. Places' /\ Flight'
    BY <2>1 DEF Calm, Places, Flight, Planned, Building, Merging, Releasing
  <2>3. intg'.green /\ intg'.merged = {}
    BY <2>1 DEF EnsureIntegration, CutFor, Calm, BlockInv, Sound, GreenInv, MergesAreDone
  <2>4. Sound' /\ OnlyGreenReachesBase'
    BY <2>1, <2>3 DEF Calm, Sound, GreenInv, MergesAreDone, OnlyGreenReachesBase
  <2>5. Imports(MergedWorks)'
    BY <2>1, <2>3, ImportsFewer DEF Calm, BlockInv
  <2> QED BY <2>2, <2>4, <2>5 DEF Calm, BlockInv
<1>2. ASSUME NEW f \in Foci, WritePlannedFocus(f) PROVE Calm'
  <2>1. /\ at = "write_foci" /\ at' = "write_foci" /\ cycle.phase = "planning"
        /\ UNCHANGED <<cycle, branch, base, intg>>
        /\ focus' = [focus EXCEPT ![f] = [cycle |-> cycle.n, phase |-> "ready",
                                          attempts |-> 0, last |-> NoDiff]]
    BY <1>2 DEF WritePlannedFocus, Calm, Places
  <2>2. /\ focus'[f].phase = "ready" /\ \A g \in Foci \ {f} : focus'[g] = focus[g]
        /\ f \in Foci
    BY <2>1 DEF IInv, TypeOK
  <2>3. Places' /\ Flight'
    BY <2>1, <2>2 DEF Calm, Places, Flight, Planned, Phase, Building, Merging, Releasing
  <2>4. (Imports(MergedWorks) => Sound)' /\ OnlyGreenReachesBase'
    BY <2>1 DEF Calm, Sound, GreenInv, MergesAreDone, OnlyGreenReachesBase, Imports, MergedWorks
  <2>5. BlockInv'
    BY <2>1, BlockKept DEF Calm, BlockInv
  <2> QED BY <2>3, <2>4, <2>5 DEF Calm
<1> QED BY <1>1, <1>2

\* A merge brings in what is not there yet, and a red gate takes exactly that away.
LEMMA MergeCalm ==
  ASSUME IInv, Calm,
         (\E f \in Foci : Merge(f) \/ MergeConflict(f)) \/ RegatePass \/ RegateFail
         \/ RegateRaises
  PROVE  Calm'
<1> USE DEF files, repo, switches
<1>0. /\ intg \in Integrations
      /\ branch \in [Foci -> Work \cup {NoWork}] /\ tick \in Locals
  BY DEF IInv, TypeOK
<1>1. /\ UNCHANGED <<cycle, focus, branch, base>>
      /\ cycle.phase = "integrating" /\ at \in {"idle", "regate"}
      /\ at' \in {"regate", "merged", "unmerged", "idle"}
  BY DEF Merge, MergeConflict, RegateRaises, RegatePass, RegateFail, BeginTick, EndTick, Continue,
         Calm, Places, Merging
<1>2. Places' /\ Flight'
  BY <1>1 DEF Calm, Places, Flight, InPhase, Planned, Phase, Building, Merging, Releasing
<1>3. ASSUME NEW f \in Foci, Merge(f) PROVE Calm'
  <2>1. /\ at = "idle" /\ at' = "regate" /\ f \in InPhase({"approved"})
        /\ intg' = [intg EXCEPT !.merged = @ \cup {<<f, branch[f]>>}, !.green = @ /\ IsMerged(f)]
        /\ tick' = [Blank EXCEPT !.f = f, !.head = Head]
    BY <1>3 DEF Merge, BeginTick
  <2>2. tick'.f = f /\ tick'.head = Head
    BY <2>1 DEF Blank
  <2>3. intg'.merged = intg.merged \cup {<<f, branch[f]>>}
    BY <1>0, <2>1
  <2>4. Phase(f) = "approved" /\ branch[f] \in Work
    BY <2>1 DEF InPhase, IInv, RepoInv, PhaseInv
  <2>5. BlockInv'
    BY <1>1, <2>1, <2>3, <2>4 DEF BlockInv, InPhase, Planned, Phase, IsMerged
  <2>6. ASSUME Sound PROVE Sound'
    <3>1. <<f, branch[f]>> \notin intg.merged
      BY <1>1, <2>1, <2>4, <2>6 DEF Sound, MergesAreDone
    <3>2. intg.green
      BY <2>1, <2>6 DEF Sound, GreenInv
    <3>3. GreenInv'
      BY <1>1, <2>1, <2>2, <2>3, <3>1, <3>2 DEF GreenInv, Head
    <3>4. MergesAreDone'
      BY <1>1, <2>1, <2>2, <2>3, <2>6 DEF Sound, MergesAreDone, Phase
    <3> QED BY <3>3, <3>4 DEF Sound
  <2>7. Imports(MergedWorks)' => Imports(MergedWorks)
    BY <2>3 DEF Imports, MergedWorks
  <2> QED BY <1>1, <1>2, <2>5, <2>6, <2>7 DEF Calm, OnlyGreenReachesBase
<1>4. ASSUME NEW f \in Foci, MergeConflict(f) PROVE Calm'
  <2>1. at = "idle" /\ at' = "unmerged" /\ UNCHANGED intg /\ ~IsMerged(f)
    BY <1>4 DEF MergeConflict, BeginTick
  <2>2. tick'.f = f
    BY <1>4 DEF MergeConflict, Blank
  <2>3. (Imports(MergedWorks) => Sound)' /\ OnlyGreenReachesBase'
    BY <1>1, <2>1 DEF Calm, Sound, GreenInv, MergesAreDone, Phase, Imports, MergedWorks,
                      OnlyGreenReachesBase
  <2>4. BlockInv'
    BY <1>1, <2>1, <2>2, BlockKept DEF Calm, InPhase, Phase, IsMerged
  <2> QED BY <1>2, <2>3, <2>4 DEF Calm
<1>5. CASE RegatePass
  <2>1. /\ at = "regate" /\ at' = "merged" /\ tick' = tick
        /\ intg'.green = TRUE /\ intg'.merged = intg.merged /\ Imports(MergedWorks)
    BY <1>0, <1>5 DEF RegatePass, Continue, Integrations
  <2>2. Sound' /\ OnlyGreenReachesBase'
    BY <1>1, <2>1 DEF Calm, Sound, GreenInv, MergesAreDone, Phase, OnlyGreenReachesBase
  <2>3. Imports(MergedWorks)'
    BY <2>1, ImportsFewer
  <2> QED BY <1>2, <2>2, <2>3 DEF Calm, BlockInv
<1>6. CASE RegateFail
  <2>1. /\ at = "regate" /\ at' = "unmerged"
        /\ intg'.green = (tick.head.green /\ tick.head.merged # intg.merged)
        /\ intg'.merged = tick.head.merged /\ Imports(MergedWorks)
    BY <1>0, <1>6 DEF RegateFail, ResetHead, Integrations
  <2>2. /\ tick.head.green /\ Sound
        /\ tick.head.merged = intg.merged \ {<<tick.f, branch[tick.f]>>}
    BY <2>1 DEF Calm, Sound, GreenInv
  <2>3. <<tick.f, branch[tick.f]>> \in intg.merged
    BY <2>1 DEF IInv, HandInv
  <2>4. intg'.green
    BY <2>1, <2>2, <2>3
  <2>5. MergesAreDone'
    BY <1>1, <2>1, <2>2 DEF Sound, MergesAreDone, Phase
  <2>6. GreenInv'
    BY <1>1, <2>1, <2>2, <2>4 DEF GreenInv
  <2>7. Imports(MergedWorks)'
    BY <2>1, <2>2, ImportsFewer
  <2> QED BY <1>1, <1>2, <2>5, <2>6, <2>7 DEF Calm, Sound, BlockInv, OnlyGreenReachesBase
<1>7. CASE RegateRaises
  <2>1. ~Imports(MergedWorks) /\ at' = "idle" /\ UNCHANGED intg
    BY <1>7 DEF RegateRaises, EndTick
  <2>2. BlockInv' /\ ~Imports(MergedWorks)' /\ OnlyGreenReachesBase'
    BY <1>1, <2>1, BlockKept
    DEF Calm, InPhase, Phase, Imports, MergedWorks, OnlyGreenReachesBase
  <2> QED BY <1>2, <2>2 DEF Calm
<1> QED BY <1>3, <1>4, <1>5, <1>6, <1>7

LEMMA AfterMergeCalm ==
  ASSUME IInv, Calm,
         \/ WriteIntegrated \/ RemoveWorktree \/ Requeue \/ KillUnmergeable
         \/ cycle.phase = "integrating" /\ Quarantine
  PROVE  Calm'
<1> USE DEF files, repo, switches
<1>0. focus \in [Foci -> FocusStates] /\ branch \in [Foci -> Work \cup {NoWork}]
  BY DEF IInv, TypeOK
<1>1. /\ UNCHANGED <<cycle, intg, base>> /\ cycle.phase = "integrating"
      /\ at \in {"merged", "cleanup", "unmerged", "quarantine"}
      /\ at' \in {"cleanup", "idle", "requeue", "quarantine"}
      /\ at' = "requeue" => tick' = tick
  BY DEF WriteIntegrated, RemoveWorktree, Requeue, KillUnmergeable, Quarantine, Kill, Continue,
         EndTick, Calm, Places, Merging
<1>2. Places' /\ (Imports(MergedWorks) => GreenInv') /\ OnlyGreenReachesBase'
  BY <1>1 DEF Calm, Places, Sound, GreenInv, Building, Merging, Releasing, OnlyGreenReachesBase
<1>3. /\ focus' = focus /\ at # "merged"
      \/ /\ tick.f \in Foci
         /\ \A g \in Foci : /\ focus'[g].cycle = focus[g].cycle
                            /\ g # tick.f => focus'[g].phase = focus[g].phase
         /\ \/ at = "merged" /\ focus'[tick.f].phase = "integrated"
            \/ at = "unmerged" /\ at' = "requeue"
            \/ at = "unmerged" /\ focus'[tick.f].phase = "dead"
  <2>1. CASE RemoveWorktree \/ Quarantine
    BY <2>1 DEF RemoveWorktree, Quarantine
  <2>2. CASE WriteIntegrated \/ Requeue \/ KillUnmergeable
    <3>1. tick.f \in Foci
      BY <2>2 DEF WriteIntegrated, Requeue, KillUnmergeable, IInv, HandInv, InHand
    <3>2. \/ /\ at = "merged" /\ focus' = [focus EXCEPT ![tick.f].phase = "integrated"]
          \/ /\ at = "unmerged" /\ at' = "requeue"
             /\ focus' = [focus EXCEPT ![tick.f].attempts = @ + 1, ![tick.f].phase = "needs_work"]
          \/ /\ at = "unmerged" /\ focus' = [focus EXCEPT ![tick.f].phase = "dead"]
      BY <2>2 DEF WriteIntegrated, Requeue, KillUnmergeable, Kill, WriteFocus, Continue
    <3> QED BY <1>0, <3>1, <3>2 DEF FocusStates
  <2> QED BY <1>1, <2>1, <2>2
<1>4. Flight'
  <2> SUFFICES ASSUME NEW g \in Foci, Planned(g)', Phase(g)' \in ActivePhases
               PROVE  at' = "requeue" /\ g = tick'.f
    BY <1>1 DEF Flight, InPhase
  <2>1. focus'[g].phase = focus[g].phase => Phase(g) \notin ActivePhases
    BY <1>0, <1>1, <1>3 DEF Calm, Flight, InPhase, Planned
  <2>2. focus'[g].phase \notin {"integrated", "dead"}
    BY DEF Phase, ActivePhases, Started
  <2> QED BY <1>1, <1>3, <2>1, <2>2 DEF Phase
<1>5. ASSUME MergesAreDone PROVE MergesAreDone'
  <2> SUFFICES ASSUME NEW f \in Foci, NEW w \in Work, <<f, w>> \in intg.merged
               PROVE  Phase(f)' = "integrated"
    BY <1>1 DEF MergesAreDone
  <2>1. Phase(f) = "integrated" \/ (at = "merged" /\ f = tick.f)
    BY <1>1, <1>5 DEF MergesAreDone
  <2>2. at = "unmerged" => Phase(tick.f) = "approved"
    BY DEF IInv, HandInv, InHand
  <2> QED BY <1>0, <1>3, <2>1, <2>2 DEF Phase
\* The approved focus that blocks integration is not the one in hand.
<1>6. BlockInv'
  <2> SUFFICES ASSUME ~Imports(MergedWorks)
               PROVE  \A g \in InPhase({"approved"}) : IsMerged(g) =>
                        focus'[g].cycle = focus[g].cycle /\ focus'[g].phase = "approved"
                        /\ branch'[g] = branch[g]
    BY <1>1, BlockKept DEF Calm
  <2>1. at # "merged" /\ (at = "unmerged" => ~IsMerged(tick.f))
    BY DEF Calm, BlockInv
  <2>2. /\ at = "cleanup" => Phase(tick.f) = "integrated"
        /\ at = "quarantine" => Phase(tick.f) = "dead"
    BY DEF IInv, HandInv, InHand
  <2>3. branch' = branch \/ /\ at \in {"cleanup", "quarantine"}
                            /\ branch' = [branch EXCEPT ![tick.f] = NoWork]
    BY DEF WriteIntegrated, RemoveWorktree, Requeue, KillUnmergeable, Quarantine, Kill
  <2>4. ASSUME NEW g \in Foci, Phase(g) = "approved", IsMerged(g), g = tick.f PROVE FALSE
    <3>1. at # "merged" /\ at # "unmerged"
      BY <2>1, <2>4
    <3>2. at = "cleanup" \/ at = "quarantine"
      BY <1>1, <3>1
    <3> QED BY <2>2, <2>4, <3>2
  <2> QED BY <1>0, <1>3, <2>3, <2>4 DEF InPhase, Phase
<1>7. Imports(MergedWorks)' = Imports(MergedWorks)
  BY <1>1 DEF Imports, MergedWorks
<1> QED BY <1>2, <1>4, <1>5, <1>6, <1>7 DEF Calm, Sound

\* The stamp of a release is gated like a merge, or dropped again.
LEMMA ReleaseCalm ==
  ASSUME IInv, Calm, Stamp \/ CommitStamp \/ StampGate \/ Publish
  PROVE  Calm'
<1> USE DEF files, repo, switches
<1>0. /\ intg \in Integrations
      /\ tick \in Locals
      /\ base \in Bases
  BY DEF IInv, TypeOK
<1>1. /\ UNCHANGED <<cycle, focus, branch>> /\ cycle.phase = "releasing"
      /\ at \in {"idle", "stamped", "stamp_gate", "publish"} /\ at' \in Releasing
  BY DEF Stamp, CommitStamp, StampGate, Publish, BeginTick, Continue, Calm, Places, Releasing
<1>2. Places' /\ Flight'
  BY <1>1 DEF Calm, Places, Flight, InPhase, Planned, Phase, Building, Merging, Releasing
<1>3. Imports(MergedWorks) /\ Sound
  BY <1>1 DEF Calm, BlockInv
<1>4. intg'.merged \subseteq intg.merged
  BY <1>0 DEF Stamp, CommitStamp, StampGate, ResetOne, LastMerge, Publish, Integrations
<1>5. MergesAreDone'
  BY <1>1, <1>3, <1>4 DEF Sound, MergesAreDone, Phase
<1>6. BlockInv'
  BY <1>3, <1>4, ImportsFewer DEF BlockInv
<1>7. CASE Stamp
  <2>1. intg'.green = intg.green /\ base' = base /\ at' \in {"stamped", "publish"} /\ at = "idle"
    BY <1>0, <1>7 DEF Stamp, BeginTick, Integrations
  <2>2. GreenInv' /\ OnlyGreenReachesBase'
    BY <1>3, <2>1 DEF Calm, Sound, GreenInv, OnlyGreenReachesBase
  <2> QED BY <1>2, <1>5, <1>6, <2>2 DEF Calm, Sound
<1>8. CASE CommitStamp
  <2>1. at = "stamped" /\ at' = "stamp_gate" /\ tick'.head = Head /\ base' = base
    BY <1>0, <1>8 DEF CommitStamp, Locals
  <2>2. intg' = intg \/ intg'.stamp = "committed"
    BY <1>0, <1>8 DEF CommitStamp, Integrations
  <2>3. intg.green
    BY <1>3, <2>1 DEF Sound, GreenInv
  <2>4. GreenInv' /\ OnlyGreenReachesBase'
    BY <2>1, <2>2, <2>3 DEF Calm, GreenInv, Head, OnlyGreenReachesBase
  <2> QED BY <1>2, <1>5, <1>6, <2>4 DEF Calm, Sound
\* With the stamp refused, HEAD is the last merge, which had its gate.
<1>9. CASE StampGate
  <2>1. at = "stamp_gate" /\ at' \in {"publish", "released"} /\ base' = base
    BY <1>9 DEF StampGate
  <2>2. tick.head.green /\ (intg.green \/ intg.stamp = "committed")
    BY <1>3, <2>1 DEF Sound, GreenInv
  <2>3. intg'.green
    <3>1. CASE intg' = [intg EXCEPT !.green = @ \/ intg.stamp = "committed"]
      BY <1>0, <2>2, <3>1 DEF Integrations
    <3>2. CASE ResetOne /\ intg.stamp = "committed"
      BY <1>0, <2>2, <3>2 DEF ResetOne, Integrations
    <3>3. CASE ResetOne /\ intg.stamp = "dirty"
      BY <1>0, <2>2, <3>3 DEF ResetOne, Integrations
    <3> QED BY <1>9, <3>1, <3>2, <3>3 DEF StampGate, ResetOne
  <2>4. GreenInv' /\ OnlyGreenReachesBase'
    BY <2>1, <2>3 DEF Calm, GreenInv, OnlyGreenReachesBase
  <2> QED BY <1>2, <1>5, <1>6, <2>4 DEF Calm, Sound
<1>10. CASE Publish
  <2>1. at = "publish" /\ at' = "released" /\ intg' = intg
    BY <1>10 DEF Publish, Continue
  <2>2. intg.green
    BY <1>3, <2>1 DEF Sound, GreenInv
  <2>3. OnlyGreenReachesBase'
    BY <1>0, <1>10, <2>2 DEF Publish, Calm, OnlyGreenReachesBase, Bases
  <2>4. GreenInv'
    BY <2>1, <2>2 DEF GreenInv
  <2> QED BY <1>2, <1>5, <1>6, <2>3, <2>4 DEF Calm, Sound
<1> QED BY <1>7, <1>8, <1>9, <1>10

LEMMA SurroundingsCalm ==
  ASSUME IInv, Calm, NewDay \/ FlipKill \/ FlipDrain \/ CommitToBase \/ UNCHANGED vars
  PROVE  Calm'
<1>1. UNCHANGED <<cycle, focus, branch, intg, at, tick>>
  BY DEF NewDay, FlipKill, FlipDrain, CommitToBase, vars, repo, files
<1>2. Places' /\ Flight'
  BY <1>1 DEF Calm, Places, Flight, Claimed, InPhase, Planned, Phase
<1>3. (Imports(MergedWorks) => Sound)'
  BY <1>1 DEF Calm, Sound, MergesAreDone, GreenInv, Phase, Imports, MergedWorks
<1>4. BlockInv'
  BY <1>1 DEF Calm, BlockInv, InPhase, Planned, Phase, IsMerged, Imports, MergedWorks
<1>5. OnlyGreenReachesBase'
  <2>1. base \in Bases
    BY DEF IInv, TypeOK
  <2> QED BY <2>1 DEF NewDay, FlipKill, FlipDrain, CommitToBase, vars, repo, files, Calm,
                      OnlyGreenReachesBase, Bases
<1> QED BY <1>2, <1>3, <1>4, <1>5 DEF Calm

\* Until the first crash every step keeps Calm.
CalmInv == crashes = 0 => Calm

LEMMA InitCalm == Init => CalmInv
<1> SUFFICES ASSUME Init PROVE Calm
  BY DEF CalmInv
<1>1. \A f \in Foci : ~Planned(f)
  BY DEF Init, Planned, Unplanned
<1>2. Places /\ Flight /\ Sound
  BY <1>1 DEF Init, CutFor, Places, Flight, Sound, MergesAreDone, GreenInv, Building, Merging, Releasing
<1>3. Imports(MergedWorks) /\ OnlyGreenReachesBase
  <2>1. MergedWorks = {}
    BY DEF Init, CutFor, MergedWorks
  <2> QED BY <2>1, OrchestratorAssumption
          DEF Init, Imports, OnlyGreenReachesBase, OrchestratorAssumption
<1> QED BY <1>2, <1>3 DEF Calm, BlockInv

LEMMA NextCalm ==
  ASSUME IInv, CalmInv, [Next]_vars
  PROVE  CalmInv'
<1>1. CASE Crash
  BY <1>1 DEF Crash, CalmInv, IInv, TypeOK
<1>2. CASE ~Crash
  <2>1. crashes' = crashes
    BY <1>2 DEF Next, Daemon, PlanTick, WorkTick, IntegrateTick, ReleaseTick, Plan,
       WritePlannedFocus, PlanDone, WorkComplete, BeginWork, SkipForBudget, BeginBuild, Retry,
       KillStuck, GateRaises, GateFail, ContractBlock, Exhausted, GatePass, Verify, RetryBuilds, BuilderRuns,
       BuilderPaid, BuildDone, WriteGreen, WriteVerdict, Quarantine, EndWork, IntegrateComplete,
       Merge, MergeConflict, RegateRaises, RegatePass, RegateFail, WriteIntegrated, RemoveWorktree, Requeue,
       RequeueReopens, KillUnmergeable, Kill, ReleaseEmpty, Stamp, CommitStamp, StampGate, Publish,
       ReleaseDone, Halt, StartNextCycle, NewDay, FlipKill, FlipDrain, CommitToBase, vars
  <2> SUFFICES ASSUME Calm PROVE Calm'
    BY <2>1 DEF CalmInv
  <2>2. CASE PlanTick
    BY <2>2, PlanCalm, PhaseCalm DEF PlanTick
  <2>3. CASE WorkTick
    <3>1. RetryBuilds \/ BuildDone \/ WriteGreen \/ WriteVerdict \/ EndWork
             \/ (\E w \in Work : BuilderRuns(w)) \/ (\E usd \in 0..PerAgent : BuilderPaid(usd))
             \/ (\E f \in Foci : GateRaises(f))
          => cycle.phase = "working"
      BY DEF RetryBuilds, BuilderRuns, BuilderPaid, BuildDone, WriteGreen, WriteVerdict, EndWork,
             GateRaises, Reached, Calm, Places, Building
    <3>2. Quarantine => cycle.phase \in {"working", "integrating"}
      BY DEF Quarantine, Calm, Places
    <3> QED BY <2>3, <3>1, <3>2, PhaseCalm, BeginWorkCalm, TurnCalm, HandCalm, AfterMergeCalm
            DEF WorkTick
  <2>4. CASE IntegrateTick
    BY <2>4, PhaseCalm, MergeCalm, AfterMergeCalm DEF IntegrateTick
  <2>5. CASE ReleaseTick
    BY <2>5, PhaseCalm, ReleaseCalm DEF ReleaseTick
  <2> QED BY <1>2, <2>2, <2>3, <2>4, <2>5, SurroundingsCalm DEF Next, Daemon
<1> QED BY <1>1, <1>2

\* While the daemon has never been interrupted, Calm holds: the work of a cycle, its
\* merges and its release follow each other with nothing left open in between.
THEOREM CalmUntilCrash == Spec => [](crashes = 0 => Calm)
<1>1. Init => CalmInv
  BY InitCalm
<1>2. IInv /\ CalmInv /\ [Next]_vars => CalmInv'
  BY NextCalm
<1> QED BY <1>1, <1>2, RepositoryConsistent, PTL DEF Spec, CalmInv

\* However many ticks admit foci and merges send them back, max_concurrent bounds the
\* foci between their first build and their verdict (_work counts every started one).
THEOREM ConcurrencyCapped == Spec => [](crashes = 0 => InFlightCapped)
<1>1. TypeOK /\ Calm => InFlightCapped
  <2> SUFFICES ASSUME TypeOK, Calm PROVE Cardinality(InPhase(Started)) <= MaxConcurrent
    BY DEF InFlightCapped
  <2>1. CASE cycle.phase = "working"
    <3>1. InPhase(Started) \subseteq Claimed /\ Claimed \subseteq Foci
      BY DEF Claimed, InPhase
    <3>2. IsFiniteSet(Claimed)
      BY <3>1, FS_Subset, OrchestratorAssumption DEF OrchestratorAssumption
    <3>3. /\ Cardinality(InPhase(Started)) <= Cardinality(Claimed)
          /\ Cardinality(Claimed) \in Nat /\ Cardinality(InPhase(Started)) \in Nat
      BY <3>1, <3>2, FS_Subset, FS_CardinalityType
    <3>4. Cardinality(Claimed) <= MaxConcurrent
      BY <2>1 DEF Calm, Flight
    <3> QED BY <3>3, <3>4, OrchestratorAssumption DEF OrchestratorAssumption
  <2>2. CASE cycle.phase = "planning"
    <3>1. InPhase(Started) = {}
      BY <2>2 DEF Calm, Flight, InPhase, Started
    <3>2. Cardinality({}) = 0
      BY FS_EmptySet
    <3> QED BY <3>1, <3>2, OrchestratorAssumption DEF OrchestratorAssumption
  <2>3. CASE cycle.phase \notin {"planning", "working"}
    <3>1. InPhase(Started) \subseteq {tick.f}
      BY <2>3 DEF Calm, Flight, InPhase, ActivePhases
    <3>2. IsFiniteSet({tick.f}) /\ Cardinality({tick.f}) = 1
      BY FS_Singleton
    <3>3. Cardinality(InPhase(Started)) <= 1 /\ Cardinality(InPhase(Started)) \in Nat
      BY <3>1, <3>2, FS_Subset, FS_CardinalityType
    <3> QED BY <3>3, OrchestratorAssumption DEF OrchestratorAssumption
  <2> QED BY <2>1, <2>2, <2>3
<1> QED BY <1>1, CalmUntilCrash, TypeCorrect, PTL

\* Between ticks the gate has passed on the HEAD of integration: a red gate resets it
\* to the HEAD before the merge, and that one had passed.
THEOREM GreenBetweenTicks == Spec => [](crashes = 0 => IntegrationStaysGreen)
<1>1. Calm => IntegrationStaysGreen
  BY DEF Calm, Sound, BlockInv, GreenInv, IntegrationStaysGreen
<1> QED BY <1>1, CalmUntilCrash, PTL

\* What a release leaves base with is a HEAD of integration the gate passed on, after a
\* merge or after the release stamp was committed; but no gate runs on the merge into
\* base itself, which makes a tree of its own once base has moved.
THEOREM BaseOnlyGreen == Spec => [](crashes = 0 => OnlyGreenReachesBase)
<1>1. Calm => OnlyGreenReachesBase
  BY DEF Calm
<1> QED BY <1>1, CalmUntilCrash, PTL

=============================================================================
